----------------------------- MODULE PartsProofs -----------------------------
(***************************************************************************)
(* Proofs about Parts: the request buffer hands every command over once,   *)
(* the worker pools implement AsyncJobs, a connection of the transport is  *)
(* a FIFO and no message is handled twice, and the rounds of RCC consist   *)
(* of the same commands at all replicas, for any number of adders,         *)
(* workers, buckets, jobs, batches, replicas and commands and any capacity *)
(* of the queues.                                                          *)
(***************************************************************************)
EXTENDS Parts, LogLemmas

-----------------------------------------------------------------------------
(* The request buffer *)

LEMMA BufConstants == NoElem \notin Elems /\ Cap \in Nat \ {0}
  BY PartsAssumption DEF Buf!BufAssumption

LEMMA BufInit == Buf!Init => Buf!BufInv
  <1> SUFFICES ASSUME Buf!Init PROVE Buf!BufInv
    OBVIOUS
  <1>1. Buf!TypeOK
    <2>1. << >> \in Seq(Elems)
      BY EmptySeq
    <2>2. 0 \in 0 .. Cap
      BY BufConstants
    <2> QED BY <2>1, <2>2 DEF Buf!Init, Buf!TypeOK
  <1>2. Buf!Owners = {} /\ Buf!Buffered = {} /\ Buf!Readers = {}
    BY DEF Buf!Init, Buf!Owners, Buf!Buffered, Buf!Readers
  <1>3. Buf!Claimed = {}
    BY BufConstants DEF Buf!Init, Buf!Claimed
  <1>4. Buf!HandedOnce
    BY DEF Buf!Init, Buf!HandedOnce, Buf!Range
  <1> QED BY <1>1, <1>2, <1>3, <1>4 DEF Buf!Init, Buf!BufInv

LEMMA BufRLock ==
  ASSUME Buf!BufInv, NEW e \in Elems, Buf!RLock(e)
  PROVE  Buf!BufInv'
  <1>1. /\ pc' = [pc EXCEPT ![e] = "inc"] /\ pc[e] \in {"start", "woken"}
        /\ UNCHANGED <<slot, waiting, b, i, flusher, force, handed>> /\ flusher # "locked"
    BY DEF Buf!RLock
  <1>2. Buf!TypeOK'
    BY <1>1 DEF Buf!BufInv, Buf!TypeOK
  <1>3. \A f \in Elems : pc'[f] = IF f = e THEN "inc" ELSE pc[f]
    BY <1>1 DEF Buf!BufInv, Buf!TypeOK
  <1>4. Buf!Owners' = Buf!Owners /\ Buf!Buffered' = Buf!Buffered
    BY <1>1, <1>3 DEF Buf!Owners, Buf!Buffered, Buf!Range
  <1>5. Buf!HandedOnce'
    BY <1>1, <1>3 DEF Buf!BufInv, Buf!HandedOnce, Buf!Range
  <1>6. Buf!Claimed' = Buf!Claimed
    BY <1>1 DEF Buf!Claimed
  <1>7. \A f \in waiting' : pc'[f] = "wait"
    BY <1>1, <1>3 DEF Buf!BufInv, Buf!TypeOK
  <1> QED BY <1>1, <1>2, <1>4, <1>5, <1>6, <1>7 DEF Buf!BufInv

LEMMA BufClaim ==
  ASSUME Buf!BufInv, NEW e \in Elems, Buf!Claim(e)
  PROVE  Buf!BufInv'
  <1>1. /\ pc[e] = "inc" /\ i' = i + 1 /\ UNCHANGED <<b, flusher, force, handed>>
        /\ i \in Nat /\ Cap \in Nat
    BY BufConstants DEF Buf!Claim, Buf!BufInv, Buf!TypeOK
  <1>2. flusher # "locked"
    BY <1>1 DEF Buf!BufInv, Buf!Readers
  <1>3. CASE i < Cap
    <2>1. /\ slot' = [slot EXCEPT ![e] = i + 1] /\ pc' = [pc EXCEPT ![e] = "store"]
          /\ waiting' = waiting
      BY <1>3 DEF Buf!Claim
    <2>2. \A f \in Elems : /\ pc'[f] = IF f = e THEN "store" ELSE pc[f]
                           /\ slot'[f] = IF f = e THEN i + 1 ELSE slot[f]
      BY <2>1 DEF Buf!BufInv, Buf!TypeOK
    <2>3. Buf!TypeOK'
      <3>1. i + 1 \in 0 .. Cap /\ i + 1 \in Nat
        BY <1>1, <1>3
      <3> QED BY <1>1, <2>1, <3>1 DEF Buf!BufInv, Buf!TypeOK
    <2>4. Buf!Buffered' = Buf!Buffered /\ Buf!Owners' = Buf!Owners \cup {e} /\ e \notin Buf!Owners
      BY <1>1, <2>2 DEF Buf!Owners, Buf!Buffered, Buf!Range
    <2>5. Buf!Claimed = 1 .. i /\ Buf!Claimed' = 1 .. (i + 1)
      BY <1>1, <1>3 DEF Buf!Claimed
    <2>6. \A f \in Buf!Owners : f \in Elems /\ f # e /\ slot'[f] = slot[f] /\ slot[f] \in 1 .. i
      BY <2>2, <2>4, <2>5 DEF Buf!BufInv, Buf!Owners, Buf!Buffered
    <2>7. slot'[e] = i + 1 /\ i + 1 \in 1 .. (i + 1) /\ \A k \in 1 .. i : k \in 1 .. (i + 1) /\ k # i + 1
      BY <1>1, <2>2
    <2>8. \A f \in Buf!Owners' : slot'[f] \in Buf!Claimed'
      BY <2>4, <2>5, <2>6, <2>7
    <2>9. \A f, g \in Buf!Owners' : slot'[f] = slot'[g] => f = g
      BY <2>4, <2>6, <2>7 DEF Buf!BufInv
    <2>10. \A k \in Buf!Claimed' : \E f \in Buf!Owners' : slot'[f] = k
      <3>1. ASSUME NEW k \in 1 .. (i + 1) PROVE \E f \in Buf!Owners' : slot'[f] = k
        <4>1. CASE k = i + 1
          BY <2>4, <2>7, <4>1
        <4>2. CASE k # i + 1
          <5>1. k \in 1 .. i
            BY <1>1, <4>2
          <5>2. \E f \in Buf!Owners : slot[f] = k
            BY <2>5, <5>1 DEF Buf!BufInv
          <5> QED BY <2>4, <2>6, <5>2
        <4> QED BY <4>1, <4>2
      <3> QED BY <2>5, <3>1
    <2>11. \A f \in Buf!Buffered' : b'[slot'[f]] = f
      BY <1>1, <2>4, <2>6 DEF Buf!BufInv, Buf!Owners
    <2>12. Buf!HandedOnce'
      BY <1>1, <2>2 DEF Buf!BufInv, Buf!HandedOnce, Buf!Range
    <2>13. \A f \in waiting' : pc'[f] = "wait"
      BY <1>1, <2>1, <2>2 DEF Buf!BufInv, Buf!TypeOK
    <2> QED BY <1>1, <1>2, <2>3, <2>8, <2>9, <2>10, <2>11, <2>12, <2>13 DEF Buf!BufInv
  <1>4. CASE ~(i < Cap)
    <2>1. /\ waiting' = waiting \cup {e} /\ pc' = [pc EXCEPT ![e] = "wait"] /\ slot' = slot
      BY <1>4 DEF Buf!Claim
    <2>2. \A f \in Elems : pc'[f] = IF f = e THEN "wait" ELSE pc[f]
      BY <2>1 DEF Buf!BufInv, Buf!TypeOK
    <2>3. Buf!TypeOK'
      BY <1>1, <2>1 DEF Buf!BufInv, Buf!TypeOK
    <2>4. Buf!Buffered' = Buf!Buffered /\ Buf!Owners' = Buf!Owners
      BY <1>1, <2>2 DEF Buf!Owners, Buf!Buffered, Buf!Range
    <2>5. Buf!Claimed' = Buf!Claimed
      BY <1>1, <1>4 DEF Buf!Claimed
    <2>6. Buf!HandedOnce'
      BY <1>1, <2>2 DEF Buf!BufInv, Buf!HandedOnce, Buf!Range
    <2>7. \A f \in waiting' : pc'[f] = "wait"
      BY <1>1, <2>1, <2>2 DEF Buf!BufInv, Buf!TypeOK
    <2> QED BY <1>1, <1>2, <2>1, <2>3, <2>4, <2>5, <2>6, <2>7 DEF Buf!BufInv
  <1> QED BY <1>3, <1>4

LEMMA BufStore ==
  ASSUME Buf!BufInv, NEW e \in Elems, Buf!Store(e)
  PROVE  Buf!BufInv'
  <1>1. /\ pc[e] = "store" /\ b' = [b EXCEPT ![slot[e]] = e] /\ pc' = [pc EXCEPT ![e] = "done"]
        /\ UNCHANGED <<slot, waiting, i, flusher, force, handed>>
    BY DEF Buf!Store
  <1>2. flusher # "locked"
    BY <1>1 DEF Buf!BufInv, Buf!Readers
  <1>3. \A f \in Elems : pc'[f] = IF f = e THEN "done" ELSE pc[f]
    BY <1>1 DEF Buf!BufInv, Buf!TypeOK
  <1>4. Buf!TypeOK'
    BY <1>1 DEF Buf!BufInv, Buf!TypeOK
  <1>5. e \notin Buf!Range(handed)
    BY <1>1 DEF Buf!BufInv, Buf!HandedOnce
  <1>6. /\ Buf!Buffered' = Buf!Buffered \cup {e} /\ Buf!Owners' = Buf!Owners /\ e \in Buf!Owners
    BY <1>1, <1>3, <1>5 DEF Buf!Owners, Buf!Buffered, Buf!Range
  <1>7. Buf!Claimed' = Buf!Claimed
    BY <1>1 DEF Buf!Claimed
  <1>8. \A f \in Buf!Buffered' : b'[slot'[f]] = f
    <2>1. Buf!Claimed \subseteq 1 .. Cap
      BY BufConstants DEF Buf!BufInv, Buf!TypeOK, Buf!Claimed
    <2>2. slot[e] \in 1 .. Cap
      BY <1>6, <2>1 DEF Buf!BufInv
    <2>3. b'[slot[e]] = e
      BY <1>1, <2>2 DEF Buf!BufInv, Buf!TypeOK
    <2>4. ASSUME NEW f \in Buf!Buffered, f # e PROVE b'[slot[f]] = f
      <3>1. f \in Buf!Owners /\ slot[f] # slot[e] /\ b[slot[f]] = f /\ slot[f] \in 1 .. Cap
        BY <1>6, <2>1, <2>4 DEF Buf!BufInv, Buf!Owners
      <3> QED BY <1>1, <3>1 DEF Buf!BufInv, Buf!TypeOK
    <2> QED BY <1>1, <1>6, <2>3, <2>4
  <1>9. Buf!HandedOnce'
    BY <1>1, <1>3 DEF Buf!BufInv, Buf!HandedOnce, Buf!Range
  <1>10. \A f \in waiting' : pc'[f] = "wait"
    BY <1>1, <1>3 DEF Buf!BufInv, Buf!TypeOK
  <1> QED BY <1>1, <1>2, <1>4, <1>6, <1>7, <1>8, <1>9, <1>10 DEF Buf!BufInv

\* The commands handed over are those in the claimed slots, each once.
LEMMA FilledIs ==
  ASSUME Buf!BufInv, Buf!Readers = {}
  PROVE  /\ Buf!Filled \in Seq(Elems) /\ Buf!Claimed = 1 .. Len(Buf!Filled)
         /\ \A k \in Buf!Claimed : /\ Buf!Filled[k] \in Buf!Buffered
                                   /\ slot[Buf!Filled[k]] = k
         /\ Buf!Owners = Buf!Buffered
  <1> DEFINE n == IF i < Cap THEN i ELSE Cap
  <1>1. n \in Nat /\ n <= Cap /\ Buf!Claimed = 1 .. n
    BY BufConstants DEF Buf!BufInv, Buf!TypeOK, Buf!Claimed
  <1>2. Buf!Filled = SubSeq(b, 1, n)
    BY DEF Buf!Filled
  <1> HIDE DEF n
  <1>3. Buf!Owners = Buf!Buffered
    BY DEF Buf!Owners, Buf!Readers
  <1>4. ASSUME NEW k \in 1 .. n PROVE b[k] \in Buf!Buffered /\ slot[b[k]] = k
    <2>1. PICK e \in Buf!Owners : slot[e] = k
      BY <1>1 DEF Buf!BufInv
    <2>2. e \in Buf!Buffered /\ b[slot[e]] = e
      BY <1>3 DEF Buf!BufInv
    <2> QED BY <2>1, <2>2
  <1>5. \A k \in 1 .. n : b[k] \in Elems
    BY <1>4 DEF Buf!Buffered
  <1>6. /\ SubSeq(b, 1, n) \in Seq(Elems) /\ Len(SubSeq(b, 1, n)) = n
        /\ \A k \in 1 .. n : SubSeq(b, 1, n)[k] = b[k]
    <2>1. 1 \in Int /\ n \in Int
      BY <1>1
    <2>2. /\ SubSeq(b, 1, n) \in Seq(Elems)
          /\ Len(SubSeq(b, 1, n)) = IF 1 <= n THEN n - 1 + 1 ELSE 0
          /\ \A k \in 1 .. n - 1 + 1 : SubSeq(b, 1, n)[k] = b[1 + k - 1]
      BY <1>5, <2>1, SubSeqProperties
    <2>3. n - 1 + 1 = n /\ \A k \in 1 .. n : 1 + k - 1 = k
      BY <1>1
    <2> QED BY <1>1, <2>2, <2>3
  <1> QED BY <1>1, <1>2, <1>3, <1>4, <1>6

LEMMA BufFlush ==
  ASSUME Buf!BufInv, Buf!Flush
  PROVE  Buf!BufInv'
  <1>1. /\ flusher = "locked" /\ handed' = handed \o Buf!Filled /\ i' = 0
        /\ flusher' \in {"idle", "exited"} /\ UNCHANGED <<slot, b, force>>
    BY DEF Buf!Flush
  <1>2. \/ pc' = [e \in Elems |-> IF e \in waiting THEN "woken" ELSE pc[e]] /\ waiting' = {}
        \/ UNCHANGED <<pc, waiting>>
    BY DEF Buf!Flush, Buf!Broadcast
  <1>3. Buf!Readers = {}
    BY <1>1 DEF Buf!BufInv
  <1>4. \A e \in Elems : pc[e] \in {"done", "store"} <=> pc'[e] \in {"done", "store"}
    BY <1>2 DEF Buf!BufInv, Buf!TypeOK
  <1>5. \A e \in Elems : pc[e] = "done" <=> pc'[e] = "done"
    BY <1>2 DEF Buf!BufInv, Buf!TypeOK
  <1>6. \A e \in waiting' : pc'[e] = "wait"
    BY <1>2 DEF Buf!BufInv
  <1>7. /\ handed \in Seq(Elems) /\ Buf!Filled \in Seq(Elems)
        /\ Len(handed) \in Nat /\ Len(Buf!Filled) \in Nat
    BY <1>3, FilledIs, LenProperties DEF Buf!BufInv, Buf!TypeOK
  <1>8. /\ handed' \in Seq(Elems) /\ Len(handed') = Len(handed) + Len(Buf!Filled)
        /\ \A k \in 1 .. Len(handed) + Len(Buf!Filled) :
              handed'[k] = IF k <= Len(handed) THEN handed[k] ELSE Buf!Filled[k - Len(handed)]
        /\ DOMAIN handed' = 1 .. Len(handed) + Len(Buf!Filled)
        /\ DOMAIN handed = 1 .. Len(handed)
    BY <1>1, <1>7, ConcatProperties, LenProperties
  <1>9. Buf!TypeOK'
    <2>1. pc' \in [Elems -> {"start", "inc", "store", "wait", "woken", "done"}] /\ waiting' \subseteq Elems
      BY <1>2 DEF Buf!BufInv, Buf!TypeOK
    <2> QED BY <1>1, <1>8, <2>1 DEF Buf!BufInv, Buf!TypeOK
  <1>10. ASSUME NEW k \in DOMAIN handed'
         PROVE  \/ k \in DOMAIN handed /\ handed'[k] = handed[k]
                \/ /\ k \notin DOMAIN handed /\ k - Len(handed) \in Buf!Claimed
                   /\ handed'[k] \in Buf!Buffered /\ slot[handed'[k]] = k - Len(handed)
    <2>1. CASE k <= Len(handed)
      BY <1>7, <1>8, <2>1
    <2>2. CASE ~(k <= Len(handed))
      <3>1. k - Len(handed) \in 1 .. Len(Buf!Filled) /\ k \notin 1 .. Len(handed)
        BY <1>7, <1>8, <2>2
      <3> QED BY <1>3, <1>8, <2>2, <3>1, FilledIs
    <2> QED BY <2>1, <2>2
  <1>11. \A e \in Buf!Buffered : \E k \in DOMAIN handed' : handed'[k] = e
    <2>1. SUFFICES ASSUME NEW e \in Buf!Buffered
                   PROVE  \E k \in DOMAIN handed' : handed'[k] = e
      OBVIOUS
    <2>2. slot[e] \in Buf!Claimed /\ Buf!Claimed = 1 .. Len(Buf!Filled) /\ b[slot[e]] = e
      BY <1>3, FilledIs DEF Buf!BufInv, Buf!Owners
    <2>3. Buf!Filled[slot[e]] = e
      <3>1. Buf!Filled[slot[e]] \in Buf!Owners /\ slot[Buf!Filled[slot[e]]] = slot[e] /\ e \in Buf!Owners
        BY <1>3, <2>2, FilledIs
      <3> QED BY <3>1 DEF Buf!BufInv
    <2>4. /\ Len(handed) + slot[e] \in 1 .. Len(handed) + Len(Buf!Filled)
          /\ ~(Len(handed) + slot[e] <= Len(handed))
          /\ (Len(handed) + slot[e]) - Len(handed) = slot[e]
      BY <1>7, <2>2
    <2> QED BY <1>8, <2>3, <2>4
  <1>12. \A e \in Buf!Range(handed') : e \in Elems /\ pc'[e] = "done"
    <2>1. ASSUME NEW k \in DOMAIN handed' PROVE handed'[k] \in Elems /\ pc'[handed'[k]] = "done"
      <3>1. CASE k \in DOMAIN handed /\ handed'[k] = handed[k]
        BY <1>5, <3>1 DEF Buf!BufInv, Buf!HandedOnce, Buf!Range
      <3>2. CASE handed'[k] \in Buf!Buffered
        BY <1>5, <3>2 DEF Buf!Buffered
      <3> QED BY <1>10, <3>1, <3>2
    <2> QED BY <2>1 DEF Buf!Range
  <1>13. ASSUME NEW j \in DOMAIN handed', NEW k \in DOMAIN handed', handed'[j] = handed'[k]
         PROVE  j = k
    <2>1. CASE j \in DOMAIN handed /\ k \in DOMAIN handed
      BY <1>10, <1>13, <2>1 DEF Buf!BufInv, Buf!HandedOnce
    <2>2. CASE j \notin DOMAIN handed /\ k \notin DOMAIN handed
      <3>1. j - Len(handed) = k - Len(handed) /\ j \in Nat /\ k \in Nat
        BY <1>8, <1>10, <1>13, <2>2
      <3> QED BY <1>7, <3>1
    <2>3. \A m, h \in DOMAIN handed' :
             m \in DOMAIN handed /\ h \notin DOMAIN handed => handed'[m] # handed'[h]
      <3>1. SUFFICES ASSUME NEW m \in DOMAIN handed', NEW h \in DOMAIN handed',
                            m \in DOMAIN handed, h \notin DOMAIN handed
                     PROVE  handed'[m] # handed'[h]
        OBVIOUS
      <3>2. handed'[h] \in Buf!Buffered /\ handed'[m] = handed[m]
        BY <1>10, <3>1
      <3> QED BY <3>1, <3>2 DEF Buf!Buffered, Buf!Range
    <2> QED BY <1>13, <2>1, <2>2, <2>3
  <1>14. Buf!HandedOnce'
    BY <1>12, <1>13 DEF Buf!HandedOnce
  <1>15. Buf!Buffered' = {} /\ Buf!Owners' = {}
    <2>1. Buf!Buffered' = {}
      <3>1. ASSUME NEW e \in Elems, pc'[e] = "done" PROVE e \in Buf!Range(handed')
        <4>1. pc[e] = "done"
          BY <1>5, <3>1
        <4>2. CASE e \in Buf!Range(handed)
          <5>1. PICK k \in DOMAIN handed : handed[k] = e
            BY <4>2 DEF Buf!Range
          <5>2. k \in DOMAIN handed' /\ handed'[k] = e
            BY <1>7, <1>8, <5>1
          <5> QED BY <5>2 DEF Buf!Range
        <4>3. CASE e \notin Buf!Range(handed)
          BY <1>11, <4>1, <4>3 DEF Buf!Buffered, Buf!Range
        <4> QED BY <4>2, <4>3
      <3> QED BY <3>1 DEF Buf!Buffered
    <2>2. \A e \in Elems : pc'[e] # "store"
      BY <1>2, <1>3 DEF Buf!Readers
    <2> QED BY <2>1, <2>2 DEF Buf!Owners
  <1>16. Buf!Claimed' = {}
    BY <1>1, BufConstants DEF Buf!Claimed
  <1>17. flusher' # "locked"
    BY <1>1
  <1> QED BY <1>6, <1>9, <1>14, <1>15, <1>16, <1>17 DEF Buf!BufInv

LEMMA BufNext ==
  ASSUME Buf!BufInv, Buf!Next
  PROVE  Buf!BufInv'
  <1>1. ASSUME NEW forced, Buf!CallFlush(forced), forced \in BOOLEAN PROVE Buf!BufInv'
    BY <1>1 DEF Buf!CallFlush, Buf!BufInv, Buf!TypeOK, Buf!Owners, Buf!Buffered, Buf!Claimed,
                Buf!HandedOnce, Buf!Range
  <1>2. CASE Buf!LockFlush
    BY <1>2 DEF Buf!LockFlush, Buf!BufInv, Buf!TypeOK, Buf!Owners, Buf!Buffered, Buf!Claimed,
                Buf!Readers, Buf!HandedOnce, Buf!Range
  <1> QED BY <1>1, <1>2, BufRLock, BufClaim, BufStore, BufFlush DEF Buf!Next, Buf!add, Buf!flush

\* While another part runs the buffer stays as it is.
LEMMA BufPartNext ==
  ASSUME Buf!BufInv, [Next]_vars
  PROVE  Buf!BufInv'
  <1>1. UNCHANGED bufVars \/ Buf!Next
    BY DEF Next, InPool, InBucket, InBuf, InNet, InRounds, vars
  <1>2. CASE UNCHANGED bufVars
    BY <1>2 DEF bufVars, Buf!BufInv, Buf!TypeOK, Buf!Owners, Buf!Buffered, Buf!Claimed,
                Buf!Readers, Buf!HandedOnce, Buf!Range
  <1> QED BY <1>1, <1>2, BufNext

\* Every command is handed to the run loop at most once and not before it is
\* written, and stays in its slot until then: for any number of goroutines in
\* add, any capacity and any threshold.
THEOREM HandsOverOnce == Spec => []BufferOnce
  <1>1. Init => Buf!BufInv
    BY BufInit DEF Init
  <1>2. Buf!BufInv /\ [Next]_vars => Buf!BufInv'
    BY BufPartNext
  <1>3. Buf!BufInv => BufferOnce
    <2> SUFFICES ASSUME Buf!BufInv PROVE BufferOnce
      OBVIOUS
    <2>1. ASSUME NEW e \in Buf!Buffered PROVE slot[e] <= i /\ b[slot[e]] = e
      <3>1. slot[e] \in Buf!Claimed /\ b[slot[e]] = e
        BY DEF Buf!BufInv, Buf!Owners
      <3>2. slot[e] <= i
        BY <3>1, BufConstants DEF Buf!Claimed, Buf!BufInv, Buf!TypeOK
      <3> QED BY <3>1, <3>2
    <2> QED BY <2>1 DEF BufferOnce, Buf!BufInv, Buf!BufferedInSlot
  <1> QED BY <1>1, <1>2, <1>3, PTL DEF Spec

-----------------------------------------------------------------------------
(* The signing dispatcher *)

LEMMA PoolConstants == /\ CallbackCap \in Nat \ {0} /\ MaxJobs \in Nat /\ NoJob \notin 1 .. MaxJobs
                       /\ NoWorker \notin Workers
  BY PartsAssumption DEF Pool!PoolAssumption

LEMMA PoolRange == \A s : Pool!Range(s) = Range(s)
  BY DEF Pool!Range, Range

LEMMA PoolOneWorker ==
  ASSUME Pool!Cardinality(DOMAIN worker) = 1, DOMAIN worker \subseteq Workers
  PROVE  \E w : DOMAIN worker = {w}
  <1>1. Pool!Cardinality(DOMAIN worker) = Cardinality(DOMAIN worker)
    BY DEF Pool!Cardinality, Cardinality
  <1>2. IsFiniteSet(Workers)
    BY PartsAssumption DEF Pool!PoolAssumption, Pool!IsFiniteSet, IsFiniteSet
  <1>3. IsFiniteSet(DOMAIN worker)
    BY <1>2, FS_Subset
  <1> QED BY <1>1, <1>3, FS_Singleton

LEMMA PoolInit == Pool!Init => Pool!PoolInv
  <1> SUFFICES ASSUME Pool!Init PROVE Pool!PoolInv
    OBVIOUS
  <1>1. PICK pool \in (SUBSET Workers) \ {{}} : worker = [w \in pool |-> [pc |-> "register", job |-> NoJob]]
    BY DEF Pool!Init
  <1>2. Pool!TypeOK
    <2>1. DOMAIN worker = pool /\ << >> \in Seq(DOMAIN worker) /\ << >> \in Seq(Pool!Jobs)
      BY <1>1, EmptySeq
    <2>2. worker \in [DOMAIN worker -> [pc : {"register", "select", "exec", "send"},
                                        job : Pool!Jobs \cup {NoJob}]]
      BY <1>1, <2>1
    <2>3. 0 \in 0 .. MaxJobs
      BY PoolConstants
    <2> QED BY <2>1, <2>2, <2>3 DEF Pool!Init, Pool!TypeOK
  <1>a. Len(<< >>) = 0 /\ DOMAIN << >> = {}
    OBVIOUS
  <1>b. Pool!Busy = {}
    BY <1>1 DEF Pool!Busy
  <1>c. ~Pool!Handing
    BY DEF Pool!Init, Pool!Handing
  <1>3. /\ Pool!Busy = {} /\ ~Pool!Handing /\ Pool!Taken = 0
        /\ DOMAIN callbackC = {} /\ DOMAIN jobQueue = {}
    <2>1. callbackC = << >> /\ jobQueue = << >> /\ submitted = 0
      BY DEF Pool!Init
    <2>2. Pool!Taken = 0
      <3>1. Len(jobQueue) = 0
        BY <1>a, <2>1, Zenon
      <3>2. Pool!Taken = submitted - Len(jobQueue)
        BY Zenon DEF Pool!Taken
      <3>3. 0 - 0 = 0
        OBVIOUS
      <3> QED BY <2>1, <3>1, <3>2, <3>3, Zenon
    <2> QED BY <1>a, <1>b, <1>c, <2>1, <2>2
  <1>4. Pool!Through = {}
    BY <1>3 DEF Pool!Through, Pool!Range, Pool!Init
  <1>5. Pool!OnePlace
    BY <1>3, <1>4 DEF Pool!OnePlace, Pool!Init
  <1>6. Pool!InOrder
    BY <1>3, <1>4 DEF Pool!InOrder
  <1> QED BY <1>2, <1>5, <1>6 DEF Pool!PoolInv

\* What the types say about the lengths.
LEMMA PoolTypes ==
  ASSUME Pool!TypeOK
  PROVE  /\ submitted \in Nat /\ submitted <= MaxJobs /\ Len(jobQueue) \in Nat
         /\ DOMAIN jobQueue = 1 .. Len(jobQueue) /\ DOMAIN callbackC = 1 .. Len(callbackC)
         /\ Len(callbackC) \in Nat /\ DOMAIN ran = 1 .. Len(ran) /\ Pool!Taken \in Int
         /\ Pool!Taken = submitted - Len(jobQueue)
  <1>1. /\ submitted \in 0 .. MaxJobs /\ jobQueue \in Seq(Pool!Jobs)
        /\ callbackC \in Seq(Pool!Jobs) /\ ran \in Seq(Pool!Jobs)
    BY DEF Pool!TypeOK
  <1>2. /\ Len(jobQueue) \in Nat /\ Len(callbackC) \in Nat
        /\ DOMAIN jobQueue = 1 .. Len(jobQueue) /\ DOMAIN callbackC = 1 .. Len(callbackC)
        /\ DOMAIN ran = 1 .. Len(ran)
    BY <1>1, LenProperties
  <1> QED BY <1>1, <1>2, PoolConstants DEF Pool!Taken

\* Exec, from a handler or a callback, or no call of it.
MayExec == Pool!Submit \/ UNCHANGED <<submitted, jobQueue, dispatcher>>

LEMMA PoolExec ==
  ASSUME Pool!TypeOK, Pool!OnePlace, MayExec
  PROVE  /\ Pool!Taken' = Pool!Taken /\ Pool!Handing' = Pool!Handing
         /\ dispatcher'.job = dispatcher.job /\ dispatcher'.worker = dispatcher.worker
         /\ dispatcher'.pc = "hand" <=> dispatcher.pc = "hand"
         /\ submitted' \in 0 .. MaxJobs /\ submitted <= submitted' /\ jobQueue' \in Seq(Pool!Jobs)
         /\ dispatcher' \in [pc : {"front", "waiting", "obtain", "hand"},
                             job : Pool!Jobs \cup {NoJob}, worker : Workers \cup {NoWorker}]
         /\ \A k \in DOMAIN jobQueue' : jobQueue'[k] = Pool!Taken + k
  <1>0. /\ dispatcher \in [pc : {"front", "waiting", "obtain", "hand"},
                           job : Pool!Jobs \cup {NoJob}, worker : Workers \cup {NoWorker}]
        /\ jobQueue \in Seq(Pool!Jobs) /\ submitted \in 0 .. MaxJobs
        /\ Pool!Taken \in 0 .. submitted /\ \A k \in DOMAIN jobQueue : jobQueue[k] = Pool!Taken + k
    BY DEF Pool!TypeOK, Pool!OnePlace
  <1>1. CASE UNCHANGED <<submitted, jobQueue, dispatcher>>
    BY <1>0, <1>1, PoolConstants DEF Pool!Taken, Pool!Handing
  <1>2. CASE Pool!Submit
    <2>1. /\ submitted < MaxJobs /\ submitted' = submitted + 1
          /\ jobQueue' = Append(jobQueue, submitted + 1)
          /\ dispatcher' = IF dispatcher.pc = "waiting" THEN [dispatcher EXCEPT !.pc = "front"]
                           ELSE dispatcher
      BY <1>2 DEF Pool!Submit
    <2>2. submitted + 1 \in Pool!Jobs /\ submitted' \in 0 .. MaxJobs /\ submitted <= submitted'
      BY <1>0, <2>1, PoolConstants DEF Pool!Jobs
    <2>3. /\ jobQueue' \in Seq(Pool!Jobs) /\ Len(jobQueue) \in Nat /\ Len(jobQueue') = Len(jobQueue) + 1
          /\ DOMAIN jobQueue = 1 .. Len(jobQueue) /\ DOMAIN jobQueue' = 1 .. Len(jobQueue) + 1
          /\ \A k \in 1 .. Len(jobQueue) : jobQueue'[k] = jobQueue[k]
          /\ jobQueue'[Len(jobQueue) + 1] = submitted + 1
      BY <1>0, <2>1, <2>2, AppendIdx
    <2>4. Pool!Taken' = Pool!Taken /\ submitted + 1 = Pool!Taken + (Len(jobQueue) + 1)
      BY <1>0, <2>1, <2>3, PoolConstants DEF Pool!Taken
    <2>5. \A k \in DOMAIN jobQueue' : jobQueue'[k] = Pool!Taken + k
      <3>1. ASSUME NEW k \in 1 .. Len(jobQueue) + 1 PROVE jobQueue'[k] = Pool!Taken + k
        <4>1. CASE k = Len(jobQueue) + 1
          BY <2>3, <2>4, <4>1
        <4>2. CASE k # Len(jobQueue) + 1
          <5>1. k \in 1 .. Len(jobQueue)
            BY <2>3, <4>2
          <5> QED BY <1>0, <2>3, <5>1
        <4> QED BY <4>1, <4>2
      <3> QED BY <2>3, <3>1
    <2>6. /\ dispatcher' \in [pc : {"front", "waiting", "obtain", "hand"},
                              job : Pool!Jobs \cup {NoJob}, worker : Workers \cup {NoWorker}]
          /\ dispatcher'.job = dispatcher.job /\ dispatcher'.worker = dispatcher.worker
          /\ dispatcher'.pc = IF dispatcher.pc = "waiting" THEN "front" ELSE dispatcher.pc
      BY <1>0, <2>1
    <2>7. Pool!Handing' = Pool!Handing /\ (dispatcher'.pc = "hand" <=> dispatcher.pc = "hand")
      BY <2>6 DEF Pool!Handing
    <2> QED BY <2>2, <2>3, <2>4, <2>5, <2>6, <2>7
  <1> QED BY <1>1, <1>2 DEF MayExec

LEMMA PoolExecInv ==
  ASSUME Pool!PoolInv, Pool!Exec
  PROVE  Pool!PoolInv'
  <1>1. MayExec /\ UNCHANGED <<workerPool, worker, callbackC, ran>>
    BY DEF Pool!Exec, MayExec
  <1>2. Pool!TypeOK /\ Pool!OnePlace
    BY DEF Pool!PoolInv
  <1>3. Pool!Busy' = Pool!Busy /\ Pool!Through' = Pool!Through
    BY <1>1 DEF Pool!Busy, Pool!Through
  <1>4. Pool!TypeOK'
    BY <1>1, <1>2, PoolExec DEF Pool!TypeOK
  <1>5. Pool!Taken \in 0 .. submitted' /\ (Pool!Handing => Pool!Taken \in 1 .. submitted')
    <2>1. submitted \in Nat /\ submitted' \in Nat /\ submitted <= submitted'
      BY <1>1, <1>2, PoolExec, PoolTypes, PoolConstants
    <2> QED BY <1>2, <2>1 DEF Pool!OnePlace
  <1>6. Pool!OnePlace'
    BY <1>1, <1>2, <1>3, <1>5, PoolExec DEF Pool!OnePlace
  <1>7. Pool!InOrder => Pool!InOrder'
    BY <1>1, <1>2, <1>3, PoolExec DEF Pool!InOrder
  <1> QED BY <1>1, <1>4, <1>6, <1>7 DEF Pool!PoolInv

LEMMA NextJob ==
  ASSUME NEW t \in Nat, NEW n \in Nat, t < n
  PROVE  /\ t + 1 \in 1 .. n /\ 1 .. t \subseteq 1 .. t + 1
         /\ t + 1 \notin 1 .. t /\ t + 1 \in 0 .. n
         /\ \A j \in 1 .. t + 1 : j \in 1 .. t \/ j = t + 1
  OBVIOUS

LEMMA PoolWaitInv ==
  ASSUME Pool!PoolInv, Pool!WaitForJob
  PROVE  Pool!PoolInv'
  <1>1. /\ dispatcher.pc = "front" /\ dispatcher' = [dispatcher EXCEPT !.pc = "waiting"]
        /\ UNCHANGED <<submitted, jobQueue, workerPool, worker, callbackC, ran>>
    BY DEF Pool!WaitForJob
  <1>2. Pool!TypeOK'
    BY <1>1 DEF Pool!TypeOK, Pool!PoolInv
  <1>3. ~Pool!Handing /\ ~Pool!Handing'
    BY <1>1 DEF Pool!Handing, Pool!TypeOK, Pool!PoolInv
  <1>4. Pool!Busy' = Pool!Busy /\ Pool!Through' = Pool!Through /\ Pool!Taken' = Pool!Taken
    BY <1>1 DEF Pool!Busy, Pool!Through, Pool!Taken
  <1>5. Pool!OnePlace'
    BY <1>1, <1>3, <1>4 DEF Pool!OnePlace, Pool!PoolInv
  <1>6. Pool!InOrder => Pool!InOrder'
    BY <1>1, <1>3, <1>4 DEF Pool!InOrder
  <1> QED BY <1>1, <1>2, <1>5, <1>6 DEF Pool!PoolInv

LEMMA PoolTakeInv ==
  ASSUME Pool!PoolInv, Pool!TakeJob
  PROVE  Pool!PoolInv'
  <1>1. /\ dispatcher.pc = "front" /\ jobQueue # << >>
        /\ dispatcher' = [dispatcher EXCEPT !.pc = "obtain", !.job = Head(jobQueue)]
        /\ jobQueue' = Tail(jobQueue)
        /\ UNCHANGED <<submitted, workerPool, worker, callbackC, ran>>
    BY DEF Pool!TakeJob
  <1>2. Pool!TypeOK /\ Pool!OnePlace /\ jobQueue \in Seq(Pool!Jobs)
    BY DEF Pool!TypeOK, Pool!PoolInv
  <1>3. /\ Head(jobQueue) \in Pool!Jobs /\ jobQueue' \in Seq(Pool!Jobs)
        /\ Len(jobQueue) \in Nat \ {0} /\ Len(jobQueue') = Len(jobQueue) - 1
        /\ DOMAIN jobQueue = 1 .. Len(jobQueue) /\ DOMAIN jobQueue' = 1 .. Len(jobQueue) - 1
        /\ Head(jobQueue) = jobQueue[1]
        /\ \A k \in 1 .. Len(jobQueue) - 1 : jobQueue'[k] = jobQueue[k + 1]
    BY <1>1, <1>2, TailIdx
  <1>4. /\ dispatcher'.pc = "obtain" /\ dispatcher'.job = Head(jobQueue)
        /\ dispatcher' \in [pc : {"front", "waiting", "obtain", "hand"},
                            job : Pool!Jobs \cup {NoJob}, worker : Workers \cup {NoWorker}]
    BY <1>1, <1>2, <1>3 DEF Pool!TypeOK
  <1>5. Pool!TypeOK'
    BY <1>1, <1>2, <1>3, <1>4 DEF Pool!TypeOK
  <1>6. ~Pool!Handing /\ Pool!Handing'
    BY <1>1, <1>4 DEF Pool!Handing
  <1>7. Pool!Busy' = Pool!Busy /\ Pool!Through' = Pool!Through
    BY <1>1 DEF Pool!Busy, Pool!Through
  <1>8. /\ \A k \in 1 .. Len(jobQueue) : jobQueue[k] = Pool!Taken + k
        /\ Pool!Taken \in 0 .. submitted /\ submitted \in Nat /\ Pool!Taken = submitted - Len(jobQueue)
    BY <1>2, <1>3, PoolTypes DEF Pool!OnePlace
  <1>9. Pool!Taken' = Pool!Taken + 1 /\ Head(jobQueue) = Pool!Taken + 1
    <2>1. Pool!Taken' = submitted - (Len(jobQueue) - 1)
      BY <1>1, <1>3 DEF Pool!Taken
    <2>2. 1 \in 1 .. Len(jobQueue)
      BY <1>3
    <2> QED BY <1>3, <1>8, <2>1, <2>2
  <1>10. /\ Pool!Taken + 1 \in 1 .. submitted /\ 1 .. Pool!Taken \subseteq 1 .. Pool!Taken + 1
         /\ Pool!Taken + 1 \notin 1 .. Pool!Taken /\ Pool!Taken + 1 \in 0 .. submitted
         /\ \A j \in 1 .. Pool!Taken + 1 : j \in 1 .. Pool!Taken \/ j = Pool!Taken + 1
    <2>1. Pool!Taken \in Nat /\ submitted \in Nat /\ Pool!Taken < submitted
      BY <1>3, <1>8
    <2> HIDE DEF Pool!Taken
    <2> QED BY <2>1, NextJob
  <1>11. \A k \in DOMAIN jobQueue' : jobQueue'[k] = (Pool!Taken + 1) + k
    <2>1. \A k \in 1 .. Len(jobQueue) - 1 : k + 1 \in 1 .. Len(jobQueue)
                                            /\ Pool!Taken + (k + 1) = (Pool!Taken + 1) + k
      BY <1>3, <1>8
    <2> QED BY <1>3, <1>8, <2>1
  <1>12. Pool!OnePlace'
    BY <1>1, <1>2, <1>4, <1>7, <1>9, <1>10, <1>11 DEF Pool!OnePlace
  <1>13. Pool!InOrder => Pool!InOrder'
    BY <1>1, <1>6, <1>7, <1>9, <1>10 DEF Pool!InOrder
  <1> QED BY <1>1, <1>5, <1>12, <1>13 DEF Pool!PoolInv

LEMMA PoolObtainInv ==
  ASSUME Pool!PoolInv, Pool!ObtainWorker
  PROVE  Pool!PoolInv'
  <1>1. /\ dispatcher.pc = "obtain" /\ workerPool # << >>
        /\ dispatcher' = [dispatcher EXCEPT !.pc = "hand", !.worker = Head(workerPool)]
        /\ workerPool' = Tail(workerPool)
        /\ UNCHANGED <<submitted, jobQueue, worker, callbackC, ran>>
    BY DEF Pool!ObtainWorker
  <1>2. Pool!TypeOK /\ Pool!OnePlace /\ workerPool \in Seq(DOMAIN worker) /\ DOMAIN worker \subseteq Workers
    BY DEF Pool!TypeOK, Pool!PoolInv
  <1>3. Head(workerPool) \in DOMAIN worker /\ workerPool' \in Seq(DOMAIN worker)
    BY <1>1, <1>2, TailIdx
  <1>4. /\ dispatcher'.pc = "hand" /\ dispatcher'.job = dispatcher.job
        /\ dispatcher'.worker = Head(workerPool)
        /\ dispatcher' \in [pc : {"front", "waiting", "obtain", "hand"},
                            job : Pool!Jobs \cup {NoJob}, worker : Workers \cup {NoWorker}]
    <2>1. dispatcher \in [pc : {"front", "waiting", "obtain", "hand"},
                          job : Pool!Jobs \cup {NoJob}, worker : Workers \cup {NoWorker}]
      BY <1>2 DEF Pool!TypeOK
    <2> QED BY <1>1, <1>2, <1>3, <2>1
  <1>5. Pool!TypeOK'
    BY <1>1, <1>2, <1>3, <1>4 DEF Pool!TypeOK
  <1>6. Pool!Handing /\ Pool!Handing'
    BY <1>1, <1>4 DEF Pool!Handing
  <1>7. Pool!Busy' = Pool!Busy /\ Pool!Through' = Pool!Through /\ Pool!Taken' = Pool!Taken
    BY <1>1 DEF Pool!Busy, Pool!Through, Pool!Taken
  <1>8. Pool!OnePlace'
    BY <1>1, <1>2, <1>4, <1>6, <1>7 DEF Pool!OnePlace
  <1>9. Pool!InOrder => Pool!InOrder'
    BY <1>1, <1>6, <1>7 DEF Pool!InOrder
  <1> QED BY <1>1, <1>5, <1>8, <1>9 DEF Pool!PoolInv

LEMMA PoolHandOverInv ==
  ASSUME Pool!PoolInv, Pool!HandOver
  PROVE  Pool!PoolInv'
  <1> DEFINE w == dispatcher.worker
  <1>1. /\ dispatcher.pc = "hand" /\ worker[w].pc = "select"
        /\ worker' = [worker EXCEPT ![w] = [pc |-> "exec", job |-> dispatcher.job]]
        /\ dispatcher' = [pc |-> "front", job |-> NoJob, worker |-> NoWorker]
        /\ UNCHANGED <<submitted, jobQueue, workerPool, callbackC, ran>>
    BY DEF Pool!HandOver
  <1>2. /\ Pool!TypeOK /\ Pool!OnePlace /\ w \in DOMAIN worker /\ DOMAIN worker' = DOMAIN worker
        /\ dispatcher.job \in Pool!Jobs \cup {NoJob}
    BY <1>1 DEF Pool!TypeOK, Pool!PoolInv
  <1>3. /\ worker'[w].pc = "exec" /\ worker'[w].job = dispatcher.job
        /\ \A v \in DOMAIN worker : v # w => worker'[v] = worker[v]
    BY <1>1, <1>2
  <1>4. Pool!TypeOK'
    <2>1. worker' \in [DOMAIN worker' -> [pc : {"register", "select", "exec", "send"},
                                          job : Pool!Jobs \cup {NoJob}]]
      BY <1>1, <1>2 DEF Pool!TypeOK
    <2> QED BY <1>1, <1>2, <2>1 DEF Pool!TypeOK
  <1>5. Pool!Handing /\ ~Pool!Handing'
    BY <1>1 DEF Pool!Handing
  <1>6. Pool!Through' = Pool!Through /\ Pool!Taken' = Pool!Taken
    BY <1>1 DEF Pool!Through, Pool!Taken
  <1>7. Pool!Busy' = Pool!Busy \cup {w} /\ w \notin Pool!Busy /\ Pool!Busy \subseteq DOMAIN worker
    BY <1>1, <1>2, <1>3 DEF Pool!Busy
  <1> HIDE DEF w
  <1>8. \A v \in Pool!Busy : worker'[v] = worker[v]
    BY <1>3, <1>7
  <1>9. /\ dispatcher.job = Pool!Taken /\ Pool!Taken \in 1 .. submitted /\ Pool!Taken \notin Pool!Through
        /\ \A v \in Pool!Busy : worker[v].job # Pool!Taken
    BY <1>2, <1>5 DEF Pool!OnePlace
  <1>10. Pool!Taken \in 1 .. Pool!Taken
    BY <1>2, <1>9, PoolTypes
  <1>11. Pool!OnePlace'
    <2>1. /\ \A v \in Pool!Busy' : worker'[v].job \in 1 .. Pool!Taken
          /\ \A v \in Pool!Busy' : worker'[v].job \notin Pool!Through
      BY <1>2, <1>3, <1>7, <1>8, <1>9, <1>10 DEF Pool!OnePlace
    <2>2. \A u, v \in Pool!Busy' : worker'[u].job = worker'[v].job => u = v
      BY <1>2, <1>3, <1>7, <1>8, <1>9 DEF Pool!OnePlace
    <2> QED BY <1>1, <1>2, <1>5, <1>6, <2>1, <2>2 DEF Pool!OnePlace
  <1>12. Pool!Cardinality(DOMAIN worker) = 1 /\ Pool!InOrder => Pool!InOrder'
    <2> SUFFICES ASSUME Pool!Cardinality(DOMAIN worker) = 1, Pool!InOrder PROVE Pool!InOrder'
      OBVIOUS
    <2>1. Pool!Busy = {}
      BY <1>2, <1>7, PoolOneWorker DEF Pool!TypeOK
    <2>2. \A j \in 1 .. Pool!Taken - 1 : j \in 1 .. Pool!Taken /\ j # Pool!Taken
      BY <1>2, PoolTypes
    <2>3. 1 .. Pool!Taken - 1 \subseteq Pool!Through
      BY <2>1, <2>2 DEF Pool!InOrder
    <2>4. \A j \in 1 .. Pool!Taken : j = Pool!Taken \/ j \in Pool!Through
      BY <2>1 DEF Pool!InOrder
    <2>5. \A v \in Pool!Busy' : 1 .. worker'[v].job - 1 \subseteq Pool!Through
      BY <1>3, <1>7, <1>9, <2>1, <2>3
    <2>6. \A j \in 1 .. Pool!Taken : j \in Pool!Through \/ \E v \in Pool!Busy' : worker'[v].job = j
      BY <1>3, <1>7, <1>9, <2>4
    <2> QED BY <1>1, <1>6, <2>5, <2>6 DEF Pool!InOrder
  <1> QED BY <1>2, <1>4, <1>11, <1>12 DEF Pool!PoolInv

\* A step that leaves the jobs of the busy workers and the queues as they are.
LEMMA PoolSame ==
  ASSUME Pool!PoolInv, Pool!TypeOK', DOMAIN worker' = DOMAIN worker, Pool!Busy' = Pool!Busy,
         \A w \in Pool!Busy : worker'[w].job = worker[w].job,
         UNCHANGED <<submitted, jobQueue, dispatcher, callbackC, ran>>
  PROVE  Pool!PoolInv'
  <1>1. Pool!Through' = Pool!Through /\ Pool!Taken' = Pool!Taken /\ Pool!Handing' = Pool!Handing
    BY DEF Pool!Through, Pool!Taken, Pool!Handing
  <1>2. Pool!OnePlace'
    BY <1>1 DEF Pool!OnePlace, Pool!PoolInv
  <1>3. Pool!InOrder => Pool!InOrder'
    BY <1>1 DEF Pool!InOrder
  <1> QED BY <1>2, <1>3 DEF Pool!PoolInv

LEMMA PoolRegisterInv ==
  ASSUME Pool!PoolInv, NEW w \in DOMAIN worker, Pool!Register(w)
  PROVE  Pool!PoolInv'
  <1>1. /\ worker[w].pc = "register" /\ workerPool' = Append(workerPool, w)
        /\ worker' = [worker EXCEPT ![w].pc = "select"]
        /\ UNCHANGED <<submitted, jobQueue, dispatcher, callbackC, ran>>
    BY DEF Pool!Register
  <1>2. /\ Pool!TypeOK /\ workerPool \in Seq(DOMAIN worker)
        /\ worker \in [DOMAIN worker -> [pc : {"register", "select", "exec", "send"},
                                         job : Pool!Jobs \cup {NoJob}]]
    BY DEF Pool!TypeOK, Pool!PoolInv
  <1>3. workerPool' \in Seq(DOMAIN worker)
    BY <1>1, <1>2, AppendIdx
  <1>4. /\ DOMAIN worker' = DOMAIN worker
        /\ worker' \in [DOMAIN worker -> [pc : {"register", "select", "exec", "send"},
                                          job : Pool!Jobs \cup {NoJob}]]
        /\ \A v \in DOMAIN worker : worker'[v].job = worker[v].job
        /\ \A v \in DOMAIN worker : v # w => worker'[v].pc = worker[v].pc
        /\ worker'[w].pc = "select"
    BY <1>1, <1>2
  <1>5. Pool!TypeOK'
    BY <1>1, <1>2, <1>3, <1>4 DEF Pool!TypeOK
  <1>6. Pool!Busy' = Pool!Busy /\ Pool!Busy \subseteq DOMAIN worker
    BY <1>1, <1>4 DEF Pool!Busy
  <1> QED BY <1>1, <1>4, <1>5, <1>6, PoolSame

LEMMA PoolExecFuncInv ==
  ASSUME Pool!PoolInv, NEW w \in DOMAIN worker, Pool!ExecFunc(w)
  PROVE  Pool!PoolInv'
  <1>1. /\ worker[w].pc = "exec" /\ worker' = [worker EXCEPT ![w].pc = "send"]
        /\ UNCHANGED <<submitted, jobQueue, dispatcher, workerPool, callbackC, ran>>
    BY DEF Pool!ExecFunc
  <1>2. /\ Pool!TypeOK
        /\ worker \in [DOMAIN worker -> [pc : {"register", "select", "exec", "send"},
                                         job : Pool!Jobs \cup {NoJob}]]
    BY DEF Pool!TypeOK, Pool!PoolInv
  <1>4. /\ DOMAIN worker' = DOMAIN worker
        /\ worker' \in [DOMAIN worker -> [pc : {"register", "select", "exec", "send"},
                                          job : Pool!Jobs \cup {NoJob}]]
        /\ \A v \in DOMAIN worker : worker'[v].job = worker[v].job
        /\ \A v \in DOMAIN worker : v # w => worker'[v].pc = worker[v].pc
        /\ worker'[w].pc = "send"
    BY <1>1, <1>2
  <1>5. Pool!TypeOK'
    BY <1>1, <1>2, <1>4 DEF Pool!TypeOK
  <1>6. Pool!Busy' = Pool!Busy /\ Pool!Busy \subseteq DOMAIN worker
    BY <1>1, <1>4 DEF Pool!Busy
  <1> QED BY <1>1, <1>4, <1>5, <1>6, PoolSame

LEMMA PoolSendInv ==
  ASSUME Pool!PoolInv, NEW w \in DOMAIN worker, Pool!SendCallback(w)
  PROVE  Pool!PoolInv'
  <1> DEFINE c == worker[w].job
  <1>1. /\ worker[w].pc = "send" /\ callbackC' = Append(callbackC, c)
        /\ worker' = [worker EXCEPT ![w] = [pc |-> "register", job |-> NoJob]]
        /\ UNCHANGED <<submitted, jobQueue, dispatcher, workerPool, ran>>
    BY DEF Pool!SendCallback
  <1>2. /\ Pool!TypeOK /\ Pool!OnePlace /\ callbackC \in Seq(Pool!Jobs)
        /\ worker \in [DOMAIN worker -> [pc : {"register", "select", "exec", "send"},
                                         job : Pool!Jobs \cup {NoJob}]]
    BY DEF Pool!TypeOK, Pool!PoolInv
  <1>3. /\ DOMAIN worker' = DOMAIN worker
        /\ worker' \in [DOMAIN worker -> [pc : {"register", "select", "exec", "send"},
                                          job : Pool!Jobs \cup {NoJob}]]
        /\ \A v \in DOMAIN worker : v # w => worker'[v] = worker[v]
        /\ worker'[w].pc = "register"
    BY <1>1, <1>2
  <1>4. w \in Pool!Busy /\ Pool!Busy' = Pool!Busy \ {w} /\ Pool!Busy \subseteq DOMAIN worker
    BY <1>1, <1>3 DEF Pool!Busy
  <1> HIDE DEF c
  <1>5. /\ c \in 1 .. Pool!Taken /\ c \notin Pool!Through
        /\ \A v \in Pool!Busy : v # w => worker[v].job # c
    BY <1>2, <1>4 DEF Pool!OnePlace, c
  <1>6. c \in Pool!Jobs
    BY <1>2, <1>5, PoolTypes, PoolConstants DEF Pool!OnePlace, Pool!Jobs
  <1>7. /\ callbackC' \in Seq(Pool!Jobs) /\ Len(callbackC) \in Nat
        /\ DOMAIN callbackC = 1 .. Len(callbackC) /\ DOMAIN callbackC' = 1 .. Len(callbackC) + 1
        /\ \A k \in 1 .. Len(callbackC) : callbackC'[k] = callbackC[k]
        /\ callbackC'[Len(callbackC) + 1] = c
        /\ Range(callbackC') = Range(callbackC) \cup {c}
    BY <1>1, <1>2, <1>6, AppendIdx
  <1>8. Pool!TypeOK'
    BY <1>1, <1>2, <1>3, <1>7 DEF Pool!TypeOK
  <1>9. /\ Pool!Taken' = Pool!Taken /\ Pool!Handing' = Pool!Handing
        /\ Pool!Through' = Pool!Through \cup {c}
    BY <1>1, <1>7, PoolRange DEF Pool!Taken, Pool!Handing, Pool!Through
  <1>10. \A k \in DOMAIN callbackC' : k \in DOMAIN callbackC \/ k = Len(callbackC) + 1
    BY <1>7
  <1>11. /\ \A k \in DOMAIN callbackC : callbackC[k] \in Pool!Through
         /\ \A k \in DOMAIN ran : ran[k] \in Pool!Through
         /\ Range(ran) \subseteq Pool!Through
    BY PoolRange DEF Pool!Through, Range
  <1>12. Pool!OnePlace'
    <2>1. \A v \in Pool!Busy' : v \in Pool!Busy /\ v # w /\ worker'[v] = worker[v]
      BY <1>3, <1>4
    <2>2. \A v \in Pool!Busy' : worker'[v].job \in 1 .. Pool!Taken /\ worker'[v].job \notin Pool!Through \cup {c}
      BY <1>2, <1>5, <2>1 DEF Pool!OnePlace
    <2>3. \A u, v \in Pool!Busy' : worker'[u].job = worker'[v].job => u = v
      BY <1>2, <2>1 DEF Pool!OnePlace
    <2>4. Pool!Handing => /\ dispatcher.job = Pool!Taken /\ Pool!Taken \in 1 .. submitted
                          /\ Pool!Taken \notin Pool!Through \cup {c}
                          /\ \A v \in Pool!Busy' : worker'[v].job # Pool!Taken
      BY <1>2, <1>4, <2>1 DEF Pool!OnePlace, c
    <2>5. \A k \in DOMAIN callbackC' : callbackC'[k] \notin Pool!Range(ran')
      BY <1>1, <1>2, <1>5, <1>7, <1>10, <1>11, PoolRange DEF Pool!OnePlace
    <2>6. \A k, m \in DOMAIN callbackC' : callbackC'[k] = callbackC'[m] => k = m
      BY <1>2, <1>5, <1>7, <1>10, <1>11 DEF Pool!OnePlace
    <2>7. Pool!Through \cup {c} \subseteq 1 .. Pool!Taken
      BY <1>2, <1>5 DEF Pool!OnePlace
    <2> QED BY <1>1, <1>2, <1>9, <2>2, <2>3, <2>4, <2>5, <2>6, <2>7 DEF Pool!OnePlace
  <1>13. Pool!InOrder => Pool!InOrder'
    <2> SUFFICES ASSUME Pool!InOrder PROVE Pool!InOrder'
      OBVIOUS
    <2>1. 1 .. c - 1 \subseteq Pool!Through
      BY <1>4 DEF Pool!InOrder, c
    <2>2. \A j \in Pool!Through : j \in Range(ran) \/ \E m \in 1 .. Len(callbackC) : callbackC[m] = j
      BY <1>7, PoolRange DEF Pool!Through, Range
    <2>3. \A j \in 1 .. c - 1 : j \in Range(ran) \/ \E m \in 1 .. (Len(callbackC) + 1) - 1 : callbackC'[m] = j
      <3>1. (Len(callbackC) + 1) - 1 = Len(callbackC)
        BY <1>7
      <3> QED BY <1>7, <2>1, <2>2, <3>1
    <2>4. ASSUME NEW k \in 1 .. Len(callbackC), NEW j \in 1 .. callbackC'[k] - 1
          PROVE  j \in Range(ran) \/ \E m \in 1 .. k - 1 : callbackC'[m] = j
      <3>1. j \in 1 .. callbackC[k] - 1 /\ k \in DOMAIN callbackC
        BY <1>7
      <3>2. j \in Range(ran) \/ \E m \in 1 .. k - 1 : callbackC[m] = j
        BY <3>1, PoolRange DEF Pool!InOrder
      <3>3. \A m \in 1 .. k - 1 : m \in 1 .. Len(callbackC)
        BY <1>7
      <3> QED BY <1>7, <3>2, <3>3
    <2>5. \A k \in DOMAIN callbackC' : \A j \in 1 .. callbackC'[k] - 1 :
             j \in Pool!Range(ran') \/ \E m \in 1 .. k - 1 : callbackC'[m] = j
      BY <1>1, <1>7, <1>10, <2>3, <2>4, PoolRange
    <2>6. \A v \in Pool!Busy' : 1 .. worker'[v].job - 1 \subseteq Pool!Through \cup {c}
      BY <1>3, <1>4 DEF Pool!InOrder
    <2>7. \A j \in 1 .. Pool!Taken : \/ Pool!Handing /\ j = Pool!Taken
                                     \/ j \in Pool!Through \cup {c}
                                     \/ \E v \in Pool!Busy' : worker'[v].job = j
      BY <1>3, <1>4 DEF Pool!InOrder, c
    <2> QED BY <1>9, <2>5, <2>6, <2>7 DEF Pool!InOrder
  <1> QED BY <1>3, <1>8, <1>12, <1>13 DEF Pool!PoolInv

LEMMA PoolRunInv ==
  ASSUME Pool!PoolInv, Pool!RunCallback
  PROVE  Pool!PoolInv'
  <1>1. /\ callbackC # << >> /\ ran' = Append(ran, Head(callbackC)) /\ callbackC' = Tail(callbackC)
        /\ MayExec /\ UNCHANGED <<workerPool, worker>>
    BY DEF Pool!RunCallback, MayExec
  <1>2. Pool!TypeOK /\ Pool!OnePlace /\ callbackC \in Seq(Pool!Jobs) /\ ran \in Seq(Pool!Jobs)
    BY DEF Pool!TypeOK, Pool!PoolInv
  <1>3. /\ Head(callbackC) \in Pool!Jobs /\ callbackC' \in Seq(Pool!Jobs) /\ Len(callbackC) \in Nat \ {0}
        /\ DOMAIN callbackC = 1 .. Len(callbackC) /\ DOMAIN callbackC' = 1 .. Len(callbackC) - 1
        /\ Head(callbackC) = callbackC[1]
        /\ \A k \in 1 .. Len(callbackC) - 1 : callbackC'[k] = callbackC[k + 1]
        /\ Range(callbackC) = Range(callbackC') \cup {Head(callbackC)}
    BY <1>1, <1>2, TailIdx
  <1>4. /\ ran' \in Seq(Pool!Jobs) /\ Range(ran') = Range(ran) \cup {Head(callbackC)}
    BY <1>1, <1>2, <1>3, AppendIdx
  <1>5. Pool!Busy' = Pool!Busy
    BY <1>1 DEF Pool!Busy
  <1>6. Pool!Through' = Pool!Through
    BY <1>3, <1>4, PoolRange DEF Pool!Through
  <1>7. Pool!TypeOK'
    BY <1>1, <1>2, <1>3, <1>4, PoolExec DEF Pool!TypeOK
  <1>8. Pool!Taken \in 0 .. submitted' /\ (Pool!Handing => Pool!Taken \in 1 .. submitted')
    <2>1. submitted \in Nat /\ submitted' \in Nat /\ submitted <= submitted'
      BY <1>1, <1>2, PoolExec, PoolTypes, PoolConstants
    <2> QED BY <1>2, <2>1 DEF Pool!OnePlace
  <1>9. /\ 1 \in DOMAIN callbackC
        /\ \A k \in DOMAIN callbackC' : k + 1 \in DOMAIN callbackC /\ k + 1 # 1 /\ callbackC'[k] = callbackC[k + 1]
        /\ \A k, m \in DOMAIN callbackC' : k + 1 = m + 1 => k = m
    BY <1>3
  <1>10. \A k \in DOMAIN callbackC' : callbackC'[k] \notin Pool!Range(ran')
    BY <1>2, <1>3, <1>4, <1>9, PoolRange DEF Pool!OnePlace
  <1>11. \A k, m \in DOMAIN callbackC' : callbackC'[k] = callbackC'[m] => k = m
    BY <1>2, <1>9 DEF Pool!OnePlace
  <1>12. Pool!OnePlace'
    BY <1>1, <1>2, <1>5, <1>6, <1>8, <1>10, <1>11, PoolExec DEF Pool!OnePlace
  <1>13. Pool!InOrder => Pool!InOrder'
    <2> SUFFICES ASSUME Pool!InOrder PROVE Pool!InOrder'
      OBVIOUS
    <2>1. ASSUME NEW k \in DOMAIN callbackC', NEW j \in 1 .. callbackC'[k] - 1
          PROVE  j \in Range(ran') \/ \E m \in 1 .. k - 1 : callbackC'[m] = j
      <3>1. k + 1 \in DOMAIN callbackC /\ j \in 1 .. callbackC[k + 1] - 1 /\ k \in Nat
        BY <1>3, <1>9
      <3>2. j \in Range(ran) \/ \E m \in 1 .. (k + 1) - 1 : callbackC[m] = j
        BY <3>1, PoolRange DEF Pool!InOrder
      <3>3. ASSUME NEW m \in 1 .. (k + 1) - 1, callbackC[m] = j
            PROVE  j \in Range(ran') \/ \E h \in 1 .. k - 1 : callbackC'[h] = j
        <4>1. CASE m = 1
          BY <1>3, <1>4, <3>3, <4>1
        <4>2. CASE m # 1
          <5>1. m - 1 \in 1 .. k - 1 /\ (m - 1) + 1 = m /\ m - 1 \in 1 .. Len(callbackC) - 1
            BY <1>3, <3>1, <4>2
          <5> QED BY <1>3, <3>3, <5>1
        <4> QED BY <4>1, <4>2
      <3> QED BY <1>4, <3>2, <3>3
    <2>2. \A k \in DOMAIN callbackC' : \A j \in 1 .. callbackC'[k] - 1 :
             j \in Pool!Range(ran') \/ \E m \in 1 .. k - 1 : callbackC'[m] = j
      BY <2>1, PoolRange
    <2>3. \A w \in Pool!Busy' : 1 .. worker'[w].job - 1 \subseteq Pool!Through'
      BY <1>1, <1>5, <1>6 DEF Pool!InOrder
    <2>4. Pool!Taken' = Pool!Taken /\ Pool!Handing' = Pool!Handing
      BY <1>1, <1>2, PoolExec
    <2>5. \A j \in 1 .. Pool!Taken' : \/ Pool!Handing' /\ j = Pool!Taken'
                                     \/ j \in Pool!Through'
                                     \/ \E w \in Pool!Busy' : worker'[w].job = j
      BY <1>1, <1>5, <1>6, <2>4 DEF Pool!InOrder
    <2> QED BY <2>2, <2>3, <2>5 DEF Pool!InOrder
  <1> QED BY <1>1, <1>7, <1>12, <1>13 DEF Pool!PoolInv

LEMMA PoolNext ==
  ASSUME Pool!PoolInv, Pool!Next
  PROVE  Pool!PoolInv' /\ DOMAIN worker' = DOMAIN worker
  <1>1. DOMAIN worker' = DOMAIN worker
    BY DEF Pool!Next, Pool!Exec, Pool!dispatch, Pool!WaitForJob, Pool!TakeJob, Pool!ObtainWorker,
           Pool!HandOver, Pool!start, Pool!Register, Pool!ExecFunc, Pool!SendCallback,
           Pool!RunCallback, Pool!PoolInv, Pool!TypeOK
  <1> QED BY <1>1, PoolExecInv, PoolWaitInv, PoolTakeInv, PoolObtainInv, PoolHandOverInv,
             PoolRegisterInv, PoolExecFuncInv, PoolSendInv, PoolRunInv
          DEF Pool!Next, Pool!dispatch, Pool!start

\* A call of Exec is a Submit of AsyncJobs.
LEMMA PoolClass ==
  ASSUME Pool!TypeOK, Pool!OnePlace, MayExec, DOMAIN worker' = DOMAIN worker
  PROVE  \/ Pool!Class' = Pool!Class
         \/ \E c \in 1 .. MaxJobs \cup Buckets : Pool!Class' = Append(Pool!Class, c)
  <1> DEFINE f(j) == IF Pool!Cardinality(DOMAIN worker) = 1 THEN 1 ELSE j
  <1>1. /\ Pool!Class = [j \in 1 .. submitted |-> f(j)]
        /\ Pool!Class' = [j \in 1 .. submitted' |-> f(j)]
    BY DEF Pool!Class
  <1>2. CASE UNCHANGED <<submitted, jobQueue, dispatcher>>
    BY <1>1, <1>2
  <1>3. CASE Pool!Submit
    <2>1. submitted' = submitted + 1 /\ submitted \in Nat /\ submitted + 1 \in 1 .. MaxJobs /\ 1 \in 1 .. MaxJobs
      BY <1>3, PoolTypes, PoolConstants DEF Pool!Submit
    <2>2. f(submitted + 1) \in 1 .. MaxJobs
      BY <2>1
    <2> HIDE DEF f
    <2>3. Pool!Class \in Seq({f(j) : j \in 1 .. submitted}) /\ Len(Pool!Class) = submitted
      BY <1>1, <2>1
    <2>4. Append(Pool!Class, f(submitted + 1)) = [j \in 1 .. submitted + 1 |-> f(j)]
      BY <1>1, <2>1, <2>3
    <2> QED BY <1>1, <2>1, <2>2, <2>4
  <1> QED BY <1>2, <1>3 DEF MayExec

\* A step of the pool is a step of AsyncJobs or leaves its variables alone.
LEMMA PoolStep ==
  ASSUME Pool!PoolInv, Pool!Next, part = "pool", part' = part
  PROVE  [Abstract!Next]_(Abstract!vars)
  <1>1. JobClass = Pool!Class /\ JobClass' = Pool!Class'
    BY DEF JobClass
  <1>2. Pool!TypeOK /\ Pool!OnePlace /\ DOMAIN worker' = DOMAIN worker
    BY PoolNext DEF Pool!PoolInv
  <1>3. CASE UNCHANGED <<submitted, ran>>
    <2>1. Pool!Class' = Pool!Class
      BY <1>2, <1>3 DEF Pool!Class
    <2> QED BY <1>1, <1>3, <2>1 DEF Abstract!vars
  <1>4. CASE Pool!Exec
    <2>1. MayExec /\ ran' = ran
      BY <1>4 DEF Pool!Exec, MayExec
    <2> QED BY <1>1, <1>2, <2>1, PoolClass DEF Abstract!vars, Abstract!Next, Abstract!Submit
  <1>5. CASE Pool!RunCallback
    <2> DEFINE c == Head(callbackC)
    <2>1. callbackC # << >> /\ ran' = Append(ran, c) /\ MayExec /\ callbackC \in Seq(Pool!Jobs)
      BY <1>2, <1>5 DEF Pool!RunCallback, MayExec, Pool!TypeOK
    <2>2. 1 \in DOMAIN callbackC /\ c = callbackC[1]
      BY <2>1, TailIdx
    <2> HIDE DEF c
    <2>3. c \notin Range(ran) /\ c \in Pool!Through
      BY <1>2, <2>2, PoolRange DEF Pool!OnePlace, Pool!Through, Range
    <2>4. c \in 1 .. submitted /\ submitted \in Nat
      BY <1>2, <2>3, PoolTypes DEF Pool!OnePlace
    <2>5. \A j \in 1 .. c - 1 : j \in 1 .. submitted /\ j # c
      BY <2>4
    <2>6. \A j \in 1 .. c - 1 : Pool!Class[j] = Pool!Class[c] => j \in Range(ran)
      <3>1. CASE Pool!Cardinality(DOMAIN worker) = 1
        <4>1. Pool!InOrder
          BY <3>1 DEF Pool!PoolInv
        <4>2. \A m \in 1 .. 1 - 1 : FALSE
          OBVIOUS
        <4> QED BY <2>2, <4>1, <4>2, PoolRange DEF Pool!InOrder
      <3>2. CASE Pool!Cardinality(DOMAIN worker) # 1
        BY <2>4, <2>5, <3>2 DEF Pool!Class
      <3> QED BY <3>1, <3>2
    <2>7. Abstract!Due(c)
      BY <1>1, <2>3, <2>6 DEF Abstract!Due, Abstract!Range, Range
    <2>8. Abstract!Submit \/ JobClass' = JobClass
      BY <1>1, <1>2, <2>1, PoolClass DEF Abstract!Submit
    <2>9. c \in DOMAIN JobClass
      BY <1>1, <2>4 DEF Pool!Class
    <2> QED BY <2>1, <2>7, <2>8, <2>9 DEF Abstract!Next, Abstract!Run
  <1>6. \/ Pool!Exec \/ Pool!RunCallback \/ UNCHANGED <<submitted, ran>>
    BY DEF Pool!Next, Pool!dispatch, Pool!WaitForJob, Pool!TakeJob, Pool!ObtainWorker,
           Pool!HandOver, Pool!start, Pool!Register, Pool!ExecFunc, Pool!SendCallback
  <1> QED BY <1>3, <1>4, <1>5, <1>6

-----------------------------------------------------------------------------
(* The bucket dispatcher *)

LEMMA BucketConstants == /\ CallbackCap \in Nat \ {0} /\ MaxJobs \in Nat /\ NoJob \notin 1 .. MaxJobs
                         /\ Buckets # {}
  BY PartsAssumption DEF Bucket!BucketAssumption

LEMMA BucketRange == \A s : Bucket!Range(s) = Range(s)
  BY DEF Bucket!Range, Range

LEMMA BucketStarted ==
  \A c, j : j \in Bucket!Started(c) <=> (j \in Bucket!Through \/ (c \in Bucket!Busy /\ j = worker[c].job))
  BY DEF Bucket!Started

LEMMA BucketInit == Bucket!Init => Bucket!BucketInv
  <1> SUFFICES ASSUME Bucket!Init PROVE Bucket!BucketInv
    OBVIOUS
  <1>1. /\ bucket = << >> /\ jobQueue = << >> /\ callbackC = << >> /\ ran = << >>
        /\ dispatcher = [pc |-> "front", job |-> NoJob]
        /\ jobChannel = [c \in Buckets |-> << >>]
        /\ worker = [c \in Buckets |-> [pc |-> "select", job |-> NoJob]]
    BY DEF Bucket!Init
  <1>2. Len(<< >>) = 0 /\ DOMAIN << >> = {} /\ 0 - 0 = 0 /\ \A j \in 1 .. 0 : FALSE
    OBVIOUS
  <1>3. /\ DOMAIN callbackC = {} /\ DOMAIN jobQueue = {} /\ DOMAIN ran = {}
        /\ Len(bucket) = 0 /\ Len(jobQueue) = 0
    BY <1>1, <1>2, Zenon
  <1>4. Bucket!TypeOK
    <2>1. << >> \in Seq(Bucket!Jobs) /\ << >> \in Seq(Buckets) /\ 0 <= MaxJobs
      BY EmptySeq, BucketConstants
    <2> QED BY <1>1, <1>3, <2>1 DEF Bucket!TypeOK
  <1>5. Bucket!Taken = 0
    BY <1>2, <1>3, Zenon DEF Bucket!Taken
  <1>6. Bucket!Busy = {}
    BY <1>1 DEF Bucket!Busy
  <1>7. ~Bucket!Handing
    BY <1>1 DEF Bucket!Handing
  <1>8. Bucket!Through = {}
    BY <1>3, BucketRange DEF Bucket!Through, Range
  <1>9. \A c \in Buckets : DOMAIN jobChannel[c] = {}
    BY <1>1, <1>2
  <1>10. Bucket!OnePlace
    BY <1>3, <1>5, <1>6, <1>7, <1>8, <1>9 DEF Bucket!OnePlace
  <1>11. Bucket!InOrder
    BY <1>2, <1>3, <1>5, <1>6, <1>9 DEF Bucket!InOrder
  <1> QED BY <1>4, <1>10, <1>11 DEF Bucket!BucketInv

\* What the types say about the lengths.
LEMMA BucketTypes ==
  ASSUME Bucket!TypeOK
  PROVE  /\ Len(bucket) \in Nat /\ Len(bucket) <= MaxJobs /\ Len(jobQueue) \in Nat
         /\ DOMAIN bucket = 1 .. Len(bucket)
         /\ DOMAIN jobQueue = 1 .. Len(jobQueue) /\ DOMAIN callbackC = 1 .. Len(callbackC)
         /\ Len(callbackC) \in Nat /\ Bucket!Taken \in Int
         /\ Bucket!Taken = Len(bucket) - Len(jobQueue)
         /\ \A c \in Buckets : /\ jobChannel[c] \in Seq(Bucket!Jobs) /\ Len(jobChannel[c]) \in Nat
                               /\ DOMAIN jobChannel[c] = 1 .. Len(jobChannel[c])
  <1>1. /\ bucket \in Seq(Buckets) /\ jobQueue \in Seq(Bucket!Jobs) /\ callbackC \in Seq(Bucket!Jobs)
        /\ Len(bucket) <= MaxJobs /\ \A c \in Buckets : jobChannel[c] \in Seq(Bucket!Jobs)
    BY DEF Bucket!TypeOK
  <1>2. /\ Len(bucket) \in Nat /\ Len(jobQueue) \in Nat /\ Len(callbackC) \in Nat
        /\ DOMAIN jobQueue = 1 .. Len(jobQueue) /\ DOMAIN callbackC = 1 .. Len(callbackC)
        /\ DOMAIN bucket = 1 .. Len(bucket)
        /\ \A c \in Buckets : /\ Len(jobChannel[c]) \in Nat
                              /\ DOMAIN jobChannel[c] = 1 .. Len(jobChannel[c])
    BY <1>1, LenProperties
  <1> QED BY <1>1, <1>2 DEF Bucket!Taken

\* Exec, from a handler or a callback, or no call of it.
MayExecBucket == Bucket!Submit \/ UNCHANGED <<bucket, jobQueue, dispatcher>>

LEMMA BucketExec ==
  ASSUME Bucket!TypeOK, Bucket!OnePlace, MayExecBucket
  PROVE  /\ Bucket!Taken' = Bucket!Taken /\ Bucket!Handing' = Bucket!Handing
         /\ dispatcher'.job = dispatcher.job
         /\ bucket' \in Seq(Buckets) /\ Len(bucket') <= MaxJobs /\ Len(bucket) <= Len(bucket')
         /\ Len(bucket') \in Nat /\ jobQueue' \in Seq(Bucket!Jobs)
         /\ dispatcher' \in [pc : {"front", "waiting", "hand"}, job : Bucket!Jobs \cup {NoJob}]
         /\ \A k \in DOMAIN jobQueue' : jobQueue'[k] = Bucket!Taken + k
         /\ \A k \in 1 .. Bucket!Taken : bucket'[k] = bucket[k]
         /\ bucket' = bucket \/ \E c \in Buckets : bucket' = Append(bucket, c)
  <1>0. /\ dispatcher \in [pc : {"front", "waiting", "hand"}, job : Bucket!Jobs \cup {NoJob}]
        /\ jobQueue \in Seq(Bucket!Jobs) /\ bucket \in Seq(Buckets) /\ Len(bucket) \in Nat
        /\ Len(bucket) <= MaxJobs /\ Bucket!Taken = Len(bucket) - Len(jobQueue)
        /\ Bucket!Taken \in 0 .. Len(bucket)
        /\ \A k \in DOMAIN jobQueue : jobQueue[k] = Bucket!Taken + k
    BY BucketTypes DEF Bucket!TypeOK, Bucket!OnePlace
  <1>1. CASE UNCHANGED <<bucket, jobQueue, dispatcher>>
    BY <1>0, <1>1 DEF Bucket!Taken, Bucket!Handing
  <1>2. CASE Bucket!Submit
    <2>1. /\ Len(bucket) < MaxJobs /\ jobQueue' = Append(jobQueue, Len(bucket) + 1)
          /\ dispatcher' = IF dispatcher.pc = "waiting" THEN [dispatcher EXCEPT !.pc = "front"]
                           ELSE dispatcher
      BY <1>2 DEF Bucket!Submit
    <2>2. PICK c \in Buckets : bucket' = Append(bucket, c)
      BY <1>2 DEF Bucket!Submit
    <2>3. Len(bucket) + 1 \in Bucket!Jobs
      BY <1>0, <2>1, BucketConstants DEF Bucket!Jobs
    <2>4. /\ jobQueue' \in Seq(Bucket!Jobs) /\ Len(jobQueue) \in Nat /\ Len(jobQueue') = Len(jobQueue) + 1
          /\ DOMAIN jobQueue = 1 .. Len(jobQueue) /\ DOMAIN jobQueue' = 1 .. Len(jobQueue) + 1
          /\ \A k \in 1 .. Len(jobQueue) : jobQueue'[k] = jobQueue[k]
          /\ jobQueue'[Len(jobQueue) + 1] = Len(bucket) + 1
      BY <1>0, <2>1, <2>3, AppendIdx
    <2>5. /\ bucket' \in Seq(Buckets) /\ Len(bucket') = Len(bucket) + 1
          /\ \A k \in 1 .. Len(bucket) : bucket'[k] = bucket[k]
      BY <1>0, <2>2, AppendIdx
    <2>6. /\ Len(bucket') <= MaxJobs /\ Len(bucket) <= Len(bucket') /\ Len(bucket') \in Nat
      BY <1>0, <2>1, <2>5, BucketConstants
    <2>7. Bucket!Taken' = Bucket!Taken /\ Len(bucket) + 1 = Bucket!Taken + (Len(jobQueue) + 1)
      <3>1. Bucket!Taken' = Len(bucket') - Len(jobQueue')
        BY DEF Bucket!Taken
      <3> QED BY <1>0, <2>4, <2>5, <3>1
    <2>8. \A k \in DOMAIN jobQueue' : jobQueue'[k] = Bucket!Taken + k
      <3>1. ASSUME NEW k \in 1 .. Len(jobQueue) + 1 PROVE jobQueue'[k] = Bucket!Taken + k
        <4>1. CASE k = Len(jobQueue) + 1
          BY <2>4, <2>7, <4>1
        <4>2. CASE k # Len(jobQueue) + 1
          <5>1. k \in 1 .. Len(jobQueue)
            BY <2>4, <4>2
          <5> QED BY <1>0, <2>4, <5>1
        <4> QED BY <4>1, <4>2
      <3> QED BY <2>4, <3>1
    <2>9. \A k \in 1 .. Bucket!Taken : bucket'[k] = bucket[k]
      BY <1>0, <2>5
    <2>10. /\ dispatcher' \in [pc : {"front", "waiting", "hand"}, job : Bucket!Jobs \cup {NoJob}]
           /\ dispatcher'.job = dispatcher.job
           /\ dispatcher'.pc = IF dispatcher.pc = "waiting" THEN "front" ELSE dispatcher.pc
      BY <1>0, <2>1
    <2>11. Bucket!Handing' = Bucket!Handing
      BY <2>10 DEF Bucket!Handing
    <2> QED BY <2>2, <2>4, <2>5, <2>6, <2>7, <2>8, <2>9, <2>10, <2>11
  <1> QED BY <1>1, <1>2 DEF MayExecBucket

\* The jobs that are under way were taken from the list, so Exec leaves their
\* buckets as they are.
LEMMA BucketExecPlace ==
  ASSUME Bucket!TypeOK, Bucket!OnePlace, MayExecBucket
  PROVE  /\ Bucket!Taken \in 0 .. Len(bucket') /\ (Bucket!Handing => Bucket!Taken \in 1 .. Len(bucket'))
         /\ \A c \in Bucket!Busy : /\ worker[c].job \in 1 .. Bucket!Taken /\ bucket'[worker[c].job] = c
         /\ \A c \in Buckets : \A k \in DOMAIN jobChannel[c] :
               jobChannel[c][k] \in 1 .. Bucket!Taken /\ bucket'[jobChannel[c][k]] = c
  <1>1. /\ Len(bucket) \in Nat /\ Len(bucket') \in Nat /\ Len(bucket) <= Len(bucket')
        /\ \A k \in 1 .. Bucket!Taken : bucket'[k] = bucket[k]
    BY BucketExec, BucketTypes
  <1>2. Bucket!Taken \in 0 .. Len(bucket') /\ (Bucket!Handing => Bucket!Taken \in 1 .. Len(bucket'))
    BY <1>1 DEF Bucket!OnePlace
  <1> QED BY <1>1, <1>2 DEF Bucket!OnePlace

LEMMA BucketExecOrder ==
  ASSUME Bucket!TypeOK, Bucket!OnePlace, Bucket!InOrder, MayExecBucket
  PROVE  /\ \A c \in Bucket!Busy : \A j \in 1 .. worker[c].job - 1 : bucket'[j] = c => j \in Bucket!Through
         /\ \A c \in Buckets : \A k \in DOMAIN jobChannel[c] : \A j \in 1 .. jobChannel[c][k] - 1 :
               bucket'[j] = c => j \in Bucket!Started(c) \/ \E m \in 1 .. k - 1 : jobChannel[c][m] = j
         /\ \A j \in 1 .. Bucket!Taken :
               \/ Bucket!Handing /\ j = Bucket!Taken
               \/ j \in Bucket!Started(bucket'[j]) \cup Bucket!Range(jobChannel[bucket'[j]])
         /\ \A k \in DOMAIN callbackC : \A j \in 1 .. callbackC[k] - 1 :
               bucket'[j] = bucket'[callbackC[k]] => bucket[j] = bucket[callbackC[k]]
  <1>1. /\ Bucket!Taken \in Int /\ \A k \in 1 .. Bucket!Taken : bucket'[k] = bucket[k]
    BY BucketExec, BucketTypes
  <1>2. \A h \in 1 .. Bucket!Taken : bucket'[h] = bucket[h] /\ \A j \in 1 .. h - 1 : bucket'[j] = bucket[j]
    BY <1>1
  <1>3. \A k \in DOMAIN callbackC : callbackC[k] \in 1 .. Bucket!Taken
    BY BucketRange DEF Bucket!OnePlace, Bucket!Through, Range
  <1>4. \A k \in DOMAIN callbackC : \A j \in 1 .. callbackC[k] - 1 :
           bucket'[j] = bucket'[callbackC[k]] => bucket[j] = bucket[callbackC[k]]
    BY <1>2, <1>3
  <1>5. \A c \in Bucket!Busy : \A j \in 1 .. worker[c].job - 1 : bucket'[j] = c => j \in Bucket!Through
    BY <1>2 DEF Bucket!OnePlace, Bucket!InOrder
  <1>6. \A c \in Buckets : \A k \in DOMAIN jobChannel[c] : \A j \in 1 .. jobChannel[c][k] - 1 :
           bucket'[j] = c => j \in Bucket!Started(c) \/ \E m \in 1 .. k - 1 : jobChannel[c][m] = j
    BY <1>2 DEF Bucket!OnePlace, Bucket!InOrder
  <1>7. \A j \in 1 .. Bucket!Taken :
           \/ Bucket!Handing /\ j = Bucket!Taken
           \/ j \in Bucket!Started(bucket'[j]) \cup Bucket!Range(jobChannel[bucket'[j]])
    BY <1>1 DEF Bucket!InOrder
  <1> QED BY <1>4, <1>5, <1>6, <1>7

LEMMA BucketExecInv ==
  ASSUME Bucket!BucketInv, Bucket!Exec
  PROVE  Bucket!BucketInv'
  <1>1. MayExecBucket /\ UNCHANGED <<jobChannel, worker, callbackC, ran>>
    BY DEF Bucket!Exec, MayExecBucket
  <1>2. Bucket!TypeOK /\ Bucket!OnePlace /\ Bucket!InOrder
    BY DEF Bucket!BucketInv
  <1>3. /\ Bucket!Busy' = Bucket!Busy /\ Bucket!Through' = Bucket!Through
        /\ \A c : Bucket!Started(c)' = Bucket!Started(c)
    BY <1>1 DEF Bucket!Busy, Bucket!Through, Bucket!Started
  <1>4. Bucket!TypeOK'
    BY <1>1, <1>2, BucketExec DEF Bucket!TypeOK
  <1>5. Bucket!OnePlace'
    BY <1>1, <1>2, <1>3, BucketExec, BucketExecPlace DEF Bucket!OnePlace
  <1>6. Bucket!InOrder'
    BY <1>1, <1>2, <1>3, BucketExec, BucketExecOrder DEF Bucket!InOrder
  <1> QED BY <1>4, <1>5, <1>6 DEF Bucket!BucketInv

LEMMA BucketWaitInv ==
  ASSUME Bucket!BucketInv, Bucket!WaitForJob
  PROVE  Bucket!BucketInv'
  <1>1. /\ dispatcher.pc = "front" /\ dispatcher' = [dispatcher EXCEPT !.pc = "waiting"]
        /\ UNCHANGED <<bucket, jobQueue, jobChannel, worker, callbackC, ran>>
    BY DEF Bucket!WaitForJob
  <1>2. Bucket!TypeOK'
    BY <1>1 DEF Bucket!TypeOK, Bucket!BucketInv
  <1>3. ~Bucket!Handing /\ ~Bucket!Handing'
    BY <1>1 DEF Bucket!Handing, Bucket!TypeOK, Bucket!BucketInv
  <1>4. /\ Bucket!Busy' = Bucket!Busy /\ Bucket!Through' = Bucket!Through
        /\ Bucket!Taken' = Bucket!Taken /\ \A c : Bucket!Started(c)' = Bucket!Started(c)
    BY <1>1 DEF Bucket!Busy, Bucket!Through, Bucket!Taken, Bucket!Started
  <1>5. Bucket!OnePlace'
    BY <1>1, <1>3, <1>4 DEF Bucket!OnePlace, Bucket!BucketInv
  <1>6. Bucket!InOrder'
    BY <1>1, <1>3, <1>4 DEF Bucket!InOrder, Bucket!BucketInv
  <1> QED BY <1>2, <1>5, <1>6 DEF Bucket!BucketInv

LEMMA BucketTakeInv ==
  ASSUME Bucket!BucketInv, Bucket!TakeJob
  PROVE  Bucket!BucketInv'
  <1>1. /\ dispatcher.pc = "front" /\ jobQueue # << >>
        /\ dispatcher' = [pc |-> "hand", job |-> Head(jobQueue)] /\ jobQueue' = Tail(jobQueue)
        /\ UNCHANGED <<bucket, jobChannel, worker, callbackC, ran>>
    BY DEF Bucket!TakeJob
  <1>2. Bucket!TypeOK /\ Bucket!OnePlace /\ Bucket!InOrder /\ jobQueue \in Seq(Bucket!Jobs)
    BY DEF Bucket!TypeOK, Bucket!BucketInv
  <1>3. /\ Head(jobQueue) \in Bucket!Jobs /\ jobQueue' \in Seq(Bucket!Jobs)
        /\ Len(jobQueue) \in Nat \ {0} /\ Len(jobQueue') = Len(jobQueue) - 1
        /\ DOMAIN jobQueue = 1 .. Len(jobQueue) /\ DOMAIN jobQueue' = 1 .. Len(jobQueue) - 1
        /\ Head(jobQueue) = jobQueue[1]
        /\ \A k \in 1 .. Len(jobQueue) - 1 : jobQueue'[k] = jobQueue[k + 1]
    BY <1>1, <1>2, TailIdx
  <1>4. Bucket!TypeOK'
    BY <1>1, <1>2, <1>3 DEF Bucket!TypeOK
  <1>5. ~Bucket!Handing /\ Bucket!Handing' /\ dispatcher'.job = Head(jobQueue)
    BY <1>1 DEF Bucket!Handing
  <1>6. /\ Bucket!Busy' = Bucket!Busy /\ Bucket!Through' = Bucket!Through
        /\ \A c : Bucket!Started(c)' = Bucket!Started(c)
    BY <1>1 DEF Bucket!Busy, Bucket!Through, Bucket!Started
  <1>7. /\ \A k \in 1 .. Len(jobQueue) : jobQueue[k] = Bucket!Taken + k
        /\ Bucket!Taken \in 0 .. Len(bucket) /\ Len(bucket) \in Nat
        /\ Bucket!Taken = Len(bucket) - Len(jobQueue)
    BY <1>2, <1>3, BucketTypes DEF Bucket!OnePlace
  <1>8. Bucket!Taken' = Bucket!Taken + 1 /\ Head(jobQueue) = Bucket!Taken + 1
    <2>1. Bucket!Taken' = Len(bucket) - (Len(jobQueue) - 1)
      BY <1>1, <1>3 DEF Bucket!Taken
    <2>2. 1 \in 1 .. Len(jobQueue)
      BY <1>3
    <2> QED BY <1>3, <1>7, <2>1, <2>2
  <1>9. /\ Bucket!Taken + 1 \in 1 .. Len(bucket) /\ 1 .. Bucket!Taken \subseteq 1 .. Bucket!Taken + 1
        /\ Bucket!Taken + 1 \notin 1 .. Bucket!Taken /\ Bucket!Taken + 1 \in 0 .. Len(bucket)
        /\ \A j \in 1 .. Bucket!Taken + 1 : j \in 1 .. Bucket!Taken \/ j = Bucket!Taken + 1
    <2>1. Bucket!Taken \in Nat /\ Len(bucket) \in Nat /\ Bucket!Taken < Len(bucket)
      BY <1>3, <1>7
    <2> QED BY <2>1, NextJob
  <1>10. \A k \in DOMAIN jobQueue' : jobQueue'[k] = (Bucket!Taken + 1) + k
    <2>1. \A k \in 1 .. Len(jobQueue) - 1 : k + 1 \in 1 .. Len(jobQueue)
                                            /\ Bucket!Taken + (k + 1) = (Bucket!Taken + 1) + k
      BY <1>3, <1>7
    <2> QED BY <1>3, <1>7, <2>1
  <1>11. \A c \in Buckets : Bucket!Taken + 1 \notin Bucket!Started(c) \cup Bucket!Range(jobChannel[c])
    BY <1>2, <1>9, BucketStarted DEF Bucket!OnePlace, Bucket!Range
  <1>12. Bucket!OnePlace'
    BY <1>1, <1>2, <1>5, <1>6, <1>8, <1>9, <1>10, <1>11 DEF Bucket!OnePlace
  <1>13. Bucket!InOrder'
    BY <1>1, <1>2, <1>5, <1>6, <1>8, <1>9 DEF Bucket!InOrder
  <1> QED BY <1>4, <1>12, <1>13 DEF Bucket!BucketInv

LEMMA BucketHandOverInv ==
  ASSUME Bucket!BucketInv, Bucket!HandOver
  PROVE  Bucket!BucketInv'
  <1> DEFINE d == bucket[dispatcher.job]
             q == jobChannel[d]
             t == Bucket!Taken
  <1>1. /\ dispatcher.pc = "hand" /\ dispatcher' = [pc |-> "front", job |-> NoJob]
        /\ jobChannel' = [jobChannel EXCEPT ![d] = Append(q, dispatcher.job)]
        /\ UNCHANGED <<bucket, jobQueue, worker, callbackC, ran>>
    BY DEF Bucket!HandOver
  <1>2. Bucket!TypeOK /\ Bucket!OnePlace /\ Bucket!InOrder
    BY DEF Bucket!BucketInv
  <1>3. Bucket!Handing /\ ~Bucket!Handing'
    BY <1>1 DEF Bucket!Handing
  <1>4. /\ dispatcher.job = t /\ t \in 1 .. Len(bucket)
        /\ \A c \in Buckets : t \notin Bucket!Started(c) \cup Bucket!Range(jobChannel[c])
    BY <1>2, <1>3 DEF Bucket!OnePlace
  <1>5. d \in Buckets /\ t \in Bucket!Jobs
    <2>1. bucket \in Seq(Buckets) /\ Len(bucket) \in Nat /\ Len(bucket) <= MaxJobs
          /\ DOMAIN bucket = 1 .. Len(bucket)
      BY <1>2, BucketTypes DEF Bucket!TypeOK
    <2>2. t \in Bucket!Jobs
      BY <1>4, <2>1, BucketConstants DEF Bucket!Jobs
    <2>3. \A k \in 1 .. Len(bucket) : bucket[k] \in Buckets
      BY <2>1, ElementOfSeq
    <2> QED BY <1>4, <2>2, <2>3
  <1>6. q \in Seq(Bucket!Jobs) /\ jobChannel \in [Buckets -> Seq(Bucket!Jobs)]
    BY <1>2, <1>5 DEF Bucket!TypeOK
  <1>7. /\ jobChannel'[d] = Append(q, t) /\ \A c \in Buckets : c # d => jobChannel'[c] = jobChannel[c]
    BY <1>1, <1>4, <1>5, <1>6
  <1>a. bucket[t] = d /\ t \in 1 .. t /\ t \in Int
    BY <1>2, <1>4, BucketTypes
  <1> HIDE DEF d, q, t
  <1>8. /\ Append(q, t) \in Seq(Bucket!Jobs) /\ Len(q) \in Nat /\ DOMAIN q = 1 .. Len(q)
        /\ DOMAIN Append(q, t) = 1 .. Len(q) + 1
        /\ \A k \in 1 .. Len(q) : Append(q, t)[k] = q[k]
        /\ Append(q, t)[Len(q) + 1] = t /\ Range(Append(q, t)) = Range(q) \cup {t}
    BY <1>5, <1>6, AppendIdx
  <1>9. Bucket!TypeOK'
    BY <1>1, <1>2, <1>4, <1>5, <1>6, <1>8 DEF Bucket!TypeOK
  <1>10. /\ Bucket!Busy' = Bucket!Busy /\ Bucket!Through' = Bucket!Through
         /\ t = Bucket!Taken /\ Bucket!Taken' = t /\ \A c : Bucket!Started(c)' = Bucket!Started(c)
    BY <1>1 DEF Bucket!Busy, Bucket!Through, Bucket!Started, Bucket!Taken, t
  <1>11. ASSUME NEW c \in Buckets, NEW k \in DOMAIN jobChannel'[c]
         PROVE  \/ k \in DOMAIN jobChannel[c] /\ jobChannel'[c][k] = jobChannel[c][k]
                \/ c = d /\ k = Len(q) + 1 /\ jobChannel'[c][k] = t
    <2>1. CASE c # d
      BY <1>7, <2>1
    <2>2. CASE c = d
      <3>1. k \in 1 .. Len(q) \/ k = Len(q) + 1
        BY <1>7, <1>8, <2>2
      <3> QED BY <1>7, <1>8, <2>2, <3>1 DEF q
    <2> QED BY <2>1, <2>2
  <1>12. \A c \in Buckets : \A k \in DOMAIN jobChannel[c] : jobChannel[c][k] # t
    BY <1>4 DEF Bucket!Range
  <1>13. Bucket!OnePlace'
    <2>1. \A c \in Buckets : \A k \in DOMAIN jobChannel'[c] :
             /\ jobChannel'[c][k] \in 1 .. t /\ bucket[jobChannel'[c][k]] = c
             /\ jobChannel'[c][k] \notin Bucket!Started(c)
      BY <1>2, <1>4, <1>a, <1>10, <1>11 DEF Bucket!OnePlace
    <2>2. \A c \in Buckets : \A k, m \in DOMAIN jobChannel'[c] :
             jobChannel'[c][k] = jobChannel'[c][m] => k = m
      BY <1>2, <1>11, <1>12 DEF Bucket!OnePlace
    <2> QED BY <1>1, <1>2, <1>3, <1>10, <2>1, <2>2 DEF Bucket!OnePlace
  <1>14. Bucket!InOrder'
    <2>1. \A j \in 1 .. t : j = t \/ j \in Bucket!Started(bucket[j]) \cup Range(jobChannel[bucket[j]])
      BY <1>2, <1>10, BucketRange DEF Bucket!InOrder
    <2>2. ASSUME NEW c \in Buckets, NEW k \in DOMAIN jobChannel'[c], NEW j \in 1 .. jobChannel'[c][k] - 1,
                 bucket[j] = c
          PROVE  j \in Bucket!Started(c) \/ \E m \in 1 .. k - 1 : jobChannel'[c][m] = j
      <3>1. CASE k \in DOMAIN jobChannel[c] /\ jobChannel'[c][k] = jobChannel[c][k]
        <4>1. j \in Bucket!Started(c) \/ \E m \in 1 .. k - 1 : jobChannel[c][m] = j
          BY <1>2, <2>2, <3>1 DEF Bucket!InOrder
        <4>2. \A m \in 1 .. k - 1 : m \in DOMAIN jobChannel[c]
          BY <1>2, <3>1, BucketTypes
        <4>3. \A m \in DOMAIN jobChannel[c] : jobChannel'[c][m] = jobChannel[c][m]
          BY <1>7, <1>8 DEF q
        <4> QED BY <4>1, <4>2, <4>3
      <3>2. CASE c = d /\ k = Len(q) + 1 /\ jobChannel'[c][k] = t
        <4>1. j \in 1 .. t /\ j # t
          BY <1>a, <2>2, <3>2
        <4>2. j \in Bucket!Started(c) \cup Range(q)
          BY <2>1, <2>2, <3>2, <4>1 DEF q
        <4>3. j \in Range(q) => \E m \in 1 .. Len(q) : Append(q, t)[m] = j
          BY <1>8 DEF Range
        <4>4. (Len(q) + 1) - 1 = Len(q)
          BY <1>8
        <4> QED BY <1>7, <3>2, <4>2, <4>3, <4>4
      <3> QED BY <1>11, <3>1, <3>2
    <2>3. \A c \in Buckets : Range(jobChannel[c]) \subseteq Range(jobChannel'[c])
      BY <1>7, <1>8 DEF q
    <2>4. \A j \in 1 .. t : bucket[j] \in Buckets
      <3>1. bucket \in Seq(Buckets) /\ Len(bucket) \in Nat
        BY <1>2, BucketTypes DEF Bucket!TypeOK
      <3>2. \A k \in 1 .. Len(bucket) : bucket[k] \in Buckets
        BY <3>1, ElementOfSeq
      <3> QED BY <1>4, <1>a, <3>1, <3>2
    <2>5. \A j \in 1 .. t : j \in Bucket!Started(bucket[j]) \cup Range(jobChannel'[bucket[j]])
      BY <1>7, <1>8, <1>a, <2>1, <2>3, <2>4
    <2> QED BY <1>1, <1>2, <1>10, <2>2, <2>5, BucketRange DEF Bucket!InOrder
  <1> QED BY <1>9, <1>13, <1>14 DEF Bucket!BucketInv

LEMMA BucketTakenIn ==
  ASSUME Bucket!TypeOK, Bucket!OnePlace
  PROVE  \A j \in 1 .. Bucket!Taken : bucket[j] \in Buckets
  <1>1. bucket \in Seq(Buckets) /\ Len(bucket) \in Nat /\ Bucket!Taken \in 0 .. Len(bucket)
    BY BucketTypes DEF Bucket!TypeOK, Bucket!OnePlace
  <1>2. \A k \in 1 .. Len(bucket) : bucket[k] \in Buckets
    BY <1>1, ElementOfSeq
  <1> QED BY <1>1, <1>2

LEMMA BucketReceiveInv ==
  ASSUME Bucket!BucketInv, NEW d \in Buckets, Bucket!Receive(d)
  PROVE  Bucket!BucketInv'
  <1> DEFINE q == jobChannel[d]
             h == Head(q)
  <1>1. /\ worker[d].pc = "select" /\ q # << >>
        /\ worker' = [worker EXCEPT ![d] = [pc |-> "exec", job |-> h]]
        /\ jobChannel' = [jobChannel EXCEPT ![d] = Tail(q)]
        /\ UNCHANGED <<bucket, jobQueue, dispatcher, callbackC, ran>>
    BY DEF Bucket!Receive
  <1>2. /\ Bucket!TypeOK /\ Bucket!OnePlace /\ Bucket!InOrder
        /\ jobChannel \in [Buckets -> Seq(Bucket!Jobs)] /\ q \in Seq(Bucket!Jobs)
        /\ worker \in [Buckets -> [pc : {"select", "exec", "send"}, job : Bucket!Jobs \cup {NoJob}]]
    BY DEF Bucket!BucketInv, Bucket!TypeOK
  <1>3. /\ jobChannel'[d] = Tail(q) /\ \A c \in Buckets : c # d => jobChannel'[c] = jobChannel[c]
        /\ worker'[d] = [pc |-> "exec", job |-> h] /\ \A c \in Buckets : c # d => worker'[c] = worker[c]
    BY <1>1, <1>2
  <1>4. /\ h \in Bucket!Jobs /\ Tail(q) \in Seq(Bucket!Jobs) /\ Len(q) \in Nat \ {0}
        /\ DOMAIN q = 1 .. Len(q) /\ DOMAIN Tail(q) = 1 .. Len(q) - 1
        /\ h = q[1] /\ \A k \in 1 .. Len(q) - 1 : Tail(q)[k] = q[k + 1]
        /\ Range(q) = Range(Tail(q)) \cup {h}
    BY <1>1, <1>2, TailIdx
  <1>5. d \notin Bucket!Busy /\ Bucket!Busy' = Bucket!Busy \cup {d} /\ Bucket!Busy \subseteq Buckets
    BY <1>1, <1>3 DEF Bucket!Busy
  <1> HIDE DEF h
  <1>6. Bucket!TypeOK'
    <2>1. /\ worker' \in [Buckets -> [pc : {"select", "exec", "send"}, job : Bucket!Jobs \cup {NoJob}]]
          /\ jobChannel' \in [Buckets -> Seq(Bucket!Jobs)]
      BY <1>1, <1>2, <1>4
    <2> QED BY <1>1, <1>2, <2>1 DEF Bucket!TypeOK
  <1>7. /\ Bucket!Through' = Bucket!Through /\ Bucket!Taken' = Bucket!Taken /\ Bucket!Handing' = Bucket!Handing
    BY <1>1 DEF Bucket!Through, Bucket!Taken, Bucket!Handing
  <1>8. /\ \A c \in Buckets : c # d => Bucket!Started(c)' = Bucket!Started(c)
        /\ Bucket!Started(d) = Bucket!Through /\ Bucket!Started(d)' = Bucket!Through \cup {h}
    BY <1>3, <1>5, <1>7 DEF Bucket!Started
  <1>9. /\ 1 \in DOMAIN q
        /\ \A k \in DOMAIN Tail(q) : k + 1 \in DOMAIN q /\ k + 1 # 1 /\ Tail(q)[k] = q[k + 1] /\ k \in Nat
        /\ \A k, m \in DOMAIN Tail(q) : k + 1 = m + 1 => k = m
    BY <1>4
  <1>10. /\ h \in 1 .. Bucket!Taken /\ bucket[h] = d /\ h \notin Bucket!Through
    BY <1>2, <1>4, <1>8, <1>9 DEF Bucket!OnePlace
  <1>11. \A k \in DOMAIN Tail(q) : /\ Tail(q)[k] \in 1 .. Bucket!Taken /\ bucket[Tail(q)[k]] = d
                                  /\ Tail(q)[k] # h /\ Tail(q)[k] \notin Bucket!Through
    BY <1>2, <1>4, <1>8, <1>9 DEF Bucket!OnePlace
  <1>12. \A k, m \in DOMAIN Tail(q) : Tail(q)[k] = Tail(q)[m] => k = m
    BY <1>2, <1>9 DEF Bucket!OnePlace
  <1> HIDE DEF q
  <1>13. Bucket!OnePlace'
    <2>1. \A c \in Bucket!Busy' : /\ worker'[c].job \in 1 .. Bucket!Taken /\ bucket[worker'[c].job] = c
                                  /\ worker'[c].job \notin Bucket!Through
      BY <1>2, <1>3, <1>5, <1>10 DEF Bucket!OnePlace
    <2>2. \A c \in Buckets : \A k \in DOMAIN jobChannel'[c] :
             /\ jobChannel'[c][k] \in 1 .. Bucket!Taken /\ bucket[jobChannel'[c][k]] = c
             /\ jobChannel'[c][k] \notin Bucket!Started(c)'
      <3>1. SUFFICES ASSUME NEW c \in Buckets, NEW k \in DOMAIN jobChannel'[c]
                     PROVE  /\ jobChannel'[c][k] \in 1 .. Bucket!Taken /\ bucket[jobChannel'[c][k]] = c
                            /\ jobChannel'[c][k] \notin Bucket!Started(c)'
        OBVIOUS
      <3>2. CASE c = d
        BY <1>3, <1>8, <1>11, <3>2
      <3>3. CASE c # d
        <4>1. jobChannel'[c] = jobChannel[c] /\ Bucket!Started(c)' = Bucket!Started(c)
          BY <1>3, <1>8, <3>3
        <4> QED BY <1>2, <4>1 DEF Bucket!OnePlace
      <3> QED BY <3>2, <3>3
    <2>3. \A c \in Buckets : \A k, m \in DOMAIN jobChannel'[c] :
             jobChannel'[c][k] = jobChannel'[c][m] => k = m
      <3>1. \A c \in Buckets : \A k, m \in DOMAIN jobChannel[c] : jobChannel[c][k] = jobChannel[c][m] => k = m
        BY <1>2 DEF Bucket!OnePlace
      <3>2. ASSUME NEW c \in Buckets, c # d PROVE jobChannel'[c] = jobChannel[c]
        BY <1>3, <3>2
      <3>3. jobChannel'[d] = Tail(q)
        BY <1>3
      <3> QED BY <1>12, <3>1, <3>2, <3>3
    <2>4. ASSUME Bucket!Handing, NEW c \in Buckets
          PROVE  Bucket!Taken \notin Bucket!Started(c)' \cup Range(jobChannel'[c])
      <3>1. Bucket!Taken \notin Bucket!Started(c) \cup Range(jobChannel[c])
        BY <1>2, <2>4, BucketRange DEF Bucket!OnePlace
      <3> QED BY <1>3, <1>4, <1>8, <3>1 DEF q
    <2> QED BY <1>1, <1>2, <1>7, <2>1, <2>2, <2>3, <2>4, BucketRange DEF Bucket!OnePlace
  <1>14. Bucket!InOrder'
    <2>1. \A j \in 1 .. h - 1 : bucket[j] = d => j \in Bucket!Through
      <3>1. \A m \in 1 .. 1 - 1 : FALSE
        OBVIOUS
      <3> QED BY <1>2, <1>4, <1>8, <1>9, <3>1 DEF Bucket!InOrder, q
    <2>2. \A c \in Bucket!Busy' : \A j \in 1 .. worker'[c].job - 1 : bucket[j] = c => j \in Bucket!Through
      BY <1>2, <1>3, <1>5, <2>1 DEF Bucket!InOrder
    <2>3. ASSUME NEW k \in DOMAIN Tail(q), NEW j \in 1 .. Tail(q)[k] - 1, bucket[j] = d
          PROVE  j \in Bucket!Through \cup {h} \/ \E m \in 1 .. k - 1 : Tail(q)[m] = j
      <3>1. k + 1 \in DOMAIN q /\ j \in 1 .. q[k + 1] - 1 /\ k \in Nat
        BY <1>9
      <3>2. j \in Bucket!Through \/ \E m \in 1 .. (k + 1) - 1 : q[m] = j
        BY <1>2, <1>8, <2>3, <3>1 DEF Bucket!InOrder, q
      <3>3. ASSUME NEW m \in 1 .. (k + 1) - 1, q[m] = j
            PROVE  j = h \/ \E n \in 1 .. k - 1 : Tail(q)[n] = j
        <4>1. CASE m = 1
          BY <1>4, <3>3, <4>1
        <4>2. CASE m # 1
          <5>1. m - 1 \in 1 .. k - 1 /\ (m - 1) + 1 = m /\ m - 1 \in 1 .. Len(q) - 1
            BY <1>4, <3>1, <4>2
          <5> QED BY <1>4, <3>3, <5>1
        <4> QED BY <4>1, <4>2
      <3> QED BY <3>2, <3>3
    <2>4. \A c \in Buckets : \A k \in DOMAIN jobChannel'[c] : \A j \in 1 .. jobChannel'[c][k] - 1 :
             bucket[j] = c => j \in Bucket!Started(c)' \/ \E m \in 1 .. k - 1 : jobChannel'[c][m] = j
      <3>1. SUFFICES ASSUME NEW c \in Buckets, NEW k \in DOMAIN jobChannel'[c],
                            NEW j \in 1 .. jobChannel'[c][k] - 1, bucket[j] = c
                     PROVE  j \in Bucket!Started(c)' \/ \E m \in 1 .. k - 1 : jobChannel'[c][m] = j
        OBVIOUS
      <3>2. CASE c = d
        <4>1. jobChannel'[c] = Tail(q) /\ Bucket!Started(c)' = Bucket!Through \cup {h} /\ bucket[j] = d
          BY <1>3, <1>8, <3>1, <3>2
        <4>2. k \in DOMAIN Tail(q) /\ j \in 1 .. Tail(q)[k] - 1
          BY <4>1
        <4> QED BY <2>3, <4>1, <4>2
      <3>3. CASE c # d
        <4>1. jobChannel'[c] = jobChannel[c] /\ Bucket!Started(c)' = Bucket!Started(c)
          BY <1>3, <1>8, <3>3
        <4>2. \A l \in DOMAIN jobChannel[c] : \A g \in 1 .. jobChannel[c][l] - 1 :
                 bucket[g] = c => g \in Bucket!Started(c) \/ \E m \in 1 .. l - 1 : jobChannel[c][m] = g
          BY <1>2 DEF Bucket!InOrder
        <4>3. k \in DOMAIN jobChannel[c] /\ j \in 1 .. jobChannel[c][k] - 1 /\ bucket[j] = c
          BY <3>1, <4>1
        <4>4. j \in Bucket!Started(c) \/ \E m \in 1 .. k - 1 : jobChannel[c][m] = j
          BY <4>2, <4>3
        <4> QED BY <4>1, <4>4
      <3> QED BY <3>2, <3>3
    <2>5. \A c \in Buckets : Bucket!Started(c) \cup Range(jobChannel[c]) = Bucket!Started(c)' \cup Range(jobChannel'[c])
      BY <1>3, <1>4, <1>8 DEF q
    <2>6. \A j \in 1 .. Bucket!Taken : bucket[j] \in Buckets
      BY <1>2, BucketTakenIn
    <2>7. \A j \in 1 .. Bucket!Taken : \/ Bucket!Handing /\ j = Bucket!Taken
                                      \/ j \in Bucket!Started(bucket[j])' \cup Range(jobChannel'[bucket[j]])
      <3>1. \A j \in 1 .. Bucket!Taken : \/ Bucket!Handing /\ j = Bucket!Taken
                                        \/ j \in Bucket!Started(bucket[j]) \cup Range(jobChannel[bucket[j]])
        BY <1>2, BucketRange DEF Bucket!InOrder
      <3> QED BY <1>1, <2>5, <2>6, <3>1
    <2>8. \A k \in DOMAIN callbackC : \A j \in 1 .. callbackC[k] - 1 : bucket[j] = bucket[callbackC[k]] =>
             j \in Bucket!Range(ran) \/ \E m \in 1 .. k - 1 : callbackC[m] = j
      BY <1>2 DEF Bucket!InOrder
    <2>9. \A c : Bucket!Range(c) = Range(c)
      BY BucketRange
    <2> QED BY <1>1, <1>7, <2>2, <2>4, <2>7, <2>8, <2>9 DEF Bucket!InOrder
  <1> QED BY <1>6, <1>13, <1>14 DEF Bucket!BucketInv

LEMMA BucketExecFuncInv ==
  ASSUME Bucket!BucketInv, NEW d \in Buckets, Bucket!ExecFunc(d)
  PROVE  Bucket!BucketInv'
  <1>1. /\ worker[d].pc = "exec" /\ worker' = [worker EXCEPT ![d].pc = "send"]
        /\ UNCHANGED <<bucket, jobQueue, dispatcher, jobChannel, callbackC, ran>>
    BY DEF Bucket!ExecFunc
  <1>2. /\ Bucket!TypeOK /\ Bucket!OnePlace /\ Bucket!InOrder
        /\ worker \in [Buckets -> [pc : {"select", "exec", "send"}, job : Bucket!Jobs \cup {NoJob}]]
    BY DEF Bucket!BucketInv, Bucket!TypeOK
  <1>3. /\ worker' \in [Buckets -> [pc : {"select", "exec", "send"}, job : Bucket!Jobs \cup {NoJob}]]
        /\ \A c \in Buckets : worker'[c].job = worker[c].job
        /\ \A c \in Buckets : c # d => worker'[c].pc = worker[c].pc
        /\ worker'[d].pc = "send"
    BY <1>1, <1>2
  <1>4. Bucket!TypeOK'
    BY <1>1, <1>2, <1>3 DEF Bucket!TypeOK
  <1>5. Bucket!Busy' = Bucket!Busy /\ Bucket!Busy \subseteq Buckets
    BY <1>1, <1>3 DEF Bucket!Busy
  <1>6. Bucket!Through' = Bucket!Through /\ Bucket!Taken' = Bucket!Taken /\ Bucket!Handing' = Bucket!Handing
    BY <1>1 DEF Bucket!Through, Bucket!Taken, Bucket!Handing
  <1>7. \A c \in Buckets : Bucket!Started(c)' = Bucket!Started(c)
    BY <1>3, <1>5, <1>6 DEF Bucket!Started
  <1>8. Bucket!OnePlace'
    BY <1>1, <1>2, <1>3, <1>5, <1>6, <1>7 DEF Bucket!OnePlace
  <1>9. \A j \in 1 .. Bucket!Taken : bucket[j] \in Buckets
    BY <1>2, BucketTakenIn
  <1>10. Bucket!InOrder'
    BY <1>1, <1>2, <1>3, <1>5, <1>6, <1>7, <1>9 DEF Bucket!InOrder
  <1> QED BY <1>4, <1>8, <1>10 DEF Bucket!BucketInv

LEMMA BucketSendInv ==
  ASSUME Bucket!BucketInv, NEW d \in Buckets, Bucket!SendCallback(d)
  PROVE  Bucket!BucketInv'
  <1> DEFINE x == worker[d].job
  <1>1. /\ worker[d].pc = "send" /\ callbackC' = Append(callbackC, x)
        /\ worker' = [worker EXCEPT ![d] = [pc |-> "select", job |-> NoJob]]
        /\ UNCHANGED <<bucket, jobQueue, dispatcher, jobChannel, ran>>
    BY DEF Bucket!SendCallback
  <1>2. /\ Bucket!TypeOK /\ Bucket!OnePlace /\ Bucket!InOrder /\ callbackC \in Seq(Bucket!Jobs)
        /\ worker \in [Buckets -> [pc : {"select", "exec", "send"}, job : Bucket!Jobs \cup {NoJob}]]
    BY DEF Bucket!BucketInv, Bucket!TypeOK
  <1>3. /\ worker' \in [Buckets -> [pc : {"select", "exec", "send"}, job : Bucket!Jobs \cup {NoJob}]]
        /\ \A c \in Buckets : c # d => worker'[c] = worker[c]
        /\ worker'[d].pc = "select"
    BY <1>1, <1>2
  <1>4. d \in Bucket!Busy /\ Bucket!Busy' = Bucket!Busy \ {d} /\ Bucket!Busy \subseteq Buckets
    BY <1>1, <1>3 DEF Bucket!Busy
  <1> HIDE DEF x
  <1>5. /\ x \in 1 .. Bucket!Taken /\ x \notin Bucket!Through /\ bucket[x] = d
        /\ \A c \in Bucket!Busy : c # d => worker[c].job # x
    BY <1>2, <1>4 DEF Bucket!OnePlace, x
  <1>6. x \in Bucket!Jobs
    BY <1>2, <1>5, BucketTypes, BucketConstants DEF Bucket!OnePlace, Bucket!Jobs
  <1>7. /\ callbackC' \in Seq(Bucket!Jobs) /\ Len(callbackC) \in Nat
        /\ DOMAIN callbackC = 1 .. Len(callbackC) /\ DOMAIN callbackC' = 1 .. Len(callbackC) + 1
        /\ \A k \in 1 .. Len(callbackC) : callbackC'[k] = callbackC[k]
        /\ callbackC'[Len(callbackC) + 1] = x
        /\ Range(callbackC') = Range(callbackC) \cup {x}
    BY <1>1, <1>2, <1>6, AppendIdx
  <1>8. Bucket!TypeOK'
    BY <1>1, <1>2, <1>3, <1>7 DEF Bucket!TypeOK
  <1>9. /\ Bucket!Taken' = Bucket!Taken /\ Bucket!Handing' = Bucket!Handing
        /\ Bucket!Through' = Bucket!Through \cup {x}
    BY <1>1, <1>7, BucketRange DEF Bucket!Taken, Bucket!Handing, Bucket!Through
  <1>10. \A k \in DOMAIN callbackC' : k \in DOMAIN callbackC \/ k = Len(callbackC) + 1
    BY <1>7
  <1>11. /\ \A k \in DOMAIN callbackC : callbackC[k] \in Bucket!Through
         /\ Range(ran) \subseteq Bucket!Through
    BY BucketRange DEF Bucket!Through, Range
  <1>12. /\ \A c \in Buckets : c # d => Bucket!Started(c)' = Bucket!Started(c) \cup {x}
         /\ Bucket!Started(d)' = Bucket!Started(d) /\ x \in Bucket!Started(d)
    BY <1>3, <1>4, <1>9 DEF Bucket!Started, x
  <1>13. \A c \in Buckets : \A k \in DOMAIN jobChannel[c] : jobChannel[c][k] \notin Bucket!Started(c)'
    <2>1. SUFFICES ASSUME NEW c \in Buckets, NEW k \in DOMAIN jobChannel[c]
                   PROVE  jobChannel[c][k] \notin Bucket!Started(c)'
      OBVIOUS
    <2>2. jobChannel[c][k] \notin Bucket!Started(c) /\ bucket[jobChannel[c][k]] = c
      BY <1>2 DEF Bucket!OnePlace
    <2>3. CASE c = d
      BY <1>12, <2>2, <2>3
    <2>4. CASE c # d
      BY <1>5, <1>12, <2>2, <2>4
    <2> QED BY <2>3, <2>4
  <1>14. Bucket!OnePlace'
    <2>1. \A c \in Bucket!Busy' : c \in Bucket!Busy /\ c # d /\ worker'[c] = worker[c]
      BY <1>3, <1>4
    <2>2. \A c \in Bucket!Busy' : /\ worker'[c].job \in 1 .. Bucket!Taken /\ bucket[worker'[c].job] = c
                                  /\ worker'[c].job \notin Bucket!Through \cup {x}
      BY <1>2, <1>5, <2>1 DEF Bucket!OnePlace
    <2>3. ASSUME Bucket!Handing
          PROVE  /\ dispatcher.job = Bucket!Taken /\ Bucket!Taken \in 1 .. Len(bucket)
                 /\ \A c \in Buckets : Bucket!Taken \notin Bucket!Started(c)' \cup Bucket!Range(jobChannel[c])
      <3>1. /\ dispatcher.job = Bucket!Taken /\ Bucket!Taken \in 1 .. Len(bucket)
            /\ \A c \in Buckets : Bucket!Taken \notin Bucket!Started(c) \cup Bucket!Range(jobChannel[c])
        BY <1>2, <2>3 DEF Bucket!OnePlace
      <3>2. Bucket!Taken # x
        BY <1>12, <3>1
      <3>3. ASSUME NEW c \in Buckets PROVE Bucket!Taken \notin Bucket!Started(c)'
        BY <1>12, <3>1, <3>2
      <3> QED BY <3>1, <3>3
    <2>5. \A k \in DOMAIN callbackC' : callbackC'[k] \notin Bucket!Range(ran')
      BY <1>1, <1>2, <1>5, <1>7, <1>10, <1>11, BucketRange DEF Bucket!OnePlace
    <2>6. \A k, m \in DOMAIN callbackC' : callbackC'[k] = callbackC'[m] => k = m
      BY <1>2, <1>5, <1>7, <1>10, <1>11 DEF Bucket!OnePlace
    <2>7. Bucket!Through \cup {x} \subseteq 1 .. Bucket!Taken
      BY <1>2, <1>5 DEF Bucket!OnePlace
    <2> QED BY <1>1, <1>2, <1>9, <1>13, <2>2, <2>3, <2>5, <2>6, <2>7 DEF Bucket!OnePlace
  <1>15. Bucket!InOrder'
    <2>1. \A j \in 1 .. x - 1 : bucket[j] = d => j \in Bucket!Through
      BY <1>2, <1>4 DEF Bucket!InOrder, x
    <2>2. \A j \in Bucket!Through : j \in Range(ran) \/ \E m \in 1 .. Len(callbackC) : callbackC[m] = j
      BY <1>7, BucketRange DEF Bucket!Through, Range
    <2>3. \A j \in 1 .. x - 1 : bucket[j] = d =>
             j \in Range(ran) \/ \E m \in 1 .. (Len(callbackC) + 1) - 1 : callbackC'[m] = j
      <3>1. (Len(callbackC) + 1) - 1 = Len(callbackC)
        BY <1>7
      <3> QED BY <1>7, <2>1, <2>2, <3>1
    <2>4. ASSUME NEW k \in 1 .. Len(callbackC), NEW j \in 1 .. callbackC'[k] - 1,
                 bucket[j] = bucket[callbackC'[k]]
          PROVE  j \in Range(ran) \/ \E m \in 1 .. k - 1 : callbackC'[m] = j
      <3>1. j \in 1 .. callbackC[k] - 1 /\ k \in DOMAIN callbackC /\ bucket[j] = bucket[callbackC[k]]
        BY <1>7, <2>4
      <3>2. j \in Range(ran) \/ \E m \in 1 .. k - 1 : callbackC[m] = j
        BY <1>2, <3>1, BucketRange DEF Bucket!InOrder
      <3>3. \A m \in 1 .. k - 1 : m \in 1 .. Len(callbackC)
        BY <1>7
      <3> QED BY <1>7, <3>2, <3>3
    <2>5. \A k \in DOMAIN callbackC' : \A j \in 1 .. callbackC'[k] - 1 : bucket[j] = bucket[callbackC'[k]] =>
             j \in Bucket!Range(ran') \/ \E m \in 1 .. k - 1 : callbackC'[m] = j
      <3>1. SUFFICES ASSUME NEW k \in DOMAIN callbackC', NEW j \in 1 .. callbackC'[k] - 1,
                            bucket[j] = bucket[callbackC'[k]]
                     PROVE  j \in Range(ran) \/ \E m \in 1 .. k - 1 : callbackC'[m] = j
        BY <1>1, BucketRange
      <3>2. CASE k \in 1 .. Len(callbackC)
        BY <2>4, <3>1, <3>2
      <3>3. CASE k = Len(callbackC) + 1
        <4>1. callbackC'[k] = x /\ bucket[j] = d
          BY <1>5, <1>7, <3>1, <3>3
        <4>2. j \in 1 .. x - 1
          BY <4>1
        <4> QED BY <2>3, <3>3, <4>1, <4>2
      <3> QED BY <1>7, <1>10, <3>2, <3>3
    <2>6. \A c \in Bucket!Busy' : \A j \in 1 .. worker'[c].job - 1 : bucket[j] = c => j \in Bucket!Through \cup {x}
      BY <1>2, <1>3, <1>4 DEF Bucket!InOrder
    <2>7. \A c \in Buckets : Bucket!Started(c) \subseteq Bucket!Started(c)'
      BY <1>12
    <2>8. \A c \in Buckets : \A k \in DOMAIN jobChannel[c] : \A j \in 1 .. jobChannel[c][k] - 1 :
             bucket[j] = c => j \in Bucket!Started(c)' \/ \E m \in 1 .. k - 1 : jobChannel[c][m] = j
      BY <1>2, <2>7 DEF Bucket!InOrder
    <2>9. \A j \in 1 .. Bucket!Taken : bucket[j] \in Buckets
      BY <1>2, BucketTakenIn
    <2>10. \A j \in 1 .. Bucket!Taken : \/ Bucket!Handing /\ j = Bucket!Taken
                                       \/ j \in Bucket!Started(bucket[j])' \cup Bucket!Range(jobChannel[bucket[j]])
      <3>1. \A j \in 1 .. Bucket!Taken : \/ Bucket!Handing /\ j = Bucket!Taken
                                        \/ j \in Bucket!Started(bucket[j]) \cup Bucket!Range(jobChannel[bucket[j]])
        BY <1>2 DEF Bucket!InOrder
      <3> QED BY <1>1, <2>7, <2>9, <3>1
    <2>11. \A k \in DOMAIN callbackC' : \A j \in 1 .. callbackC'[k] - 1 : bucket'[j] = bucket'[callbackC'[k]] =>
             j \in Bucket!Range(ran') \/ \E m \in 1 .. k - 1 : callbackC'[m] = j
      BY <1>1, <2>5
    <2>12. \A c \in Bucket!Busy' : \A j \in 1 .. worker'[c].job - 1 : bucket'[j] = c => j \in Bucket!Through'
      BY <1>1, <1>9, <2>6
    <2>13. \A c \in Buckets : \A k \in DOMAIN jobChannel'[c] : \A j \in 1 .. jobChannel'[c][k] - 1 :
             bucket'[j] = c => j \in Bucket!Started(c)' \/ \E m \in 1 .. k - 1 : jobChannel'[c][m] = j
      BY <1>1, <2>8
    <2>14. \A j \in 1 .. Bucket!Taken' :
             \/ Bucket!Handing' /\ j = Bucket!Taken'
             \/ j \in (Bucket!Started(bucket[j]) \cup Bucket!Range(jobChannel[bucket[j]]))'
      BY <1>1, <1>9, <2>10
    <2> QED BY <2>11, <2>12, <2>13, <2>14 DEF Bucket!InOrder
  <1> QED BY <1>8, <1>14, <1>15 DEF Bucket!BucketInv

LEMMA BucketRunInv ==
  ASSUME Bucket!BucketInv, Bucket!RunCallback
  PROVE  Bucket!BucketInv'
  <1>1. /\ callbackC # << >> /\ ran' = Append(ran, Head(callbackC)) /\ callbackC' = Tail(callbackC)
        /\ MayExecBucket /\ UNCHANGED <<jobChannel, worker>>
    BY DEF Bucket!RunCallback, MayExecBucket
  <1>2. /\ Bucket!TypeOK /\ Bucket!OnePlace /\ Bucket!InOrder
        /\ callbackC \in Seq(Bucket!Jobs) /\ ran \in Seq(Bucket!Jobs)
    BY DEF Bucket!TypeOK, Bucket!BucketInv
  <1>3. /\ Head(callbackC) \in Bucket!Jobs /\ callbackC' \in Seq(Bucket!Jobs) /\ Len(callbackC) \in Nat \ {0}
        /\ DOMAIN callbackC = 1 .. Len(callbackC) /\ DOMAIN callbackC' = 1 .. Len(callbackC) - 1
        /\ Head(callbackC) = callbackC[1]
        /\ \A k \in 1 .. Len(callbackC) - 1 : callbackC'[k] = callbackC[k + 1]
        /\ Range(callbackC) = Range(callbackC') \cup {Head(callbackC)}
    BY <1>1, <1>2, TailIdx
  <1>4. /\ ran' \in Seq(Bucket!Jobs) /\ Range(ran') = Range(ran) \cup {Head(callbackC)}
    BY <1>1, <1>2, <1>3, AppendIdx
  <1>5. Bucket!Busy' = Bucket!Busy
    BY <1>1 DEF Bucket!Busy
  <1>6. Bucket!Through' = Bucket!Through
    BY <1>3, <1>4, BucketRange DEF Bucket!Through
  <1>7. \A c : Bucket!Started(c)' = Bucket!Started(c)
    BY <1>1, <1>5, <1>6 DEF Bucket!Started
  <1>8. Bucket!TypeOK'
    BY <1>1, <1>2, <1>3, <1>4, BucketExec DEF Bucket!TypeOK
  <1>9. /\ 1 \in DOMAIN callbackC
        /\ \A k \in DOMAIN callbackC' : k + 1 \in DOMAIN callbackC /\ k + 1 # 1 /\ callbackC'[k] = callbackC[k + 1]
        /\ \A k, m \in DOMAIN callbackC' : k + 1 = m + 1 => k = m
    BY <1>3
  <1>10. \A k \in DOMAIN callbackC' : callbackC'[k] \notin Bucket!Range(ran')
    BY <1>2, <1>3, <1>4, <1>9, BucketRange DEF Bucket!OnePlace
  <1>11. \A k, m \in DOMAIN callbackC' : callbackC'[k] = callbackC'[m] => k = m
    BY <1>2, <1>9 DEF Bucket!OnePlace
  <1>12. Bucket!OnePlace'
    BY <1>1, <1>2, <1>5, <1>6, <1>7, <1>10, <1>11, BucketExec, BucketExecPlace DEF Bucket!OnePlace
  <1>13. Bucket!InOrder'
    <2>1. ASSUME NEW k \in DOMAIN callbackC', NEW j \in 1 .. callbackC'[k] - 1,
                 bucket'[j] = bucket'[callbackC'[k]]
          PROVE  j \in Range(ran') \/ \E m \in 1 .. k - 1 : callbackC'[m] = j
      <3>1. k + 1 \in DOMAIN callbackC /\ j \in 1 .. callbackC[k + 1] - 1 /\ k \in Nat
            /\ bucket'[j] = bucket'[callbackC[k + 1]]
        BY <1>3, <1>9, <2>1
      <3>2. bucket[j] = bucket[callbackC[k + 1]]
        BY <1>1, <1>2, <3>1, BucketExecOrder
      <3>3. j \in Range(ran) \/ \E m \in 1 .. (k + 1) - 1 : callbackC[m] = j
        BY <1>2, <3>1, <3>2, BucketRange DEF Bucket!InOrder
      <3>4. ASSUME NEW m \in 1 .. (k + 1) - 1, callbackC[m] = j
            PROVE  j \in Range(ran') \/ \E h \in 1 .. k - 1 : callbackC'[h] = j
        <4>1. CASE m = 1
          BY <1>3, <1>4, <3>4, <4>1
        <4>2. CASE m # 1
          <5>1. m - 1 \in 1 .. k - 1 /\ (m - 1) + 1 = m /\ m - 1 \in 1 .. Len(callbackC) - 1
            BY <1>3, <3>1, <4>2
          <5> QED BY <1>3, <3>4, <5>1
        <4> QED BY <4>1, <4>2
      <3> QED BY <1>4, <3>3, <3>4
    <2>2. \A k \in DOMAIN callbackC' : \A j \in 1 .. callbackC'[k] - 1 : bucket'[j] = bucket'[callbackC'[k]] =>
             j \in Bucket!Range(ran') \/ \E m \in 1 .. k - 1 : callbackC'[m] = j
      BY <2>1, BucketRange
    <2>3. /\ \A c \in Bucket!Busy : \A j \in 1 .. worker[c].job - 1 : bucket'[j] = c => j \in Bucket!Through
          /\ \A c \in Buckets : \A k \in DOMAIN jobChannel[c] : \A j \in 1 .. jobChannel[c][k] - 1 :
                bucket'[j] = c => j \in Bucket!Started(c) \/ \E m \in 1 .. k - 1 : jobChannel[c][m] = j
          /\ \A j \in 1 .. Bucket!Taken :
                \/ Bucket!Handing /\ j = Bucket!Taken
                \/ j \in Bucket!Started(bucket'[j]) \cup Bucket!Range(jobChannel[bucket'[j]])
      BY <1>1, <1>2, BucketExecOrder
    <2>4. Bucket!Taken' = Bucket!Taken /\ Bucket!Handing' = Bucket!Handing
      BY <1>1, <1>2, BucketExec
    <2>5. \A c \in Bucket!Busy' : \A j \in 1 .. worker'[c].job - 1 : bucket'[j] = c => j \in Bucket!Through'
      BY <1>1, <1>5, <1>6, <2>3
    <2>6. \A c \in Buckets : \A k \in DOMAIN jobChannel'[c] : \A j \in 1 .. jobChannel'[c][k] - 1 :
             bucket'[j] = c => j \in Bucket!Started(c)' \/ \E m \in 1 .. k - 1 : jobChannel'[c][m] = j
      <3>1. jobChannel' = jobChannel
        BY <1>1
      <3>2. \A c \in Buckets : \A k \in DOMAIN jobChannel[c] : \A j \in 1 .. jobChannel[c][k] - 1 :
               bucket'[j] = c => j \in Bucket!Started(c)' \/ \E m \in 1 .. k - 1 : jobChannel[c][m] = j
        BY <1>7, <2>3
      <3> QED BY <3>1, <3>2
    <2>7. \A j \in 1 .. Bucket!Taken' :
             \/ Bucket!Handing' /\ j = Bucket!Taken'
             \/ j \in (Bucket!Started(bucket[j]) \cup Bucket!Range(jobChannel[bucket[j]]))'
      BY <1>1, <1>5, <1>6, <2>3, <2>4 DEF Bucket!Started
    <2> QED BY <2>2, <2>5, <2>6, <2>7 DEF Bucket!InOrder
  <1> QED BY <1>8, <1>12, <1>13 DEF Bucket!BucketInv

LEMMA BucketNext ==
  ASSUME Bucket!BucketInv, Bucket!Next
  PROVE  Bucket!BucketInv'
  BY BucketExecInv, BucketWaitInv, BucketTakeInv, BucketHandOverInv, BucketReceiveInv,
     BucketExecFuncInv, BucketSendInv, BucketRunInv DEF Bucket!Next, Bucket!dispatch, Bucket!start

LEMMA BucketStep ==
  ASSUME Bucket!BucketInv, Bucket!Next, part = "bucket", part' = part
  PROVE  [Abstract!Next]_(Abstract!vars)
  <1>1. JobClass = bucket /\ JobClass' = bucket'
    BY DEF JobClass
  <1>2. Bucket!TypeOK /\ Bucket!OnePlace /\ Bucket!InOrder
    BY DEF Bucket!BucketInv
  <1>3. CASE UNCHANGED <<bucket, ran>>
    BY <1>1, <1>3 DEF Abstract!vars
  <1>4. CASE Bucket!Exec
    <2>1. MayExecBucket /\ ran' = ran
      BY <1>4 DEF Bucket!Exec, MayExecBucket
    <2>2. bucket' = bucket \/ \E c \in Buckets : bucket' = Append(bucket, c)
      BY <1>2, <2>1, BucketExec
    <2> QED BY <1>1, <2>1, <2>2 DEF Abstract!vars, Abstract!Next, Abstract!Submit
  <1>5. CASE Bucket!RunCallback
    <2> DEFINE x == Head(callbackC)
    <2>1. callbackC # << >> /\ ran' = Append(ran, x) /\ MayExecBucket /\ callbackC \in Seq(Bucket!Jobs)
      BY <1>2, <1>5 DEF Bucket!RunCallback, MayExecBucket, Bucket!TypeOK
    <2>2. 1 \in DOMAIN callbackC /\ x = callbackC[1]
      BY <2>1, TailIdx
    <2> HIDE DEF x
    <2>3. x \notin Range(ran) /\ x \in Bucket!Through
      BY <1>2, <2>2, BucketRange DEF Bucket!OnePlace, Bucket!Through, Range
    <2>4. x \in DOMAIN bucket
      BY <1>2, <2>3, BucketTypes DEF Bucket!OnePlace
    <2>5. \A j \in 1 .. x - 1 : bucket[j] = bucket[x] => j \in Range(ran)
      <3>1. \A m \in 1 .. 1 - 1 : FALSE
        OBVIOUS
      <3> QED BY <1>2, <2>2, <3>1, BucketRange DEF Bucket!InOrder
    <2>6. Abstract!Due(x)
      BY <1>1, <2>3, <2>5 DEF Abstract!Due, Abstract!Range, Range
    <2>7. Abstract!Submit \/ JobClass' = JobClass
      <3>1. bucket' = bucket \/ \E c \in Buckets : bucket' = Append(bucket, c)
        BY <1>2, <2>1, BucketExec
      <3> QED BY <1>1, <3>1 DEF Abstract!Submit
    <2> QED BY <1>1, <2>1, <2>4, <2>6, <2>7 DEF Abstract!Next, Abstract!Run
  <1>6. \/ Bucket!Exec \/ Bucket!RunCallback \/ UNCHANGED <<bucket, ran>>
    BY DEF Bucket!Next, Bucket!dispatch, Bucket!WaitForJob, Bucket!TakeJob, Bucket!HandOver,
           Bucket!start, Bucket!Receive, Bucket!ExecFunc, Bucket!SendCallback
  <1> QED BY <1>3, <1>4, <1>5, <1>6

-----------------------------------------------------------------------------
(* The refinement of AsyncJobs *)

\* The invariant of the pool that runs.
PoolsInv ==
    /\ part \in {"pool", "bucket", "buf", "net", "rounds"}
    /\ part = "pool" => Pool!PoolInv
    /\ part = "bucket" => Bucket!BucketInv

LEMMA PoolsInit ==
  ASSUME Init
  PROVE  PoolsInv /\ Abstract!Init
  <1>1. part \in {"pool", "bucket", "buf", "net", "rounds"} /\ ran = << >>
    BY DEF Init, Pool!Init, Bucket!Init
  <1>2. PoolsInv
    BY <1>1, PoolInit, BucketInit DEF Init, PoolsInv
  <1>3. CASE part = "pool"
    <2>1. submitted = 0
      BY <1>3 DEF Init, Pool!Init
    <2>2. Pool!Class = << >>
      BY <2>1 DEF Pool!Class
    <2> QED BY <1>1, <1>2, <1>3, <2>2 DEF JobClass, Abstract!Init
  <1>4. CASE part = "bucket"
    BY <1>1, <1>2, <1>4 DEF Init, Bucket!Init, JobClass, Abstract!Init
  <1>5. CASE part \notin {"pool", "bucket"}
    BY <1>1, <1>2, <1>5 DEF JobClass, Abstract!Init
  <1> QED BY <1>3, <1>4, <1>5

LEMMA PoolsNext ==
  ASSUME PoolsInv, [Next]_vars
  PROVE  PoolsInv' /\ [Abstract!Next]_(Abstract!vars)
  <1>1. CASE part = "pool" /\ Pool!Next /\ part' = part
    BY <1>1, PoolNext, PoolStep DEF PoolsInv
  <1>2. CASE part = "bucket" /\ Bucket!Next /\ part' = part
    BY <1>2, BucketNext, BucketStep DEF PoolsInv
  <1>3. CASE part \notin {"pool", "bucket"} /\ UNCHANGED <<part, ran>>
    <2>1. JobClass = << >> /\ JobClass' = << >>
      BY <1>3 DEF JobClass
    <2>2. UNCHANGED Abstract!vars
      BY <1>3, <2>1 DEF Abstract!vars
    <2> QED BY <1>3, <2>2 DEF PoolsInv
  <1>4. CASE UNCHANGED vars
    <2>1. UNCHANGED <<part, poolVars>>
      BY <1>4 DEF vars
    <2>2. PoolsInv'
      <3>1. UNCHANGED <<part, submitted, bucket, jobQueue, dispatcher, workerPool, jobChannel,
                        worker, callbackC, ran>>
        BY <2>1 DEF poolVars
      <3>2. part = "pool" => Pool!PoolInv'
        <4> SUFFICES ASSUME Pool!PoolInv PROVE Pool!PoolInv'
          BY DEF PoolsInv
        <4>1. Pool!TypeOK' /\ Pool!Busy' = Pool!Busy
          BY <3>1 DEF Pool!PoolInv, Pool!TypeOK, Pool!Busy
        <4> QED BY <3>1, <4>1, PoolSame
      <3>3. part = "bucket" => Bucket!BucketInv'
        <4> SUFFICES ASSUME Bucket!BucketInv PROVE Bucket!BucketInv'
          BY DEF PoolsInv
        <4>1. Bucket!TypeOK'
          BY <3>1 DEF Bucket!BucketInv, Bucket!TypeOK
        <4>2. /\ Bucket!Busy' = Bucket!Busy /\ Bucket!Through' = Bucket!Through /\ Bucket!Taken' = Bucket!Taken
              /\ Bucket!Handing' = Bucket!Handing /\ \A c : Bucket!Started(c)' = Bucket!Started(c)
          BY <3>1 DEF Bucket!Busy, Bucket!Through, Bucket!Taken, Bucket!Handing, Bucket!Started
        <4>3. Bucket!OnePlace'
          BY <3>1, <4>2 DEF Bucket!BucketInv, Bucket!OnePlace
        <4>4. Bucket!InOrder'
          BY <3>1, <4>2 DEF Bucket!BucketInv, Bucket!InOrder
        <4> QED BY <4>1, <4>3, <4>4 DEF Bucket!BucketInv
      <3> QED BY <3>1, <3>2, <3>3 DEF PoolsInv
    <2>3. UNCHANGED Abstract!vars
      BY <2>1 DEF Abstract!vars, JobClass, Pool!Class, poolVars
    <2> QED BY <2>2, <2>3
  <1>5. \/ part = "pool" /\ Pool!Next /\ part' = part
        \/ part = "bucket" /\ Bucket!Next /\ part' = part
        \/ part \notin {"pool", "bucket"} /\ UNCHANGED <<part, ran>>
        \/ UNCHANGED vars
    BY DEF Next, InPool, InBucket, InBuf, InNet, InRounds, poolVars
  <1> QED BY <1>1, <1>2, <1>3, <1>4, <1>5

\* Both worker pools run every callback at most once, and in the order of the
\* calls of Exec where the protocols count on it (a pool of one worker; the
\* jobs of a bucket): for any number of workers and buckets, any capacity of
\* the channels, and with callbacks that call Exec themselves.
THEOREM PoolsImplementAsyncJobs == Spec => ImplementsAsyncJobs
  <1>1. Init => PoolsInv /\ Abstract!Init
    BY PoolsInit
  <1>2. PoolsInv /\ [Next]_vars => PoolsInv' /\ [Abstract!Next]_(Abstract!vars)
    BY PoolsNext
  <1> QED BY <1>1, <1>2, PTL DEF Spec, ImplementsAsyncJobs, Abstract!Spec

-----------------------------------------------------------------------------
(* The round executor of RCC *)

LEMMA RoundsFlatten == \A s : Rounds!FlattenSeq(s) = FlattenSeq(s)
  BY Zenon DEF Rounds!FlattenSeq, FlattenSeq

\* What Marked concatenates.
Split(s, x) == [k \in DOMAIN s |-> IF s[k].noExec = x THEN <<s[k]>> ELSE << >>]

LEMMA MarkedIs == \A s, x : Rounds!Marked(s, x) = FlattenSeq(Split(s, x))
  BY RoundsFlatten DEF Rounds!Marked, Split

LEMMA SplitType ==
  ASSUME NEW S, NEW s \in Seq(S), NEW x
  PROVE  /\ Split(s, x) \in Seq(Seq({p \in S : p.noExec = x})) /\ Len(Split(s, x)) = Len(s)
         /\ DOMAIN s = 1 .. Len(s) /\ Len(s) \in Nat
  <1> DEFINE P == {p \in S : p.noExec = x}
  <1>1. Len(s) \in Nat /\ DOMAIN s = 1 .. Len(s) /\ \A k \in 1 .. Len(s) : s[k] \in S
    BY LenProperties, ElementOfSeq
  <1>2. ASSUME NEW k \in 1 .. Len(s)
        PROVE  (IF s[k].noExec = x THEN <<s[k]>> ELSE << >>) \in Seq(P)
    <2>1. CASE s[k].noExec = x
      <3>1. s[k] \in P
        BY <1>1, <2>1
      <3> HIDE DEF P
      <3>2. <<s[k]>> \in Seq(P)
        BY <3>1
      <3> QED BY <2>1, <3>2
    <2>2. CASE s[k].noExec # x
      <3> HIDE DEF P
      <3> QED BY <2>2, EmptySeq
    <2> QED BY <2>1, <2>2
  <1>3. Split(s, x) \in [1 .. Len(s) -> Seq(P)]
    <2> HIDE DEF P
    <2> QED BY <1>1, <1>2 DEF Split
  <1> HIDE DEF P
  <1>4. Split(s, x) \in Seq(Seq(P)) /\ Len(Split(s, x)) = Len(s)
    BY <1>1, <1>3, FunctionIsSequence
  <1> QED BY <1>1, <1>4 DEF P

\* Marked returns packets of s with the mark it is asked for.
LEMMA MarkedType ==
  ASSUME NEW S, NEW s \in Seq(S), NEW x
  PROVE  /\ Rounds!Marked(s, x) \in Seq({p \in S : p.noExec = x})
         /\ Rounds!Marked(s, x) \in Seq(S)
  <1> DEFINE P == {p \in S : p.noExec = x}
  <1>1. Split(s, x) \in Seq(Seq(P)) /\ P \subseteq S
    BY SplitType
  <1> HIDE DEF P
  <1>2. FlattenSeq(Split(s, x)) \in Seq(P)
    BY <1>1, FlattenType
  <1>3. FlattenSeq(Split(s, x)) \in Seq(S)
    BY <1>1, <1>2
  <1> QED BY <1>2, <1>3, MarkedIs DEF P

LEMMA MarkedEmpty ==
  ASSUME NEW x
  PROVE  Rounds!Marked(<< >>, x) = << >>
  <1>1. << >> \in Seq({})
    BY EmptySeq
  <1>2. Rounds!Marked(<< >>, x) \in Seq({})
    BY <1>1, MarkedType
  <1> QED BY <1>2

LEMMA MarkedAppend ==
  ASSUME NEW S, NEW s \in Seq(S), NEW p \in S, NEW x
  PROVE  Rounds!Marked(Append(s, p), x) =
            IF p.noExec = x THEN Append(Rounds!Marked(s, x), p) ELSE Rounds!Marked(s, x)
  <1> DEFINE P == {q \in S : q.noExec = x}
             last == IF p.noExec = x THEN <<p>> ELSE << >>
             t == Append(s, p)
  <1>1. /\ t \in Seq(S) /\ Len(t) = Len(s) + 1 /\ Len(s) \in Nat
        /\ DOMAIN s = 1 .. Len(s) /\ DOMAIN t = 1 .. Len(s) + 1
        /\ t[Len(s) + 1] = p /\ \A k \in 1 .. Len(s) : t[k] = s[k]
    BY AppendIdx
  <1> HIDE DEF t
  <1>2. /\ Split(s, x) \in Seq(Seq(P)) /\ Len(Split(s, x)) = Len(s)
        /\ Split(t, x) \in Seq(Seq(P)) /\ Len(Split(t, x)) = Len(s) + 1
    BY <1>1, SplitType
  <1>3. last \in Seq(P)
    <2>1. CASE p.noExec = x
      <3>1. p \in P
        BY <2>1
      <3> HIDE DEF P
      <3> QED BY <2>1, <3>1
    <2>2. CASE p.noExec # x
      <3> HIDE DEF P
      <3> QED BY <2>2, EmptySeq
    <2> QED BY <2>1, <2>2
  <1> HIDE DEF P
  <1>4. /\ \A k \in 1 .. Len(s) : Split(t, x)[k] = Split(s, x)[k]
        /\ Split(t, x)[Len(s) + 1] = last
    <2>1. \A k \in 1 .. Len(s) : k \in 1 .. Len(s) + 1
      BY <1>1
    <2>2. Len(s) + 1 \in 1 .. Len(s) + 1
      BY <1>1
    <2> QED BY <1>1, <2>1, <2>2 DEF Split
  <1> HIDE DEF last
  <1>5. Split(t, x) = Append(Split(s, x), last)
    <2> DEFINE u == Append(Split(s, x), last)
    <2>1. /\ u \in Seq(Seq(P)) /\ Len(u) = Len(s) + 1 /\ u[Len(s) + 1] = last
          /\ \A k \in 1 .. Len(s) : u[k] = Split(s, x)[k]
      BY <1>2, <1>3, AppendIdx
    <2> HIDE DEF u
    <2>2. \A k \in 1 .. Len(s) + 1 : k \in 1 .. Len(s) \/ k = Len(s) + 1
      BY <1>1
    <2>3. \A k \in 1 .. Len(s) + 1 : Split(t, x)[k] = u[k]
      BY <1>4, <2>1, <2>2
    <2>4. Split(t, x) = u
      BY <1>2, <2>1, <2>3, SeqEqual
    <2> QED BY <2>4 DEF u
  <1>6. FlattenSeq(Append(Split(s, x), last)) = FlattenSeq(Split(s, x)) \o last
    BY <1>2, <1>3, FlattenAppend
  <1>7. Rounds!Marked(t, x) = Rounds!Marked(s, x) \o last
    BY <1>5, <1>6, MarkedIs
  <1>8. Rounds!Marked(s, x) \in Seq(S)
    BY MarkedType
  <1>9. CASE p.noExec = x
    <2>1. Append(Rounds!Marked(s, x), p) = Rounds!Marked(s, x) \o <<p>>
      BY <1>8, AppendIsConcat
    <2> QED BY <1>7, <1>9, <2>1 DEF last, t
  <1>10. CASE p.noExec # x
    <2>1. Rounds!Marked(s, x) \o << >> = Rounds!Marked(s, x)
      BY <1>8, ConcatEmptySeq
    <2> QED BY <1>7, <1>10, <2>1 DEF last, t
  <1> QED BY <1>9, <1>10

LEMMA ConcatAppend ==
  ASSUME NEW S, NEW s \in Seq(S), NEW u \in Seq(S), NEW p \in S
  PROVE  s \o Append(u, p) = Append(s \o u, p) /\ s \o u \in Seq(S)
  <1>1. <<p>> \in Seq(S)
    OBVIOUS
  <1>2. Append(u, p) = u \o <<p>>
    BY AppendIsConcat
  <1>3. s \o u \in Seq(S) /\ (s \o u) \o <<p>> = s \o (u \o <<p>>)
    BY <1>1, ConcatSame
  <1>4. Append(s \o u, p) = (s \o u) \o <<p>>
    BY <1>3, AppendIsConcat
  <1> QED BY <1>2, <1>3, <1>4

\* All packets of t have the mark that is asked for, or none has.
LEMMA MarkedRun ==
  ASSUME NEW S, NEW s \in Seq(S), NEW t \in Seq(S), NEW x, NEW y \in BOOLEAN,
         \A k \in 1 .. Len(t) : (t[k].noExec = x) <=> y
  PROVE  Rounds!Marked(s \o t, x) = IF y THEN Rounds!Marked(s, x) \o t ELSE Rounds!Marked(s, x)
  <1> DEFINE U(n) == SubSeq(t, 1, n)
             m == Rounds!Marked(s, x)
             Good(n) == Rounds!Marked(s \o U(n), x) = IF y THEN m \o U(n) ELSE m
             Bad == {n \in 0 .. Len(t) : ~Good(n)}
  <1>1. Len(t) \in Nat /\ \A k \in 1 .. Len(t) : t[k] \in S
    BY LenProperties, ElementOfSeq
  <1>2. m \in Seq(S)
    BY MarkedType
  <1>3. U(Len(t)) = t
    BY SubSeqFull
  <1>4. SUFFICES ASSUME Bad # {} PROVE FALSE
    <2>1. Len(t) \in 0 .. Len(t)
      BY <1>1
    <2>2. ~(Bad # {}) => Good(Len(t))
      BY <2>1
    <2> QED BY <1>3, <2>2
  <1>5. PICK n \in Bad : \A h \in Bad : n <= h
    <2>1. Bad \in SUBSET Nat
      BY <1>1
    <2> HIDE DEF Bad
    <2> QED BY <1>4, <2>1, LeastNumber
  <1>6. n \in 0 .. Len(t) /\ n \in Nat /\ ~Good(n)
    BY <1>1
  <1>7. CASE n = 0
    <2>1. U(n) = << >>
      BY <1>7, SubSeqEmpty
    <2>2. s \o << >> = s /\ m \o << >> = m
      BY <1>2, ConcatEmptySeq
    <2> QED BY <1>6, <2>1, <2>2
  <1>8. CASE n # 0
    <2> DEFINE h == n - 1
               u == U(h)
               p == t[n]
    <2>1. h \in 0 .. Len(t) /\ ~(n <= h) /\ n \in 1 .. Len(t) /\ h \in Int /\ 1 \in 1 .. Len(t)
          /\ \A k \in 1 .. h : k \in 1 .. Len(t)
      BY <1>1, <1>6, <1>8
    <2>2. Good(h)
      <3>1. h \notin Bad
        <4> HIDE DEF Bad, h
        <4> QED BY <1>5, <2>1
      <3> HIDE DEF h, Good
      <3> QED BY <2>1, <3>1
    <2>3. u \in Seq(S) /\ p \in S
      <3>1. \A k \in 1 .. h : t[k] \in S
        BY <1>1, <2>1
      <3> HIDE DEF h
      <3>2. u \in Seq(S)
        BY <2>1, <3>1, SubSeqProperties
      <3> QED BY <1>1, <2>1, <3>2
    <2>4. U(n) = Append(u, p)
      <3>1. U(n) = u \o <<p>>
        BY <2>1, SubSeqRecursiveSecond
      <3> HIDE DEF u, p, U
      <3>2. Append(u, p) = u \o <<p>>
        BY <2>3, AppendIsConcat
      <3> QED BY <3>1, <3>2
    <2>5. (p.noExec = x) <=> y
      BY <2>1
    <2>6. Rounds!Marked(s \o u, x) = IF y THEN m \o u ELSE m
      BY <2>2
    <2> HIDE DEF m, u, p, U
    <2>7. s \o u \in Seq(S) /\ s \o Append(u, p) = Append(s \o u, p) /\ m \o Append(u, p) = Append(m \o u, p)
      <3>1. s \o u \in Seq(S) /\ s \o Append(u, p) = Append(s \o u, p)
        BY <2>3, ConcatAppend
      <3>2. m \o Append(u, p) = Append(m \o u, p)
        BY <1>2, <2>3, ConcatAppend
      <3> QED BY <3>1, <3>2
    <2>8. Rounds!Marked(Append(s \o u, p), x) =
             IF p.noExec = x THEN Append(Rounds!Marked(s \o u, x), p) ELSE Rounds!Marked(s \o u, x)
      BY <2>3, <2>7, MarkedAppend
    <2>9. Rounds!Marked(s \o Append(u, p), x) = IF y THEN m \o Append(u, p) ELSE m
      BY <2>5, <2>6, <2>7, <2>8
    <2> QED BY <1>6, <2>4, <2>9
  <1> QED BY <1>7, <1>8

LEMMA RccConstants ==
  /\ IsFiniteSet(Replicas) /\ Rounds!Cardinality(Replicas) \in Nat \ {0}
  /\ Rounds!Cardinality(Replicas) = Cardinality(Replicas)
  <1>1. IsFiniteSet(Replicas) /\ Replicas # {}
    BY PartsAssumption DEF Rounds!RccAssumption, Rounds!IsFiniteSet, IsFiniteSet
  <1>2. Rounds!Cardinality(Replicas) = Cardinality(Replicas)
    BY Zenon DEF Rounds!Cardinality, Cardinality, Rounds!IsFiniteSet, IsFiniteSet
  <1>3. Cardinality(Replicas) \in Nat /\ Cardinality(Replicas) # 0
    BY <1>1, FS_CardinalityType, FS_EmptySet
  <1> QED BY <1>1, <1>2, <1>3

\* What the invariant says of replica r.
RoundsAt(r) ==
    \E n \in Nat : /\ Rounds!Executed(Rounds!Commands(r), n)
                   /\ \A l \in Replicas : Rounds!Waiting(Rounds!Take(r)[l], l, n, orderedBy[r][l])

LEMMA RccInvIs == Rounds!RccInv <=> Rounds!TypeOK /\ \A r \in Replicas : RoundsAt(r)
  BY DEF Rounds!RccInv, RoundsAt

LEMMA TakeIs ==
  ASSUME NEW r \in Replicas, NEW l \in Replicas
  PROVE  Rounds!Take(r)[l] = execPkts[r][l] \o Rounds!Marked(pending[r][l], FALSE)
  BY DEF Rounds!Take

LEMMA TakePrime ==
  ASSUME NEW r \in Replicas, NEW l \in Replicas
  PROVE  (Rounds!Take(r))'[l] = execPkts'[r][l] \o Rounds!Marked(pending'[r][l], FALSE)
  BY DEF Rounds!Take, Rounds!Marked

LEMMA RccInit ==
  ASSUME Rounds!Init
  PROVE  Rounds!RccInv
  <1>1. << >> \in Seq(Rounds!Packets) /\ Len(<< >>) = 0 /\ DOMAIN << >> = {}
    BY EmptySeq
  <1>2. Rounds!TypeOK
    BY <1>1 DEF Rounds!Init, Rounds!TypeOK
  <1>3. ASSUME NEW r \in Replicas PROVE RoundsAt(r)
    <2>1. Rounds!Commands(r) = << >>
      BY MarkedEmpty DEF Rounds!Init, Rounds!Commands
    <2>2. Rounds!Executed(<< >>, 0)
      <3>1. 0 * Rounds!Cardinality(Replicas) = 0
        BY RccConstants
      <3> QED BY <1>1, <3>1 DEF Rounds!Executed
    <2>3. ASSUME NEW l \in Replicas PROVE Rounds!Waiting(Rounds!Take(r)[l], l, 0, orderedBy[r][l])
      <3>1. orderedBy[r][l] = 0 /\ execPkts[r][l] = << >> /\ pending[r][l] = << >>
        BY DEF Rounds!Init
      <3>2. << >> \o << >> = << >>
        BY <1>1, ConcatEmptySeq
      <3>3. Rounds!Take(r)[l] = << >>
        BY <3>1, <3>2, TakeIs, MarkedEmpty
      <3> QED BY <1>1, <3>1, <3>3 DEF Rounds!Waiting
    <2> QED BY <2>1, <2>2, <2>3 DEF RoundsAt
  <1> QED BY <1>2, <1>3, RccInvIs

LEMMA PacketIn ==
  ASSUME NEW l \in Replicas, NEW n \in Nat, NEW x \in BOOLEAN
  PROVE  Rounds!Packet(l, n, x) \in Rounds!Packets /\ (Rounds!Packet(l, n, x)).noExec = x
         /\ (Rounds!Packet(l, n, x)).no = n /\ (Rounds!Packet(l, n, x)).leader = l
  BY DEF Rounds!Packet, Rounds!Packets

\* A command that is ordered waits behind the earlier ones of its leader.
LEMMA RccOrder ==
  ASSUME Rounds!RccInv, NEW r \in Replicas, NEW l \in Replicas, Rounds!Order(r, l)
  PROVE  Rounds!RccInv'
  <1> DEFINE m == orderedBy[r][l] + 1
             p == Rounds!Packet(l, m, FALSE)
             q == Append(pending[r][l], p)
  <1>1. /\ Rounds!TypeOK /\ UNCHANGED <<execPkts, executed>>
        /\ orderedBy' = [orderedBy EXCEPT ![r][l] = m]
    BY DEF Rounds!Order, Rounds!RccInv, Rounds!TypeOK
  <1>2. m \in Nat /\ orderedBy'[r][l] = m
    BY <1>1 DEF Rounds!TypeOK
  <1>3. pending' = [pending EXCEPT ![r][l] = q]
    BY <1>2 DEF Rounds!Order
  <1>4. p \in Rounds!Packets /\ p.noExec = FALSE
    BY <1>2, PacketIn
  <1>5. pending[r][l] \in Seq(Rounds!Packets) /\ execPkts[r][l] \in Seq(Rounds!Packets)
        /\ orderedBy[r][l] \in Nat
    BY <1>1 DEF Rounds!TypeOK
  <1>6. q \in Seq(Rounds!Packets)
    <2> HIDE DEF p
    <2> QED BY <1>4, <1>5, AppendProperties
  <1> HIDE DEF q
  <1>7. Rounds!TypeOK'
    BY <1>1, <1>2, <1>3, <1>6 DEF Rounds!TypeOK, Rounds!Packets
  <1>8. /\ orderedBy' \in [Replicas -> [Replicas -> Nat]]
        /\ \A s, k \in Replicas : <<s, k>> # <<r, l>> =>
              orderedBy'[s][k] = orderedBy[s][k] /\ pending'[s][k] = pending[s][k]
        /\ pending'[r][l] = q
    BY <1>1, <1>3, <1>7 DEF Rounds!TypeOK
  <1>9. (Rounds!Take(r))'[l] = Append(Rounds!Take(r)[l], p)
    <2> HIDE DEF p
    <2> DEFINE e == execPkts[r][l]
               u == Rounds!Marked(pending[r][l], FALSE)
    <2>1. Rounds!Marked(q, FALSE) = Append(u, p)
      BY <1>4, <1>5, MarkedAppend DEF q
    <2>2. u \in Seq(Rounds!Packets) /\ e \in Seq(Rounds!Packets)
      BY <1>5, MarkedType
    <2>3. Rounds!Take(r)[l] = e \o u
      BY TakeIs
    <2>4. (Rounds!Take(r))'[l] = e \o Append(u, p)
      <3>1. (Rounds!Take(r))'[l] = execPkts'[r][l] \o Rounds!Marked(pending'[r][l], FALSE)
        BY TakePrime
      <3> QED BY <1>1, <1>8, <2>1, <3>1
    <2> HIDE DEF e, u
    <2>5. e \o Append(u, p) = Append(e \o u, p)
      BY <1>4, <2>2, ConcatAppend
    <2> QED BY <2>3, <2>4, <2>5
  <1>10. Rounds!Take(r)[l] \in Seq(Rounds!Packets)
    <2>1. Rounds!Marked(pending[r][l], FALSE) \in Seq(Rounds!Packets)
      BY <1>5, MarkedType
    <2> QED BY <1>5, <2>1, TakeIs, ConcatProperties
  <1>11. ASSUME NEW s \in Replicas PROVE RoundsAt(s)'
    <2>1. PICK n \in Nat : /\ Rounds!Executed(Rounds!Commands(s), n)
                           /\ \A k \in Replicas : Rounds!Waiting(Rounds!Take(s)[k], k, n, orderedBy[s][k])
      BY RccInvIs DEF RoundsAt
    <2>2. Rounds!Executed(Rounds!Commands(s), n)'
      <3>1. (Rounds!Commands(s))' = Rounds!Commands(s)
        BY <1>1 DEF Rounds!Commands, Rounds!Marked
      <3> QED BY <2>1, <3>1 DEF Rounds!Executed
    <2>3. ASSUME NEW k \in Replicas
          PROVE  Rounds!Waiting((Rounds!Take(s))'[k], k, n, orderedBy'[s][k])
      <3>1. CASE <<s, k>> # <<r, l>>
        <4>1. (Rounds!Take(s))'[k] = Rounds!Take(s)[k] /\ orderedBy'[s][k] = orderedBy[s][k]
          <5>1. Rounds!Take(s)[k] = execPkts[s][k] \o Rounds!Marked(pending[s][k], FALSE)
            BY TakeIs
          <5>2. (Rounds!Take(s))'[k] = execPkts'[s][k] \o Rounds!Marked(pending'[s][k], FALSE)
            BY TakePrime
          <5>3. pending'[s][k] = pending[s][k] /\ orderedBy'[s][k] = orderedBy[s][k] /\ execPkts' = execPkts
            BY <1>1, <1>8, <3>1
          <5> QED BY <5>1, <5>2, <5>3
        <4> QED BY <2>1, <4>1
      <3>2. CASE s = r /\ k = l
        <4> DEFINE w == Rounds!Take(r)[l]
        <4>1. Len(w) = orderedBy[r][l] - n /\ \A j \in DOMAIN w : w[j] = Rounds!Packet(l, n + j, FALSE)
          BY <2>1, <3>2 DEF Rounds!Waiting
        <4>2. w \in Seq(Rounds!Packets)
          BY <1>10
        <4> HIDE DEF w, p
        <4>3. /\ Len(Append(w, p)) = Len(w) + 1 /\ Len(w) \in Nat /\ DOMAIN w = 1 .. Len(w)
              /\ DOMAIN Append(w, p) = 1 .. Len(w) + 1 /\ Append(w, p)[Len(w) + 1] = p
              /\ \A j \in 1 .. Len(w) : Append(w, p)[j] = w[j]
          BY <1>4, <4>2, AppendIdx
        <4>4. Len(w) + 1 = m - n /\ n + (Len(w) + 1) = m
          BY <1>5, <4>1, <4>3
        <4>5. \A j \in 1 .. Len(w) + 1 : j \in 1 .. Len(w) \/ j = Len(w) + 1
          BY <4>3
        <4> HIDE DEF m
        <4>6. p = Rounds!Packet(l, n + (Len(w) + 1), FALSE)
          BY <4>4 DEF p
        <4>7. \A j \in 1 .. Len(w) + 1 : Append(w, p)[j] = Rounds!Packet(l, n + j, FALSE)
          BY <4>1, <4>3, <4>5, <4>6
        <4>8. Rounds!Waiting(Append(w, p), l, n, m)
          BY <4>3, <4>4, <4>7 DEF Rounds!Waiting
        <4> QED BY <1>2, <1>9, <3>2, <4>8 DEF w
      <3> QED BY <3>1, <3>2
    <2> QED BY <2>2, <2>3 DEF RoundsAt
  <1> QED BY <1>7, <1>11 DEF Rounds!RccInv, RoundsAt

\* An answer waits in nobody's list.
LEMMA RccAnswer ==
  ASSUME Rounds!RccInv, NEW l \in Replicas, NEW n \in 1 .. Load[l], Rounds!Answer(l, n)
  PROVE  Rounds!RccInv'
  <1> DEFINE p == Rounds!Packet(l, n, TRUE)
             q == Append(pending[l][l], p)
  <1>1. /\ Rounds!TypeOK /\ UNCHANGED <<orderedBy, execPkts, executed>>
        /\ pending' = [pending EXCEPT ![l][l] = q]
    BY DEF Rounds!Answer, Rounds!RccInv
  <1>2. Load[l] \in Nat
    BY PartsAssumption DEF Rounds!RccAssumption
  <1>3. p \in Rounds!Packets /\ p.noExec = TRUE
    <2>1. n \in Nat
      BY <1>2
    <2> QED BY <2>1 DEF Rounds!Packet, Rounds!Packets
  <1> HIDE DEF p
  <1>4. pending[l][l] \in Seq(Rounds!Packets)
    BY <1>1 DEF Rounds!TypeOK
  <1>5. q \in Seq(Rounds!Packets)
    BY <1>3, <1>4, AppendProperties
  <1>6. Rounds!Marked(q, FALSE) = Rounds!Marked(pending[l][l], FALSE)
    <2>1. Rounds!Marked(q, FALSE) =
             IF p.noExec = FALSE THEN Append(Rounds!Marked(pending[l][l], FALSE), p)
             ELSE Rounds!Marked(pending[l][l], FALSE)
      BY <1>3, <1>4, MarkedAppend
    <2> QED BY <1>3, <2>1
  <1> HIDE DEF q
  <1>7. Rounds!TypeOK'
    BY <1>1, <1>5 DEF Rounds!TypeOK, Rounds!Packets
  <1>8. ASSUME NEW s \in Replicas PROVE RoundsAt(s)'
    <2>1. PICK m \in Nat : /\ Rounds!Executed(Rounds!Commands(s), m)
                           /\ \A k \in Replicas : Rounds!Waiting(Rounds!Take(s)[k], k, m, orderedBy[s][k])
      BY RccInvIs DEF RoundsAt
    <2>2. Rounds!Executed(Rounds!Commands(s), m)'
      <3>1. (Rounds!Commands(s))' = Rounds!Commands(s)
        BY <1>1 DEF Rounds!Commands, Rounds!Marked
      <3> QED BY <2>1, <3>1 DEF Rounds!Executed
    <2>3. ASSUME NEW k \in Replicas
          PROVE  Rounds!Waiting((Rounds!Take(s))'[k], k, m, orderedBy'[s][k])
      <3>1. Rounds!Take(s)[k] = execPkts[s][k] \o Rounds!Marked(pending[s][k], FALSE)
        BY TakeIs
      <3>2. (Rounds!Take(s))'[k] = execPkts'[s][k] \o Rounds!Marked(pending'[s][k], FALSE)
        BY TakePrime
      <3>3. \/ pending'[s][k] = pending[s][k]
            \/ s = l /\ k = l /\ pending'[s][k] = q
        BY <1>1 DEF Rounds!TypeOK
      <3>4. Rounds!Marked(pending'[s][k], FALSE) = Rounds!Marked(pending[s][k], FALSE)
        BY <1>6, <3>3
      <3>5. (Rounds!Take(s))'[k] = Rounds!Take(s)[k] /\ orderedBy' = orderedBy
        BY <1>1, <3>1, <3>2, <3>4
      <3> QED BY <2>1, <3>5
    <2> QED BY <2>2, <2>3 DEF RoundsAt
  <1> QED BY <1>7, <1>8 DEF Rounds!RccInv, RoundsAt

\* The first command of a list belongs to the next round.
LEMMA WaitingTail ==
  ASSUME NEW w \in Seq(Rounds!Packets), w # << >>, NEW l, NEW n \in Nat, NEW m \in Nat,
         Rounds!Waiting(w, l, n, m)
  PROVE  /\ Rounds!Waiting(Tail(w), l, n + 1, m) /\ Tail(w) \in Seq(Rounds!Packets)
         /\ Head(w) = Rounds!Packet(l, n + 1, FALSE) /\ Head(w) \in Rounds!Packets
  <1>1. /\ Tail(w) \in Seq(Rounds!Packets) /\ Len(w) \in Nat \ {0}
        /\ DOMAIN w = 1 .. Len(w) /\ DOMAIN Tail(w) = 1 .. Len(w) - 1 /\ Head(w) = w[1]
        /\ \A k \in 1 .. Len(w) - 1 : Tail(w)[k] = w[k + 1]
    BY TailIdx
  <1>2. Len(Tail(w)) = Len(w) - 1
    BY HeadTailProperties
  <1>3. Len(w) = m - n /\ \A k \in 1 .. Len(w) : w[k] = Rounds!Packet(l, n + k, FALSE)
    BY <1>1 DEF Rounds!Waiting
  <1>4. 1 \in 1 .. Len(w) /\ \A k \in 1 .. Len(w) - 1 : k + 1 \in 1 .. Len(w) /\ n + (k + 1) = (n + 1) + k
    BY <1>1
  <1>5. \A k \in 1 .. Len(w) - 1 : Tail(w)[k] = Rounds!Packet(l, (n + 1) + k, FALSE)
    BY <1>1, <1>3, <1>4
  <1>6. Len(w) - 1 = m - (n + 1)
    BY <1>1, <1>3
  <1>7. Rounds!Waiting(Tail(w), l, n + 1, m)
    BY <1>1, <1>2, <1>5, <1>6 DEF Rounds!Waiting
  <1>8. Head(w) = Rounds!Packet(l, n + 1, FALSE) /\ Head(w) \in Rounds!Packets
    BY <1>1, <1>3, <1>4, ElementOfSeq
  <1> QED BY <1>1, <1>7, <1>8

\* One command of each leader is the next round.
LEMMA ExecutedMore ==
  ASSUME NEW n \in Nat, NEW c \in Seq(Rounds!Packets), Rounds!Executed(c, n),
         NEW order \in [1 .. Rounds!Cardinality(Replicas) -> Replicas],
         \A j, k \in 1 .. Rounds!Cardinality(Replicas) : j # k => order[j] # order[k],
         NEW d \in Seq(Rounds!Packets), Len(d) = Rounds!Cardinality(Replicas),
         \A k \in 1 .. Rounds!Cardinality(Replicas) : d[k] = Rounds!Packet(order[k], n + 1, FALSE)
  PROVE  Rounds!Executed(c \o d, n + 1)
  <1> DEFINE N == Rounds!Cardinality(Replicas)
             f == c \o d
  <1>1. N \in Nat \ {0}
    BY RccConstants
  <1>2. /\ Len(c) = n * N /\ DOMAIN c = 1 .. Len(c)
        /\ \A k \in 1 .. Len(c) : c[k].no \in 1 .. n /\ (c[k].no - 1) * N < k /\ k <= c[k].no * N
        /\ \A j, k \in 1 .. Len(c) : c[j] = c[k] => j = k
    BY LenProperties DEF Rounds!Executed
  <1>3. \A k \in 1 .. N : d[k].no = n + 1 /\ d[k].leader = order[k]
    BY DEF Rounds!Packet
  <1>4. \A j, k \in 1 .. N : d[j] = d[k] => j = k
    BY <1>3
  <1> HIDE DEF N
  <1>5. f \in Seq(Rounds!Packets) /\ Len(f) = n * N + N
        /\ \A k \in 1 .. n * N + N : f[k] = IF k <= n * N THEN c[k] ELSE d[k - n * N]
    <2>1. /\ c \o d \in Seq(Rounds!Packets) /\ Len(c \o d) = Len(c) + Len(d)
          /\ \A k \in 1 .. Len(c) + Len(d) : (c \o d)[k] = IF k <= Len(c) THEN c[k] ELSE d[k - Len(c)]
      BY ConcatProperties, Zenon
    <2>2. Len(c) = n * N /\ Len(d) = N
      BY <1>2 DEF N
    <2> QED BY <2>1, <2>2, Zenon
  <1>6. DOMAIN f = 1 .. n * N + N
    BY <1>5, LenProperties
  <1> HIDE DEF f
  <1> DEFINE z == n * N
  <1>7. z \in Nat /\ (n + 1) * N = z + N /\ ((n + 1) - 1) * N = z
    BY <1>1
  <1> HIDE DEF z
  <1>8. ASSUME NEW k \in 1 .. z + N
        PROVE  \/ k \in 1 .. z /\ f[k] = c[k]
               \/ k - z \in 1 .. N /\ f[k] = d[k - z] /\ z < k
    <2>1. (k \in 1 .. z /\ k <= z) \/ (k - z \in 1 .. N /\ z < k /\ ~(k <= z))
      BY <1>1, <1>7
    <2>2. f[k] = IF k <= z THEN c[k] ELSE d[k - z]
      BY <1>5 DEF z
    <2> QED BY <2>1, <2>2
  <1>9. Len(c) = z
    BY <1>2 DEF z
  <1>10. ASSUME NEW k \in 1 .. z + N
         PROVE  f[k].no \in 1 .. n + 1 /\ (f[k].no - 1) * N < k /\ k <= f[k].no * N
    <2>1. CASE k \in 1 .. z /\ f[k] = c[k]
      <3>1. \A i1 \in 1 .. n : i1 \in 1 .. n + 1
        OBVIOUS
      <3> QED BY <1>2, <1>9, <2>1, <3>1
    <2>2. CASE k - z \in 1 .. N /\ f[k] = d[k - z] /\ z < k
      <3>1. f[k].no = n + 1
        BY <1>3, <2>2 DEF N
      <3>2. n + 1 \in 1 .. n + 1 /\ k <= z + N
        BY <1>1, <1>7
      <3> QED BY <1>7, <2>2, <3>1, <3>2
    <2> QED BY <1>8, <2>1, <2>2
  <1>11. ASSUME NEW j \in 1 .. z + N, NEW k \in 1 .. z + N, f[j] = f[k] PROVE j = k
    <2>1. \A x \in 1 .. z : c[x].no # n + 1
      <3>1. \A x \in 1 .. z : c[x].no \in 1 .. n
        BY <1>2, <1>9, Zenon
      <3>2. \A y \in 1 .. n : y # n + 1
        OBVIOUS
      <3> QED BY <3>1, <3>2
    <2>2. \A x \in 1 .. N : d[x].no = n + 1
      BY <1>3, Zenon DEF N
    <2>3. CASE j \in 1 .. z /\ f[j] = c[j] /\ k \in 1 .. z /\ f[k] = c[k]
      BY <1>2, <1>9, <1>11, <2>3
    <2>4. CASE j - z \in 1 .. N /\ f[j] = d[j - z] /\ k - z \in 1 .. N /\ f[k] = d[k - z]
      <3>1. j - z = k - z
        BY <1>4, <1>11, <2>4 DEF N
      <3> QED BY <1>7, <3>1
    <2>5. ASSUME NEW x \in 1 .. z, NEW y \in 1 .. N PROVE c[x] # d[y]
      BY <2>1, <2>2
    <2>6. /\ (j \in 1 .. z /\ f[j] = c[j]) \/ (j - z \in 1 .. N /\ f[j] = d[j - z])
          /\ (k \in 1 .. z /\ f[k] = c[k]) \/ (k - z \in 1 .. N /\ f[k] = d[k - z])
      BY <1>8
    <2> QED BY <1>11, <2>3, <2>4, <2>5, <2>6, Zenon
  <1>12. Len(f) = (n + 1) * N /\ DOMAIN f = 1 .. z + N
    BY <1>5, <1>6, <1>7 DEF z
  <1>13. /\ Len(f) = (n + 1) * N
         /\ \A k \in DOMAIN f : f[k].no \in 1 .. n + 1 /\ (f[k].no - 1) * N < k /\ k <= f[k].no * N
         /\ \A j, k \in DOMAIN f : f[j] = f[k] => j = k
    BY <1>10, <1>11, <1>12
  <1> QED BY <1>13 DEF Rounds!Executed, f, N

\* A turn of the run loop executes the answers, and a round when every list has a command.
LEMMA RccMakeReady ==
  ASSUME Rounds!RccInv, NEW r \in Replicas, NEW order \in Rounds!SetToSeqs(Replicas),
         Rounds!MakeReady(r, order)
  PROVE  Rounds!RccInv'
  <1> DEFINE N == Rounds!Cardinality(Replicas)
             A == {p \in Rounds!Packets : p.noExec = TRUE}
             lists == Rounds!Take(r)
             parts == [k \in DOMAIN order |-> Rounds!Marked(pending[r][order[k]], TRUE)]
             answers == FlattenSeq(parts)
             round == [k \in DOMAIN order |-> Head(lists[order[k]])]
             full == Rounds!Present(lists)
             rest == IF full THEN round ELSE << >>
             kept == [l \in Replicas |-> IF full THEN Tail(lists[l]) ELSE lists[l]]
  <1>1. /\ Rounds!TypeOK /\ UNCHANGED orderedBy
        /\ execPkts' = [execPkts EXCEPT ![r] = kept]
        /\ executed' = [executed EXCEPT ![r] = (executed[r] \o answers) \o rest]
        /\ pending' = [pending EXCEPT ![r] = [l \in Replicas |-> << >>]]
    BY RoundsFlatten DEF Rounds!MakeReady, Rounds!RccInv
  <1>2. /\ \A l \in Replicas : /\ pending[r][l] \in Seq(Rounds!Packets)
                               /\ execPkts[r][l] \in Seq(Rounds!Packets) /\ orderedBy[r][l] \in Nat
        /\ executed[r] \in Seq(Rounds!Packets)
    BY <1>1 DEF Rounds!TypeOK
  <1>3. /\ order \in [1 .. N -> Replicas] /\ DOMAIN order = 1 .. N /\ N \in Nat
        /\ \A j, k \in 1 .. N : j # k => order[j] # order[k]
    BY RccConstants DEF Rounds!SetToSeqs
  <1>4. answers \in Seq(A)
    <2>1. ASSUME NEW k \in 1 .. N PROVE Rounds!Marked(pending[r][order[k]], TRUE) \in Seq(A)
      <3>1. order[k] \in Replicas
        BY <1>3
      <3>2. pending[r][order[k]] \in Seq(Rounds!Packets)
        BY <1>2, <3>1
      <3> QED BY <3>2, MarkedType
    <2> HIDE DEF A
    <2>2. parts \in [1 .. N -> Seq(A)]
      BY <1>3, <2>1
    <2> HIDE DEF parts, N
    <2>3. parts \in Seq(Seq(A))
      BY <1>3, <2>2, FunctionIsSequence
    <2> QED BY <2>3, FlattenType
  <1> HIDE DEF answers
  <1>5. answers \in Seq(Rounds!Packets) /\ \A k \in 1 .. Len(answers) : answers[k].noExec = TRUE
    <2>1. \A k \in 1 .. Len(answers) : answers[k] \in A
      BY <1>4, ElementOfSeq
    <2>2. A \subseteq Rounds!Packets
      OBVIOUS
    <2> HIDE DEF A
    <2>3. answers \in Seq(Rounds!Packets)
      BY <1>4, <2>2
    <2> QED BY <2>1, <2>3 DEF A
  <1>6. \A l \in Replicas : lists[l] \in Seq(Rounds!Packets)
    <2> SUFFICES ASSUME NEW l \in Replicas PROVE lists[l] \in Seq(Rounds!Packets)
      OBVIOUS
    <2>1. lists[l] = execPkts[r][l] \o Rounds!Marked(pending[r][l], FALSE)
      BY TakeIs
    <2>2. Rounds!Marked(pending[r][l], FALSE) \in Seq(Rounds!Packets)
      BY <1>2, MarkedType
    <2> DEFINE e == execPkts[r][l]
               u == Rounds!Marked(pending[r][l], FALSE)
    <2>3. e \in Seq(Rounds!Packets) /\ u \in Seq(Rounds!Packets) /\ lists[l] = e \o u
      BY <1>2, <2>1, <2>2
    <2> HIDE DEF lists, e, u
    <2>4. e \o u \in Seq(Rounds!Packets)
      BY <2>3, ConcatProperties
    <2> QED BY <2>3, <2>4
  <1>7. PICK n \in Nat : /\ Rounds!Executed(Rounds!Commands(r), n)
                         /\ \A l \in Replicas : Rounds!Waiting(lists[l], l, n, orderedBy[r][l])
    BY RccInvIs DEF RoundsAt
  <1>8. full => \A l \in Replicas : lists[l] # << >>
    BY DEF Rounds!Present
  <1> HIDE DEF lists, full
  <1>9. ASSUME full, NEW l \in Replicas
        PROVE  /\ Rounds!Waiting(Tail(lists[l]), l, n + 1, orderedBy[r][l])
               /\ Tail(lists[l]) \in Seq(Rounds!Packets)
               /\ Head(lists[l]) = Rounds!Packet(l, n + 1, FALSE) /\ Head(lists[l]) \in Rounds!Packets
    <2> DEFINE w == lists[l]
               m == orderedBy[r][l]
    <2>1. w \in Seq(Rounds!Packets) /\ w # << >> /\ m \in Nat /\ Rounds!Waiting(w, l, n, m)
      BY <1>2, <1>6, <1>7, <1>8, <1>9
    <2> HIDE DEF w, m
    <2>2. /\ Rounds!Waiting(Tail(w), l, n + 1, m) /\ Tail(w) \in Seq(Rounds!Packets)
          /\ Head(w) = Rounds!Packet(l, n + 1, FALSE) /\ Head(w) \in Rounds!Packets
      BY <2>1, WaitingTail
    <2> QED BY <2>2 DEF w, m
  <1>10. ASSUME full
         PROVE  /\ round \in Seq(Rounds!Packets) /\ Len(round) = N
                /\ \A k \in 1 .. N : round[k] = Rounds!Packet(order[k], n + 1, FALSE)
    <2>1. \A k \in 1 .. N : /\ Head(lists[order[k]]) = Rounds!Packet(order[k], n + 1, FALSE)
                            /\ Head(lists[order[k]]) \in Rounds!Packets
      BY <1>3, <1>9, <1>10
    <2>2. round \in [1 .. N -> Rounds!Packets]
      BY <1>3, <2>1
    <2>3. \A k \in 1 .. N : round[k] = Rounds!Packet(order[k], n + 1, FALSE)
      BY <1>3, <2>1
    <2> HIDE DEF round, N
    <2> QED BY <1>3, <2>2, <2>3, FunctionIsSequence
  <1> HIDE DEF round
  <1>11. rest \in Seq(Rounds!Packets) /\ kept \in [Replicas -> Seq(Rounds!Packets)]
    BY <1>6, <1>9, <1>10, EmptySeq
  <1>12. /\ \A l \in Replicas : kept[l] = IF full THEN Tail(lists[l]) ELSE lists[l]
         /\ execPkts'[r] = kept /\ executed'[r] = (executed[r] \o answers) \o rest
         /\ pending'[r] = [l \in Replicas |-> << >>]
         /\ \A s \in Replicas : s # r => /\ execPkts'[s] = execPkts[s] /\ executed'[s] = executed[s]
                                         /\ pending'[s] = pending[s]
    <2>1. /\ execPkts \in [Replicas -> [Replicas -> Seq(Rounds!Packets)]]
          /\ pending \in [Replicas -> [Replicas -> Seq(Rounds!Packets)]]
          /\ executed \in [Replicas -> Seq(Rounds!Packets)]
      BY <1>1 DEF Rounds!TypeOK
    <2>2. \A l \in Replicas : kept[l] = IF full THEN Tail(lists[l]) ELSE lists[l]
      OBVIOUS
    <2> HIDE DEF kept, rest
    <2>3. execPkts'[r] = kept /\ \A s \in Replicas : s # r => execPkts'[s] = execPkts[s]
      BY <1>1, <2>1
    <2>4. /\ executed'[r] = (executed[r] \o answers) \o rest
          /\ \A s \in Replicas : s # r => executed'[s] = executed[s]
      BY <1>1, <2>1
    <2>5. pending'[r] = [l \in Replicas |-> << >>] /\ \A s \in Replicas : s # r => pending'[s] = pending[s]
      BY <1>1, <2>1
    <2> QED BY <2>2, <2>3, <2>4, <2>5
  <1> HIDE DEF kept
  <1>13. executed[r] \o answers \in Seq(Rounds!Packets)
         /\ (executed[r] \o answers) \o rest \in Seq(Rounds!Packets)
    <2>1. executed[r] \o answers \in Seq(Rounds!Packets)
      BY <1>2, <1>5, ConcatProperties
    <2> HIDE DEF rest
    <2> QED BY <1>11, <2>1, ConcatProperties
  <1>14. Rounds!TypeOK'
    <2>1. [l \in Replicas |-> << >>] \in [Replicas -> Seq(Rounds!Packets)]
      BY EmptySeq
    <2> HIDE DEF rest
    <2> QED BY <1>1, <1>11, <1>13, <2>1 DEF Rounds!TypeOK, Rounds!Packets
  <1>15. Rounds!Marked(executed[r] \o answers, FALSE) = Rounds!Commands(r)
    <2>1. \A k \in 1 .. Len(answers) : (answers[k].noExec = FALSE) <=> FALSE
      BY <1>5
    <2>2. Rounds!Marked(executed[r] \o answers, FALSE) =
             IF FALSE THEN Rounds!Marked(executed[r], FALSE) \o answers ELSE Rounds!Marked(executed[r], FALSE)
      BY <1>2, <1>5, <2>1, MarkedRun
    <2> QED BY <2>2 DEF Rounds!Commands
  <1>16. (Rounds!Commands(r))' = Rounds!Marked(executed'[r], FALSE)
    BY DEF Rounds!Commands, Rounds!Marked
  <1>17. \A l \in Replicas : (Rounds!Take(r))'[l] = kept[l]
    <2> SUFFICES ASSUME NEW l \in Replicas PROVE (Rounds!Take(r))'[l] = kept[l]
      OBVIOUS
    <2>1. (Rounds!Take(r))'[l] = execPkts'[r][l] \o Rounds!Marked(pending'[r][l], FALSE)
      BY TakePrime
    <2>2. pending'[r][l] = << >>
      BY <1>12
    <2>3. kept[l] \in Seq(Rounds!Packets)
      BY <1>11
    <2>4. kept[l] \o << >> = kept[l]
      BY <2>3, ConcatEmptySeq
    <2>5. Rounds!Marked(pending'[r][l], FALSE) = << >>
      BY <2>2, MarkedEmpty
    <2>6. execPkts'[r][l] = kept[l]
      BY <1>12
    <2> QED BY <2>1, <2>4, <2>5, <2>6
  <1>18. RoundsAt(r)'
    <2>1. CASE full
      <3>1. \A k \in 1 .. Len(round) : (round[k].noExec = FALSE) <=> TRUE
        <4>1. \A k \in 1 .. N : round[k].noExec = FALSE
          BY <1>10, <2>1 DEF Rounds!Packet
        <4> QED BY <1>10, <2>1, <4>1
      <3> DEFINE e == executed[r] \o answers
      <3>2. e \in Seq(Rounds!Packets) /\ round \in Seq(Rounds!Packets)
        BY <1>10, <1>13, <2>1
      <3>3. executed'[r] = e \o round
        BY <1>12, <2>1
      <3>4. Rounds!Marked(e, FALSE) = Rounds!Commands(r)
        BY <1>15
      <3> HIDE DEF e
      <3>5. Rounds!Marked(e \o round, FALSE) =
               IF TRUE THEN Rounds!Marked(e, FALSE) \o round ELSE Rounds!Marked(e, FALSE)
        BY <3>1, <3>2, MarkedRun
      <3>6. (Rounds!Commands(r))' = Rounds!Commands(r) \o round
        BY <1>16, <3>3, <3>4, <3>5
      <3>7. Rounds!Commands(r) \in Seq(Rounds!Packets)
        BY <1>2, MarkedType DEF Rounds!Commands
      <3>8. Rounds!Executed(Rounds!Commands(r) \o round, n + 1)
        BY <1>3, <1>7, <1>10, <2>1, <3>7, ExecutedMore
      <3>9. Rounds!Executed(Rounds!Commands(r), n + 1)'
        BY <3>6, <3>8 DEF Rounds!Executed
      <3>10. ASSUME NEW l \in Replicas
             PROVE  Rounds!Waiting((Rounds!Take(r))'[l], l, n + 1, orderedBy'[r][l])
        <4>1. (Rounds!Take(r))'[l] = Tail(lists[l]) /\ orderedBy' = orderedBy
          BY <1>1, <1>12, <1>17, <2>1
        <4>2. Rounds!Waiting(Tail(lists[l]), l, n + 1, orderedBy[r][l])
          BY <1>9, <2>1
        <4> QED BY <4>1, <4>2
      <3>11. n + 1 \in Nat
        OBVIOUS
      <3> QED BY <3>9, <3>10, <3>11 DEF RoundsAt
    <2>2. CASE ~full
      <3> DEFINE e == executed[r] \o answers
      <3>1. e \o << >> = e
        <4>1. e \in Seq(Rounds!Packets)
          BY <1>13
        <4> HIDE DEF e
        <4> QED BY <4>1, ConcatEmptySeq
      <3>2. (Rounds!Commands(r))' = Rounds!Commands(r)
        BY <1>12, <1>15, <1>16, <2>2, <3>1
      <3>3. Rounds!Executed(Rounds!Commands(r), n)'
        BY <1>7, <3>2 DEF Rounds!Executed
      <3>4. ASSUME NEW l \in Replicas
            PROVE  Rounds!Waiting((Rounds!Take(r))'[l], l, n, orderedBy'[r][l])
        BY <1>1, <1>7, <1>12, <1>17, <2>2
      <3> QED BY <3>3, <3>4 DEF RoundsAt
    <2> QED BY <2>1, <2>2
  <1>19. ASSUME NEW s \in Replicas, s # r PROVE RoundsAt(s)'
    <2>1. PICK m \in Nat : /\ Rounds!Executed(Rounds!Commands(s), m)
                           /\ \A k \in Replicas : Rounds!Waiting(Rounds!Take(s)[k], k, m, orderedBy[s][k])
      BY RccInvIs DEF RoundsAt
    <2>2. executed'[s] = executed[s] /\ execPkts'[s] = execPkts[s] /\ pending'[s] = pending[s]
          /\ orderedBy' = orderedBy
      BY <1>1, <1>12, <1>19
    <2>3. (Rounds!Commands(s))' = Rounds!Commands(s)
      BY <2>2 DEF Rounds!Commands, Rounds!Marked
    <2>4. Rounds!Executed(Rounds!Commands(s), m)'
      BY <2>1, <2>3 DEF Rounds!Executed
    <2>5. ASSUME NEW k \in Replicas
          PROVE  Rounds!Waiting((Rounds!Take(s))'[k], k, m, orderedBy'[s][k])
      <3>1. Rounds!Take(s)[k] = execPkts[s][k] \o Rounds!Marked(pending[s][k], FALSE)
        BY TakeIs
      <3>2. (Rounds!Take(s))'[k] = execPkts'[s][k] \o Rounds!Marked(pending'[s][k], FALSE)
        BY TakePrime
      <3> QED BY <2>1, <2>2, <3>1, <3>2
    <2> QED BY <2>4, <2>5 DEF RoundsAt
  <1> QED BY <1>14, <1>18, <1>19 DEF Rounds!RccInv, RoundsAt

LEMMA RccStep ==
  ASSUME Rounds!RccInv, Rounds!Next
  PROVE  Rounds!RccInv'
  <1>1. CASE \E r, l \in Replicas : Rounds!Order(r, l)
    BY <1>1, RccOrder
  <1>2. CASE \E l \in Replicas : \E n \in 1 .. Load[l] : Rounds!Answer(l, n)
    BY <1>2, RccAnswer
  <1>3. CASE \E r \in Replicas : Rounds!Step(r)
    BY <1>3, RccMakeReady DEF Rounds!Step
  <1> QED BY <1>1, <1>2, <1>3 DEF Rounds!Next

\* The bounds on a position say in which round it is.
LEMMA RoundOf ==
  ASSUME NEW N \in Nat \ {0}, NEW m \in Nat \ {0}, NEW k \in Nat \ {0}, (m - 1) * N < k, k <= m * N
  PROVE  m = 1 + (k - 1) \div N
  <1> DEFINE q == m - 1
             x == k - 1
  <1>1. q \in Nat /\ x \in Nat /\ m = q + 1 /\ q * N <= x /\ x < q * N + N
    <2>1. q \in Nat /\ x \in Nat /\ m = q + 1 /\ k = x + 1
      OBVIOUS
    <2>2. m * N = q * N + N /\ q * N \in Nat
      <3> HIDE DEF q
      <3> QED BY <2>1
    <2>3. q * N < k
      OBVIOUS
    <2> HIDE DEF q
    <2> QED BY <2>1, <2>2, <2>3
  <1> HIDE DEF q, x
  <1>2. x \div N = q
    BY <1>1
  <1> QED BY <1>1, <1>2 DEF x

LEMMA RccAgrees ==
  ASSUME Rounds!RccInv
  PROVE  Rounds!RoundsAgree
  <1> DEFINE N == Rounds!Cardinality(Replicas)
  <1>1. N \in Nat \ {0}
    BY RccConstants
  <1>2. ASSUME NEW r \in Replicas
        PROVE  LET c == Rounds!Commands(r)
               IN  /\ Len(c) % N = 0
                   /\ \A k \in DOMAIN c : c[k].no = 1 + (k - 1) \div N
                   /\ \A j, k \in DOMAIN c : c[j] = c[k] => j = k
    <2> DEFINE c == Rounds!Commands(r)
    <2>1. PICK n \in Nat : Rounds!Executed(c, n)
      BY RccInvIs DEF RoundsAt
    <2>2. /\ Len(c) = n * N
          /\ \A k \in DOMAIN c : c[k].no \in 1 .. n /\ (c[k].no - 1) * N < k /\ k <= c[k].no * N
          /\ \A j, k \in DOMAIN c : c[j] = c[k] => j = k
      BY <2>1 DEF Rounds!Executed
    <2>3. executed[r] \in Seq(Rounds!Packets)
      BY DEF Rounds!RccInv, Rounds!TypeOK
    <2>4. c \in Seq(Rounds!Packets)
      BY <2>3, MarkedType DEF Rounds!Commands
    <2> HIDE DEF c, N
    <2>5. DOMAIN c = 1 .. Len(c) /\ Len(c) \in Nat
      BY <2>4, LenProperties
    <2>6. (n * N) % N = 0
      BY <1>1
    <2>7. ASSUME NEW k \in DOMAIN c PROVE c[k].no = 1 + (k - 1) \div N
      <3> DEFINE m == c[k].no
      <3>1. m \in 1 .. n /\ (m - 1) * N < k /\ k <= m * N
        BY <2>2
      <3> HIDE DEF m
      <3>2. m \in Nat \ {0} /\ k \in Nat \ {0}
        BY <2>5, <3>1
      <3>3. m = 1 + (k - 1) \div N
        BY <1>1, <3>1, <3>2, RoundOf
      <3> QED BY <3>3 DEF m
    <2> QED BY <2>2, <2>6, <2>7 DEF c
  <1> QED BY <1>2 DEF Rounds!RoundsAgree

\* RCC's replicas agree on what each round consists of, for any number of replicas and
\* commands, whatever the speed of the replicators, of the answers and of the run loops, and in
\* whatever order MakeReady ranges over its maps.
THEOREM RoundsAlike == Spec => []RoundsAgree
  <1>1. Init => Rounds!RccInv
    BY RccInit DEF Init
  <1>2. Rounds!RccInv /\ [Next]_vars => Rounds!RccInv'
    <2> SUFFICES ASSUME Rounds!RccInv, [Next]_vars PROVE Rounds!RccInv'
      OBVIOUS
    <2>1. CASE InRounds(Rounds!Next)
      BY <2>1, RccStep DEF InRounds
    <2>2. CASE UNCHANGED roundsVars
      <3>1. /\ orderedBy' = orderedBy /\ pending' = pending
            /\ execPkts' = execPkts /\ executed' = executed
        BY <2>2 DEF roundsVars
      <3>2. Rounds!TypeOK'
        BY <3>1 DEF Rounds!RccInv, Rounds!TypeOK, Rounds!Packets
      <3>3. ASSUME NEW r \in Replicas PROVE RoundsAt(r)'
        <4>1. PICK n \in Nat : /\ Rounds!Executed(Rounds!Commands(r), n)
                               /\ \A l \in Replicas : Rounds!Waiting(Rounds!Take(r)[l], l, n, orderedBy[r][l])
          BY RccInvIs DEF RoundsAt
        <4>2. (Rounds!Commands(r))' = Rounds!Commands(r) /\ (Rounds!Take(r))' = Rounds!Take(r)
          BY <3>1 DEF Rounds!Commands, Rounds!Take, Rounds!Marked
        <4>3. Rounds!Executed(Rounds!Commands(r), n)'
          BY <4>1, <4>2 DEF Rounds!Executed
        <4>4. \A l \in Replicas : Rounds!Waiting((Rounds!Take(r))'[l], l, n, orderedBy'[r][l])
          BY <3>1, <4>1, <4>2
        <4> QED BY <4>3, <4>4 DEF RoundsAt
      <3> QED BY <3>2, <3>3 DEF Rounds!RccInv, RoundsAt
    <2>3. InRounds(Rounds!Next) \/ UNCHANGED roundsVars
      BY DEF Next, vars, InPool, InBucket, InBuf, InNet
    <2> QED BY <2>1, <2>2, <2>3
  <1>3. Rounds!RccInv => RoundsAgree
    BY RccAgrees DEF RoundsAgree
  <1> QED BY <1>1, <1>2, <1>3, PTL DEF Spec

-----------------------------------------------------------------------------
(* Sequences of sequences *)

LEMMA FlattenNone == FlattenSeq(<< >>) = << >>
  BY EmptySeq DEF FlattenSeq

\* The concatenation of what two sequences concatenate to.
LEMMA FlattenConcat ==
  ASSUME NEW C, NEW s \in Seq(Seq(C)), NEW t \in Seq(Seq(C))
  PROVE  FlattenSeq(s \o t) = FlattenSeq(s) \o FlattenSeq(t)
  <1> DEFINE X == Seq(C)
             G == {u \in Seq(X) : FlattenSeq(s \o u) = FlattenSeq(s) \o FlattenSeq(u)}
  <1>a. \A j, k, l \in Seq(C) : (j \o k) \o l = j \o (k \o l)
    <2> HIDE DEF X, G
    <2> QED BY ConcatAssoc
  <1>0. FlattenSeq(s) \in Seq(C)
    BY FlattenType
  <1>1. << >> \in G
    <2>1. s \o << >> = s /\ FlattenSeq(s) \o << >> = FlattenSeq(s)
      BY <1>0, ConcatEmptySeq
    <2>2. << >> \in Seq(X)
      BY EmptySeq
    <2>3. FlattenSeq(s \o << >>) = FlattenSeq(s) \o FlattenSeq(<< >>)
      BY <2>1, FlattenNone, Zenon
    <2> QED BY <2>2, <2>3, Zenon
  <1>2. ASSUME NEW u \in G, NEW c \in X PROVE Append(u, c) \in G
    <2> DEFINE w == s \o u
    <2>1. u \in Seq(Seq(C)) /\ FlattenSeq(w) = FlattenSeq(s) \o FlattenSeq(u) /\ c \in Seq(C)
      OBVIOUS
    <2>2. w \in Seq(Seq(C)) /\ s \o Append(u, c) = Append(w, c) /\ Append(u, c) \in Seq(Seq(C))
      <3>1. w \in Seq(X) /\ s \o Append(u, c) = Append(w, c)
        BY <2>1, ConcatAppend
      <3>2. Append(u, c) \in Seq(X)
        BY <2>1, AppendProperties
      <3> QED BY <3>1, <3>2
    <2> HIDE DEF w, G
    <2>3. FlattenSeq(Append(w, c)) = FlattenSeq(w) \o c
      BY <2>1, <2>2, FlattenAppend
    <2>4. FlattenSeq(Append(u, c)) = FlattenSeq(u) \o c
      BY <2>1, FlattenAppend
    <2>5. FlattenSeq(u) \in Seq(C)
      BY <2>1, FlattenType
    <2> DEFINE x == FlattenSeq(s)
               y == FlattenSeq(u)
    <2>6. (x \o y) \o c = x \o (y \o c)
      <3> HIDE DEF x, y
      <3>1. x \in Seq(C) /\ y \in Seq(C)
        BY <1>0, <2>5 DEF x, y
      <3>2. c \in Seq(C)
        OBVIOUS
      <3> QED BY <1>a, <3>1, <3>2, Zenon
    <2>7. FlattenSeq(s \o Append(u, c)) = FlattenSeq(s) \o FlattenSeq(Append(u, c))
      BY <2>1, <2>2, <2>3, <2>4, <2>6, Zenon
    <2> QED BY <2>2, <2>7 DEF G
  <1>3. G \in SUBSET Seq(X)
    OBVIOUS
  <1>4. Seq(X) = G
    <2> HIDE DEF G, X
    <2> QED BY <1>1, <1>2, <1>3, SeqInduct
  <1> QED BY <1>4

\* No two elements of a sequence are the same.
Distinct(s) == \A x, y \in DOMAIN s : s[x] = s[y] => x = y

\* A concatenation has no element twice if neither part has and they share none.
LEMMA ConcatDistinct ==
  ASSUME NEW C, NEW s \in Seq(C), NEW t \in Seq(C)
  PROVE  Distinct(s \o t) <=> Distinct(s) /\ Distinct(t) /\ Range(s) \cap Range(t) = {}
  <1> DEFINE w == s \o t
             m == Len(s)
             n == Len(t)
  <1>1. /\ w \in Seq(C) /\ m \in Nat /\ n \in Nat /\ Len(w) = m + n
        /\ DOMAIN w = 1 .. m + n /\ DOMAIN s = 1 .. m /\ DOMAIN t = 1 .. n
        /\ \A k \in 1 .. m + n : w[k] = IF k <= m THEN s[k] ELSE t[k - m]
    BY ConcatProperties, LenProperties
  <1> HIDE DEF w, m, n
  <1>2. /\ \A k \in 1 .. m : k \in DOMAIN w /\ w[k] = s[k]
        /\ \A k \in 1 .. n : k + m \in DOMAIN w /\ w[k + m] = t[k] /\ ~(k + m <= m)
    <2>1. \A k \in 1 .. n : k + m \in 1 .. m + n /\ ~(k + m <= m) /\ (k + m) - m = k
      BY <1>1
    <2>2. \A k \in 1 .. m : k \in 1 .. m + n /\ k <= m
      BY <1>1
    <2> QED BY <1>1, <2>1, <2>2
  <1>3. ASSUME Distinct(w) PROVE Distinct(s) /\ Distinct(t) /\ Range(s) \cap Range(t) = {}
    <2>1. Distinct(s)
      BY <1>1, <1>2, <1>3 DEF Distinct
    <2>2. Distinct(t)
      <3>1. ASSUME NEW x \in 1 .. n, NEW y \in 1 .. n, t[x] = t[y] PROVE x = y
        <4>1. x + m = y + m
          BY <1>2, <1>3, <3>1 DEF Distinct
        <4> QED BY <1>1, <4>1
      <3> QED BY <1>1, <3>1 DEF Distinct
    <2>3. ASSUME NEW x \in 1 .. m, NEW y \in 1 .. n, s[x] = t[y] PROVE FALSE
      <3>1. x = y + m
        BY <1>2, <1>3, <2>3 DEF Distinct
      <3> QED BY <1>1, <1>2, <3>1
    <2> QED BY <1>1, <2>1, <2>2, <2>3 DEF Range
  <1>4. ASSUME Distinct(s), Distinct(t), Range(s) \cap Range(t) = {} PROVE Distinct(w)
    <2>1. \A x \in 1 .. m, y \in 1 .. n : s[x] # t[y]
      BY <1>1, <1>4 DEF Range
    <2>2. ASSUME NEW x \in 1 .. m + n, NEW y \in 1 .. m + n, w[x] = w[y] PROVE x = y
      <3>1. \A k \in 1 .. m + n : k \in 1 .. m \/ (~(k <= m) /\ k - m \in 1 .. n)
        BY <1>1
      <3>2. CASE x \in 1 .. m /\ y \in 1 .. m
        BY <1>1, <1>2, <1>4, <2>2, <3>2 DEF Distinct
      <3>3. CASE ~(x <= m) /\ x - m \in 1 .. n /\ ~(y <= m) /\ y - m \in 1 .. n
        <4>1. t[x - m] = t[y - m]
          BY <1>1, <2>2, <3>3
        <4>2. x - m = y - m
          BY <1>1, <1>4, <3>3, <4>1 DEF Distinct
        <4> QED BY <1>1, <4>2
      <3>4. CASE x \in 1 .. m /\ ~(y <= m) /\ y - m \in 1 .. n
        BY <1>1, <1>2, <2>1, <2>2, <3>4
      <3>5. CASE y \in 1 .. m /\ ~(x <= m) /\ x - m \in 1 .. n
        BY <1>1, <1>2, <2>1, <2>2, <3>5
      <3> QED BY <3>1, <3>2, <3>3, <3>4, <3>5
    <2> QED BY <1>1, <2>2 DEF Distinct
  <1> QED BY <1>3, <1>4 DEF w

\* What the sequences of s hold, and that nothing occurs twice in them.
Parted(s) ==
    /\ \A k \in DOMAIN s : Distinct(s[k])
    /\ \A k, h \in DOMAIN s : k # h => Range(s[k]) \cap Range(s[h]) = {}

\* One more sequence.
LEMMA PartedAppend ==
  ASSUME NEW C, NEW s \in Seq(Seq(C)), NEW c \in Seq(C)
  PROVE  Parted(Append(s, c)) <=> /\ Parted(s) /\ Distinct(c)
                                  /\ \A k \in DOMAIN s : Range(s[k]) \cap Range(c) = {}
  <1> DEFINE t == Append(s, c)
             n == Len(s)
  <1>1. /\ n \in Nat /\ DOMAIN s = 1 .. n /\ DOMAIN t = 1 .. n + 1 /\ t[n + 1] = c
        /\ \A k \in 1 .. n : t[k] = s[k]
    BY AppendIdx
  <1> HIDE DEF t, n
  <1>2. /\ \A k \in 1 .. n : k \in 1 .. n + 1 /\ k # n + 1
        /\ n + 1 \in 1 .. n + 1
        /\ \A k \in 1 .. n + 1 : k \in 1 .. n \/ k = n + 1
    BY <1>1
  <1>3. ASSUME Parted(t) PROVE Parted(s) /\ Distinct(c) /\ \A k \in DOMAIN s : Range(s[k]) \cap Range(c) = {}
    BY <1>1, <1>2, <1>3 DEF Parted
  <1>4. ASSUME Parted(s), Distinct(c), \A k \in DOMAIN s : Range(s[k]) \cap Range(c) = {} PROVE Parted(t)
    <2>1. \A k \in 1 .. n + 1 : Distinct(t[k])
      BY <1>1, <1>2, <1>4 DEF Parted
    <2>2. ASSUME NEW k \in 1 .. n + 1, NEW h \in 1 .. n + 1, k # h PROVE Range(t[k]) \cap Range(t[h]) = {}
      BY <1>1, <1>2, <1>4, <2>2 DEF Parted
    <2> QED BY <1>1, <2>1, <2>2 DEF Parted
  <1> QED BY <1>3, <1>4 DEF t

Holds(s) == UNION {Range(s[k]) : k \in DOMAIN s}

\* One more sequence.
LEMMA HoldsAppend ==
  ASSUME NEW C, NEW s \in Seq(C), NEW c \in C
  PROVE  Holds(Append(s, c)) = Holds(s) \cup Range(c)
  <1> DEFINE t == Append(s, c)
             n == Len(s)
  <1>1. /\ n \in Nat /\ DOMAIN s = 1 .. n /\ DOMAIN t = 1 .. n + 1 /\ t[n + 1] = c
        /\ \A k \in 1 .. n : t[k] = s[k]
    BY AppendIdx
  <1> HIDE DEF t, n
  <1>2. /\ \A k \in 1 .. n : k \in 1 .. n + 1
        /\ n + 1 \in 1 .. n + 1
        /\ \A k \in 1 .. n + 1 : k \in 1 .. n \/ k = n + 1
    BY <1>1
  <1>3. ASSUME NEW x PROVE x \in Holds(t) <=> x \in Holds(s) \/ x \in Range(c)
    BY <1>1, <1>2 DEF Holds
  <1> QED BY <1>3 DEF t

\* The concatenation holds what the sequences hold, nothing twice unless they do.
LEMMA FlattenHolds ==
  ASSUME NEW C, NEW s \in Seq(Seq(C))
  PROVE  Range(FlattenSeq(s)) = Holds(s) /\ (Distinct(FlattenSeq(s)) <=> Parted(s))
  <1> DEFINE X == Seq(C)
             Good(u) == Range(FlattenSeq(u)) = Holds(u) /\ (Distinct(FlattenSeq(u)) <=> Parted(u))
             G == {u \in Seq(X) : Good(u)}
  <1>1. << >> \in G
    <2>1. << >> \in Seq(X) /\ DOMAIN << >> = {}
      BY EmptySeq
    <2>2. FlattenSeq(<< >>) = << >>
      BY FlattenNone
    <2>3. Range(<< >>) = {} /\ Holds(<< >>) = {} /\ Distinct(<< >>) /\ Parted(<< >>)
      BY <2>1 DEF Range, Holds, Distinct, Parted
    <2> QED BY <2>1, <2>2, <2>3
  <1>2. ASSUME NEW u \in G, NEW c \in X PROVE Append(u, c) \in G
    <2> DEFINE y == FlattenSeq(u)
    <2>1. u \in Seq(Seq(C)) /\ c \in Seq(C) /\ Append(u, c) \in Seq(X)
      BY AppendProperties
    <2>2. Range(y) = Holds(u) /\ (Distinct(y) <=> Parted(u))
      OBVIOUS
    <2> HIDE DEF G
    <2>3. FlattenSeq(Append(u, c)) = y \o c
      BY <2>1, FlattenAppend
    <2>4. y \in Seq(C)
      BY <2>1, FlattenType
    <2> HIDE DEF y
    <2>5. Range(y \o c) = Range(y) \cup Range(c)
      BY <2>1, <2>4, RangeConcatenation
    <2>6. Distinct(y \o c) <=> Distinct(y) /\ Distinct(c) /\ Range(y) \cap Range(c) = {}
      BY <2>1, <2>4, ConcatDistinct
    <2>7. Holds(Append(u, c)) = Holds(u) \cup Range(c)
      BY <2>1, HoldsAppend
    <2>8. Parted(Append(u, c)) <=> Parted(u) /\ Distinct(c) /\ \A k \in DOMAIN u : Range(u[k]) \cap Range(c) = {}
      BY <2>1, PartedAppend
    <2>9. (\A k \in DOMAIN u : Range(u[k]) \cap Range(c) = {}) <=> Holds(u) \cap Range(c) = {}
      BY DEF Holds
    <2>10. Good(Append(u, c))
      BY <2>2, <2>3, <2>5, <2>6, <2>7, <2>8, <2>9
    <2> QED BY <2>1, <2>10 DEF G
  <1>3. G \in SUBSET Seq(X)
    OBVIOUS
  <1>4. Seq(X) = G
    <2> HIDE DEF G, X
    <2> QED BY <1>1, <1>2, <1>3, SeqInduct
  <1> QED BY <1>4

-----------------------------------------------------------------------------
(* A run of a sequence *)

\* Concatenating all but the last, and the last.
LEMMA FlattenLast ==
  ASSUME NEW C, NEW k \in Nat, NEW f \in [1 .. k + 1 -> Seq(C)]
  PROVE  FlattenSeq(f) = FlattenSeq([n \in 1 .. k |-> f[n]]) \o f[k + 1]
  <1> DEFINE g == [n \in 1 .. k |-> f[n]]
             h == Append(g, f[k + 1])
             X == Seq(C)
  <1>1. f[k + 1] \in X /\ \A n \in 1 .. k : n \in 1 .. k + 1 /\ f[n] \in X
    OBVIOUS
  <1>2. g \in [1 .. k -> X] /\ (\A n \in 1 .. k : g[n] = f[n]) /\ k + 1 \in Nat
    BY <1>1
  <1> HIDE DEF g
  <1>3. g \in Seq(X) /\ Len(g) = k
    BY <1>2, FunctionIsSequence
  <1>4. f \in Seq(X) /\ Len(f) = k + 1
    BY <1>2, FunctionIsSequence
  <1>5. h \in Seq(X) /\ Len(h) = k + 1 /\ h[k + 1] = f[k + 1] /\ \A n \in 1 .. k : h[n] = g[n]
    BY <1>1, <1>3, AppendIdx
  <1> HIDE DEF h
  <1>6. \A n \in 1 .. k + 1 : n \in 1 .. k \/ n = k + 1
    OBVIOUS
  <1>7. \A n \in 1 .. k + 1 : h[n] = f[n]
    BY <1>2, <1>5, <1>6
  <1>8. f = h
    BY <1>4, <1>5, <1>7, SeqEqual
  <1>9. FlattenSeq(Append(g, f[k + 1])) = FlattenSeq(g) \o f[k + 1]
    BY <1>1, <1>3, FlattenAppend
  <1> QED BY <1>8, <1>9 DEF g, h

\* Concatenating the first, and the others.
LEMMA FlattenFirst ==
  ASSUME NEW C, NEW k \in Nat, NEW f \in [1 .. k + 1 -> Seq(C)]
  PROVE  FlattenSeq(f) = f[1] \o FlattenSeq([n \in 1 .. k |-> f[n + 1]])
  <1> DEFINE g == [n \in 1 .. k |-> f[n + 1]]
             X == Seq(C)
  <1>1. f[1] \in X /\ \A n \in 1 .. k : n + 1 \in 1 .. k + 1 /\ f[n + 1] \in X
    OBVIOUS
  <1>2. g \in [1 .. k -> X] /\ (\A n \in 1 .. k : g[n] = f[n + 1]) /\ k + 1 \in Nat
    BY <1>1
  <1> HIDE DEF g
  <1>3. g \in Seq(X) /\ Len(g) = k
    BY <1>2, FunctionIsSequence
  <1>4. f \in Seq(X) /\ Len(f) = k + 1
    BY <1>2, FunctionIsSequence
  <1>5. f # << >>
    BY <1>4, EmptySeq
  <1>6. Head(f) = f[1] /\ Tail(f) \in Seq(X) /\ Len(Tail(f)) = k /\ \A n \in 1 .. k : Tail(f)[n] = f[n + 1]
    BY <1>4, <1>5, TailIdx
  <1>7. \A n \in 1 .. k : Tail(f)[n] = g[n]
    BY <1>2, <1>6
  <1>8. Tail(f) = g
    BY <1>3, <1>6, <1>7, SeqEqual
  <1>9. FlattenSeq(f) = Head(f) \o FlattenSeq(Tail(f))
    BY <1>4, <1>5, FlattenHead
  <1> QED BY <1>6, <1>8, <1>9 DEF g

-----------------------------------------------------------------------------
(* The line of a connection: r is what is on its way, w what was sent to the
   destination, of which the connection began with number l + 1 and has handed over
   everything up to number m. *)

Line(r, full, w, l, m) ==
    /\ l \in Nat /\ m \in Nat /\ l <= m /\ l < Len(w) /\ m + Len(r) <= Len(w)
    /\ \A j \in 1 .. Len(r) : r[j] = w[m + j]
    /\ full => m + Len(r) = Len(w)

\* Something is sent that this line does not carry.
LEMMA LineMore ==
  ASSUME NEW X, NEW r \in Seq(X), NEW w \in Seq(X), NEW l, NEW m, NEW g \in X, NEW f, Line(r, f, w, l, m)
  PROVE  Line(r, FALSE, Append(w, g), l, m)
  <1> DEFINE v == Append(w, g)
  <1>1. Len(w) \in Nat /\ Len(v) = Len(w) + 1 /\ (\A k \in 1 .. Len(w) : v[k] = w[k]) /\ Len(r) \in Nat
    BY AppendIdx, LenProperties
  <1> HIDE DEF v
  <1>2. /\ l \in Nat /\ m \in Nat /\ l <= m /\ l < Len(w) /\ m + Len(r) <= Len(w)
        /\ \A j \in 1 .. Len(r) : r[j] = w[m + j]
    BY DEF Line
  <1>3. \A j \in 1 .. Len(r) : m + j \in 1 .. Len(w)
    BY <1>1, <1>2
  <1>4. l < Len(v) /\ m + Len(r) <= Len(v)
    BY <1>1, <1>2
  <1>5. \A j \in 1 .. Len(r) : r[j] = v[m + j]
    BY <1>1, <1>2, <1>3
  <1>6. Line(r, FALSE, v, l, m)
    BY <1>2, <1>4, <1>5 DEF Line
  <1> QED BY <1>6 DEF v

\* Something is put at the end of a line that has everything since its begin.
LEMMA LinePut ==
  ASSUME NEW X, NEW r \in Seq(X), NEW w \in Seq(X), NEW l, NEW m, NEW g \in X, Line(r, TRUE, w, l, m)
  PROVE  Line(Append(r, g), TRUE, Append(w, g), l, m)
  <1> DEFINE v == Append(w, g)
             s == Append(r, g)
  <1>1. /\ Len(w) \in Nat /\ Len(v) = Len(w) + 1 /\ v[Len(w) + 1] = g /\ \A k \in 1 .. Len(w) : v[k] = w[k]
    BY AppendIdx
  <1>2. /\ Len(r) \in Nat /\ Len(s) = Len(r) + 1 /\ s[Len(r) + 1] = g /\ \A k \in 1 .. Len(r) : s[k] = r[k]
    BY AppendIdx
  <1> HIDE DEF v, s
  <1>3. /\ l \in Nat /\ m \in Nat /\ l <= m /\ l < Len(w) /\ m + Len(r) = Len(w)
        /\ \A j \in 1 .. Len(r) : r[j] = w[m + j]
    BY DEF Line
  <1>4. \A j \in 1 .. Len(r) : m + j \in 1 .. Len(w)
    BY <1>1, <1>2, <1>3
  <1>5. l < Len(v) /\ m + Len(s) = Len(v) /\ m + Len(s) <= Len(v) /\ m + (Len(r) + 1) = Len(w) + 1
    BY <1>1, <1>2, <1>3
  <1>6. \A j \in 1 .. Len(s) : j \in 1 .. Len(r) \/ j = Len(r) + 1
    BY <1>2
  <1>7. \A j \in 1 .. Len(s) : s[j] = v[m + j]
    BY <1>1, <1>2, <1>3, <1>4, <1>5, <1>6
  <1>8. Line(s, TRUE, v, l, m)
    BY <1>3, <1>5, <1>7 DEF Line
  <1> QED BY <1>8 DEF s, v

\* A new line, with what is sent now or with nothing.
LEMMA LineNew ==
  ASSUME NEW X, NEW w \in Seq(X), NEW g \in X, NEW full
  PROVE  /\ Line(<<g>>, full, Append(w, g), Len(w), Len(w))
         /\ Line(<< >>, FALSE, Append(w, g), Len(w), Len(w))
  <1> DEFINE v == Append(w, g)
             n == Len(w)
  <1>1. n \in Nat /\ Len(v) = n + 1 /\ v[n + 1] = g
    BY AppendIdx
  <1> HIDE DEF v, n
  <1>2. Len(<<g>>) = 1 /\ <<g>>[1] = g /\ Len(<< >>) = 0
    OBVIOUS
  <1>3. n <= n /\ n < Len(v) /\ n + 1 <= Len(v) /\ n + 0 <= Len(v) /\ n + 1 = Len(v)
    BY <1>1
  <1>4. \A j \in 1 .. 1 : <<g>>[j] = v[n + j]
    BY <1>1, <1>2
  <1>5. Line(<<g>>, full, v, n, n)
    BY <1>1, <1>2, <1>3, <1>4 DEF Line
  <1>6. Line(<< >>, FALSE, v, n, n)
    BY <1>1, <1>2, <1>3 DEF Line
  <1> QED BY <1>5, <1>6 DEF v, n

\* The end of a line is lost: it carries nothing any more that is sent later.
LEMMA LineCut ==
  ASSUME NEW X, NEW r \in Seq(X), NEW t \in Seq(X), NEW w \in Seq(X), NEW l, NEW m, NEW full,
         Line(r \o t, full, w, l, m)
  PROVE  Line(r, FALSE, w, l, m) /\ Len(r) <= Len(r \o t)
  <1> DEFINE v == r \o t
  <1>1. /\ Len(r) \in Nat /\ Len(t) \in Nat /\ Len(w) \in Nat /\ Len(v) = Len(r) + Len(t)
        /\ \A k \in 1 .. Len(r) + Len(t) : v[k] = IF k <= Len(r) THEN r[k] ELSE t[k - Len(r)]
    BY ConcatProperties, LenProperties
  <1>2. Line(v, full, w, l, m)
    OBVIOUS
  <1> HIDE DEF v
  <1>3. \A k \in 1 .. Len(r) : k \in 1 .. Len(v) /\ v[k] = r[k]
    BY <1>1
  <1>4. /\ l \in Nat /\ m \in Nat /\ l <= m /\ l < Len(w) /\ m + Len(v) <= Len(w)
        /\ \A j \in 1 .. Len(v) : v[j] = w[m + j]
    BY <1>2 DEF Line
  <1>5. m + Len(r) <= Len(w) /\ Len(r) <= Len(v)
    BY <1>1, <1>4
  <1>6. Line(r, FALSE, w, l, m)
    BY <1>3, <1>4, <1>5 DEF Line
  <1> QED BY <1>5, <1>6 DEF v

\* The first of a line arrives.
LEMMA LineNext ==
  ASSUME NEW X, NEW g \in X, NEW r \in Seq(X), NEW w \in Seq(X), NEW l, NEW m, NEW full \in BOOLEAN,
         Line(<<g>> \o r, full, w, l, m)
  PROVE  /\ Line(r, full, w, l, m + 1) /\ m + 1 \in 1 .. Len(w) /\ g = w[m + 1]
         /\ (m + 1) + Len(r) = m + Len(<<g>> \o r)
  <1> DEFINE v == <<g>> \o r
  <1>1. /\ Len(r) \in Nat /\ Len(w) \in Nat /\ Len(v) = Len(r) + 1 /\ v[1] = g
        /\ \A k \in 1 .. Len(r) : v[k + 1] = r[k]
    <2>1. <<g>> \in Seq(X) /\ Len(<<g>>) = 1 /\ <<g>>[1] = g
      OBVIOUS
    <2>2. Len(v) = 1 + Len(r) /\ \A k \in 1 .. 1 + Len(r) : v[k] = IF k <= 1 THEN <<g>>[k] ELSE r[k - 1]
      BY <2>1, ConcatProperties
    <2>3. Len(r) \in Nat /\ Len(w) \in Nat
      BY LenProperties
    <2> HIDE DEF v
    <2>4. \A k \in 1 .. Len(r) : k + 1 \in 1 .. 1 + Len(r) /\ ~(k + 1 <= 1) /\ (k + 1) - 1 = k
      BY <2>3
    <2>5. 1 \in 1 .. 1 + Len(r)
      BY <2>3
    <2>6. v[1] = g
      <3>1. v[1] = IF 1 <= 1 THEN <<g>>[1] ELSE r[1 - 1]
        BY <2>2, <2>5
      <3> QED BY <2>1, <3>1
    <2>7. \A k \in 1 .. Len(r) : v[k + 1] = r[k]
      BY <2>2, <2>4
    <2>8. Len(v) = Len(r) + 1
      BY <2>2, <2>3
    <2> QED BY <2>3, <2>6, <2>7, <2>8
  <1>2. Line(v, full, w, l, m)
    OBVIOUS
  <1> HIDE DEF v
  <1>3. /\ l \in Nat /\ m \in Nat /\ l <= m /\ l < Len(w) /\ m + Len(v) <= Len(w)
        /\ (\A j \in 1 .. Len(v) : v[j] = w[m + j]) /\ (full => m + Len(v) = Len(w))
    BY <1>2 DEF Line
  <1>4. /\ m + 1 \in Nat /\ l <= m + 1 /\ (m + 1) + Len(r) = m + Len(v) /\ m + 1 \in 1 .. Len(w)
        /\ 1 \in 1 .. Len(v)
        /\ \A k \in 1 .. Len(r) : k + 1 \in 1 .. Len(v) /\ m + (k + 1) = (m + 1) + k
    BY <1>1, <1>3
  <1>5. \A k \in 1 .. Len(r) : r[k] = w[(m + 1) + k]
    BY <1>1, <1>3, <1>4
  <1>6. Line(r, full, w, l, m + 1)
    BY <1>3, <1>4, <1>5 DEF Line
  <1> QED BY <1>1, <1>3, <1>4, <1>6 DEF v

-----------------------------------------------------------------------------
(* Runs of a sequence *)

\* A run does not change when the sequence grows.
LEMMA PartGrow ==
  ASSUME NEW X, NEW w \in Seq(X), NEW g \in X, NEW l \in Nat, NEW m \in Nat, m <= Len(w)
  PROVE  SubSeq(Append(w, g), l + 1, m) = SubSeq(w, l + 1, m)
  <1> DEFINE v == Append(w, g)
             a == l + 1
             x == SubSeq(v, a, m)
             y == SubSeq(w, a, m)
  <1>1. Len(w) \in Nat /\ (\A k \in 1 .. Len(w) : v[k] = w[k] /\ w[k] \in X) /\ a \in Int /\ m \in Int
    BY AppendIdx, ElementOfSeq
  <1> HIDE DEF v
  <1>2. \A k \in a .. m : k \in 1 .. Len(w)
    BY <1>1
  <1>3. \A k \in a .. m : v[k] = w[k] /\ v[k] \in X /\ w[k] \in X
    BY <1>1, <1>2
  <1> HIDE DEF a
  <1>4. /\ x \in Seq(X) /\ Len(x) = (IF a <= m THEN m - a + 1 ELSE 0)
        /\ \A k \in 1 .. m - a + 1 : x[k] = v[a + k - 1]
    BY <1>1, <1>3, SubSeqProperties
  <1>5. /\ y \in Seq(X) /\ Len(y) = (IF a <= m THEN m - a + 1 ELSE 0)
        /\ \A k \in 1 .. m - a + 1 : y[k] = w[a + k - 1]
    BY <1>1, <1>3, SubSeqProperties
  <1> HIDE DEF x, y
  <1>6. \A k \in 1 .. m - a + 1 : a + k - 1 \in a .. m
    BY <1>1
  <1>7. \A k \in 1 .. Len(x) : k \in 1 .. m - a + 1
    BY <1>1, <1>4
  <1>8. \A k \in 1 .. Len(x) : x[k] = y[k]
    BY <1>3, <1>4, <1>5, <1>6, <1>7
  <1>9. x = y
    BY <1>4, <1>5, <1>8, SeqEqual
  <1> QED BY <1>9 DEF x, y, v, a

\* A run that is longer by one.
LEMMA PartNext ==
  ASSUME NEW X, NEW w \in Seq(X), NEW l \in Nat, NEW m \in Nat, l <= m, m < Len(w)
  PROVE  SubSeq(w, l + 1, m + 1) = Append(SubSeq(w, l + 1, m), w[m + 1]) /\ SubSeq(w, l + 1, m) \in Seq(X)
  <1>1. Len(w) \in Nat /\ (\A k \in 1 .. Len(w) : w[k] \in X)
    BY LenProperties, ElementOfSeq
  <1>2. l + 1 \in 1 .. Len(w) /\ m + 1 \in l + 1 .. Len(w) /\ (m + 1) - 1 = m /\ l + 1 \in Int /\ m \in Int
    BY <1>1
  <1>3. \A k \in l + 1 .. m : w[k] \in X
    BY <1>1
  <1>4. w[m + 1] \in X
    BY <1>1
  <1>5. SubSeq(w, l + 1, m) \in Seq(X)
    BY <1>2, <1>3, SubSeqProperties
  <1>6. SubSeq(w, l + 1, m + 1) = SubSeq(w, l + 1, (m + 1) - 1) \o <<w[m + 1]>>
    BY <1>2, SubSeqRecursiveSecond
  <1>7. SubSeq(w, l + 1, m + 1) = SubSeq(w, l + 1, m) \o <<w[m + 1]>>
    BY <1>2, <1>6
  <1> DEFINE x == SubSeq(w, l + 1, m)
  <1>8. Append(x, w[m + 1]) = x \o <<w[m + 1]>>
    <2> HIDE DEF x
    <2>1. x \in Seq(X)
      BY <1>5 DEF x
    <2> QED BY <1>4, <2>1, AppendIsConcat
  <1> QED BY <1>5, <1>7, <1>8

\* What is handed over is a run of what was sent.
LEMMA PartRun ==
  ASSUME NEW C, NEW w \in Seq(Seq(C)), NEW z \in Seq(C), NEW l \in Nat, NEW m \in Nat, l <= m, m <= Len(w)
  PROVE  \E a, d \in Seq(C) : /\ FlattenSeq(w) \o z = (a \o FlattenSeq(SubSeq(w, l + 1, m))) \o d
                              /\ FlattenSeq(SubSeq(w, l + 1, m)) \in Seq(C)
  <1> DEFINE X == Seq(C)
             n == Len(w)
             p == SubSeq(w, 1, l)
             q == SubSeq(w, l + 1, m)
             r == SubSeq(w, m + 1, n)
             u == SubSeq(w, 1, m)
  <1>1. n \in Nat /\ (\A k \in 1 .. n : w[k] \in X) /\ l \in Int /\ m \in Int /\ n \in Int /\ l + 1 \in Int /\ m + 1 \in Int
    BY LenProperties, ElementOfSeq
  <1>2. /\ \A k \in 1 .. l : k \in 1 .. n
        /\ \A k \in l + 1 .. m : k \in 1 .. n
        /\ \A k \in m + 1 .. n : k \in 1 .. n
    BY <1>1
  <1>3. p \in Seq(X) /\ q \in Seq(X) /\ r \in Seq(X)
    <2> HIDE DEF X
    <2>1. p \in Seq(X)
      BY <1>1, <1>2, SubSeqProperties
    <2>2. q \in Seq(X)
      BY <1>1, <1>2, SubSeqProperties
    <2>3. r \in Seq(X)
      BY <1>1, <1>2, SubSeqProperties
    <2> QED BY <2>1, <2>2, <2>3
  <1>4. p \o q = u
    <2>1. 1 \in 1 .. n + 1 /\ l \in 1 - 1 .. n /\ m \in l .. n
      BY <1>1
    <2> HIDE DEF X, n
    <2> QED BY <2>1, ConcatAdjacentSubSeq DEF X, n
  <1>5. u \o r = w
    <2>1. 1 \in 1 .. n + 1 /\ m \in 1 - 1 .. n /\ n \in m .. n
      BY <1>1
    <2>2. SubSeq(w, 1, n) = w
      BY SubSeqFull
    <2>3. SubSeq(w, 1, m) \o SubSeq(w, m + 1, n) = SubSeq(w, 1, n)
      BY <2>1, ConcatAdjacentSubSeq
    <2> QED BY <2>2, <2>3
  <1> HIDE DEF p, q, r, u
  <1>6. u \in Seq(X)
    BY <1>3, <1>4, ConcatProperties
  <1> DEFINE P == FlattenSeq(p)
             Q == FlattenSeq(q)
             R == FlattenSeq(r)
  <1>7. FlattenSeq(u) = P \o Q
    BY <1>3, <1>4, FlattenConcat
  <1>8. FlattenSeq(w) = FlattenSeq(u) \o R
    BY <1>3, <1>5, <1>6, FlattenConcat
  <1>9. P \in Seq(C) /\ Q \in Seq(C) /\ R \in Seq(C)
    BY <1>3, FlattenType
  <1> HIDE DEF P, Q, R
  <1>10. FlattenSeq(w) \o z = ((P \o Q) \o R) \o z
    BY <1>7, <1>8
  <1>11. P \o Q \in Seq(C) /\ R \o z \in Seq(C)
    BY <1>9, ConcatProperties
  <1> DEFINE Y == P \o Q
  <1>12. (Y \o R) \o z = Y \o (R \o z)
    <2>1. Y \in Seq(C)
      BY <1>11
    <2> HIDE DEF Y
    <2>2. \A j, k, o \in Seq(C) : (j \o k) \o o = j \o (k \o o)
      BY ConcatAssoc
    <2> QED BY <1>9, <2>1, <2>2, Zenon
  <1>13. FlattenSeq(w) \o z = (P \o Q) \o (R \o z)
    BY <1>10, <1>12
  <1>14. Q = FlattenSeq(SubSeq(w, l + 1, m))
    BY DEF Q, q
  <1> QED BY <1>9, <1>11, <1>13, <1>14

\* The middle of three parts is a prefix of what begins there.
LEMMA RunIsPrefix ==
  ASSUME NEW C, NEW a \in Seq(C), NEW t \in Seq(C), NEW d \in Seq(C)
  PROVE  /\ Len(a) \in 0 .. Len((a \o t) \o d)
         /\ IsPrefix(t, SubSeq((a \o t) \o d, Len(a) + 1, Len((a \o t) \o d)))
  <1> DEFINE s == (a \o t) \o d
             u == t \o d
             v == Len(a) + 1
             n == Len(s)
             x == SubSeq(s, v, n)
  <1>1. Len(a) \in Nat /\ Len(t) \in Nat /\ Len(d) \in Nat
    BY LenProperties
  <1>2. /\ u \in Seq(C) /\ Len(u) = Len(t) + Len(d)
        /\ \A k \in 1 .. Len(t) + Len(d) : u[k] = IF k <= Len(t) THEN t[k] ELSE d[k - Len(t)]
    BY ConcatProperties
  <1>3. s = a \o u
    BY ConcatSame
  <1> HIDE DEF u
  <1>4. /\ a \o u \in Seq(C) /\ Len(a \o u) = Len(a) + Len(u)
        /\ \A k \in 1 .. Len(a) + Len(u) : (a \o u)[k] = IF k <= Len(a) THEN a[k] ELSE u[k - Len(a)]
    <2>1. u \in Seq(C)
      BY <1>2
    <2> QED BY <2>1, ConcatProperties
  <1> HIDE DEF s
  <1>5. /\ s \in Seq(C) /\ n = Len(a) + Len(u)
        /\ \A k \in 1 .. Len(a) + Len(u) : s[k] = IF k <= Len(a) THEN a[k] ELSE u[k - Len(a)]
    BY <1>3, <1>4
  <1>6. \A k \in 1 .. n : s[k] \in C
    BY <1>5, ElementOfSeq
  <1> HIDE DEF n
  <1>7. v \in Int /\ n \in Int /\ n - v + 1 = Len(u) /\ \A k \in v .. n : k \in 1 .. n
    BY <1>1, <1>2, <1>5
  <1>8. \A k \in 1 .. Len(u) : v + k - 1 \in 1 .. Len(a) + Len(u) /\ ~(v + k - 1 <= Len(a)) /\ (v + k - 1) - Len(a) = k
    BY <1>1, <1>2
  <1>9. v <= n \/ Len(u) = 0
    BY <1>1, <1>2, <1>5
  <1>10. Len(a) \in 0 .. n
    BY <1>1, <1>2, <1>5
  <1> HIDE DEF v
  <1>11. \A k \in v .. n : s[k] \in C
    BY <1>6, <1>7
  <1>12. /\ x \in Seq(C) /\ Len(x) = (IF v <= n THEN n - v + 1 ELSE 0)
         /\ \A k \in 1 .. n - v + 1 : x[k] = s[v + k - 1]
    BY <1>7, <1>11, SubSeqProperties
  <1> HIDE DEF x
  <1>13. Len(x) = Len(u)
    BY <1>1, <1>2, <1>7, <1>9, <1>12
  <1>14. \A k \in 1 .. Len(u) : x[k] = u[k]
    BY <1>5, <1>7, <1>8, <1>12
  <1>15. Len(t) <= Len(x)
    BY <1>1, <1>2, <1>13
  <1>16. \A k \in 1 .. Len(t) : x[k] = t[k]
    <2>1. \A k \in 1 .. Len(t) : k \in 1 .. Len(u) /\ k \in 1 .. Len(t) + Len(d) /\ k <= Len(t)
      BY <1>1, <1>2
    <2> QED BY <1>2, <1>14, <2>1
  <1>17. SubSeq(t, 1, Len(t)) = t
    BY SubSeqFull
  <1>18. SubSeq(x, 1, Len(t)) = t
    <2> DEFINE m == Len(t)
               z == SubSeq(x, 1, m)
    <2>1. \A k \in 1 .. m : x[k] \in C
      BY <1>16, ElementOfSeq
    <2>2. 1 \in Int /\ m \in Int /\ m \in Nat /\ m - 1 + 1 = m /\ \A k \in 1 .. m : 1 + k - 1 = k
      BY <1>1
    <2>3. \A k \in 1 .. m : t[k] = x[k]
      BY <1>16
    <2>4. Len(t) = m
      OBVIOUS
    <2> HIDE DEF m
    <2>5. z \in Seq(C) /\ Len(z) = (IF 1 <= m THEN m - 1 + 1 ELSE 0) /\ \A k \in 1 .. m - 1 + 1 : z[k] = x[1 + k - 1]
      BY <2>1, <2>2, SubSeqProperties
    <2> HIDE DEF z
    <2>6. Len(z) = m /\ \A k \in 1 .. m : z[k] = t[k]
      BY <2>2, <2>3, <2>5
    <2>7. z = t
      BY <2>4, <2>5, <2>6, SeqEqual
    <2> QED BY <2>4, <2>7 DEF z
  <1>19. IsPrefix(t, x)
    BY <1>15, <1>17, <1>18 DEF IsPrefix
  <1> QED BY <1>10, <1>19 DEF x, s, n, v

-----------------------------------------------------------------------------
(* The transport: what is sent *)

LEMMA NetFlatten == \A s : Net!FlattenSeq(s) = FlattenSeq(s)
  BY Zenon DEF Net!FlattenSeq, FlattenSeq

Msg == [to : Peers, no : Nat]

LEMMA NetConstants ==
  /\ Self \in Peers /\ Peers \subseteq Nat /\ Net!Cardinality(Peers) \in Nat
  /\ Peers = 0 .. Net!Cardinality(Peers) - 1 /\ Batches \in Seq(Seq(Msg))
  /\ \A n, o \in DOMAIN Batches : \A x \in DOMAIN Batches[n], y \in DOMAIN Batches[o] :
        Batches[n][x] = Batches[o][y] => n = o /\ x = y
  <1>1. /\ Self \in Peers /\ Peers = 0 .. Net!Cardinality(Peers) - 1 /\ Batches \in Seq(Seq(Msg))
        /\ \A n, o \in DOMAIN Batches : \A x \in DOMAIN Batches[n], y \in DOMAIN Batches[o] :
              Batches[n][x] = Batches[o][y] => n = o /\ x = y
    BY PartsAssumption DEF Net!TransportAssumption, Msg
  <1>2. IsFiniteSet(Peers)
    BY PartsAssumption DEF Net!TransportAssumption, Net!IsFiniteSet, IsFiniteSet
  <1>3. Net!Cardinality(Peers) = Cardinality(Peers)
    BY Zenon DEF Net!Cardinality, Cardinality, Net!IsFiniteSet, IsFiniteSet
  <1>4. Net!Cardinality(Peers) \in Nat
    BY <1>2, <1>3, FS_CardinalityType
  <1>5. Peers \subseteq Nat
    BY <1>1, <1>4
  <1> QED BY <1>1, <1>4, <1>5

PickedOf(m, p) == IF m.to = p THEN <<m>> ELSE << >>
Picked(s, p) == [x \in DOMAIN s |-> PickedOf(s[x], p)]

LEMMA ToIs == \A s, p : Net!To(s, p) = FlattenSeq(Picked(s, p))
  BY NetFlatten DEF Net!To, Picked, PickedOf

LEMMA PickedOfFacts ==
  ASSUME NEW X, NEW m \in X, NEW p
  PROVE  /\ PickedOf(m, p) \in Seq(X) /\ Distinct(PickedOf(m, p))
         /\ \A x \in Range(PickedOf(m, p)) : x = m /\ m.to = p
  <1>1. CASE m.to = p
    <2>1. PickedOf(m, p) = <<m>> /\ <<m>> \in Seq(X) /\ DOMAIN <<m>> = {1} /\ <<m>>[1] = m
      BY <1>1 DEF PickedOf
    <2> QED BY <1>1, <2>1 DEF Range, Distinct
  <1>2. CASE m.to # p
    <2>1. PickedOf(m, p) = << >> /\ << >> \in Seq(X) /\ DOMAIN << >> = {}
      BY <1>2 DEF PickedOf
    <2> QED BY <2>1 DEF Range, Distinct
  <1> QED BY <1>1, <1>2

\* To returns the messages for p, in their order.
LEMMA ToFacts ==
  ASSUME NEW X, NEW s \in Seq(X), NEW p
  PROVE  /\ Net!To(s, p) \in Seq(X)
         /\ \A x \in Range(Net!To(s, p)) : x.to = p /\ x \in Range(s)
         /\ Distinct(s) => Distinct(Net!To(s, p))
  <1> DEFINE f == Picked(s, p)
             L == Len(s)
             Y == Seq(X)
  <1>1. L \in Nat /\ DOMAIN s = 1 .. L /\ \A k \in 1 .. L : s[k] \in X
    BY LenProperties, ElementOfSeq
  <1>2. f \in [1 .. L -> Y] /\ \A k \in 1 .. L : f[k] = PickedOf(s[k], p)
    BY <1>1, PickedOfFacts DEF Picked
  <1>3. \A k \in 1 .. L : Distinct(f[k]) /\ \A x \in Range(f[k]) : x = s[k] /\ s[k].to = p
    <2>1. \A k \in 1 .. L : Distinct(PickedOf(s[k], p)) /\ \A x \in Range(PickedOf(s[k], p)) : x = s[k] /\ s[k].to = p
      BY <1>1, PickedOfFacts
    <2> QED BY <1>2, <2>1
  <1> HIDE DEF f, L
  <1>4. f \in Seq(Y) /\ Len(f) = L
    BY <1>1, <1>2, FunctionIsSequence
  <1>5. DOMAIN f = 1 .. L
    BY <1>2
  <1>6. FlattenSeq(f) \in Seq(X)
    BY <1>4, FlattenType
  <1>7. Range(FlattenSeq(f)) = Holds(f) /\ (Distinct(FlattenSeq(f)) <=> Parted(f))
    BY <1>4, FlattenHolds
  <1>8. ASSUME NEW x \in Holds(f) PROVE x.to = p /\ x \in Range(s)
    <2>1. PICK k \in 1 .. L : x \in Range(f[k])
      BY <1>5 DEF Holds
    <2> QED BY <1>1, <1>3, <2>1 DEF Range
  <1>9. ASSUME Distinct(s) PROVE Parted(f)
    <2>1. ASSUME NEW k \in 1 .. L, NEW h \in 1 .. L, k # h PROVE Range(f[k]) \cap Range(f[h]) = {}
      <3>1. s[k] # s[h]
        BY <1>1, <1>9, <2>1 DEF Distinct
      <3> QED BY <1>3, <3>1
    <2> QED BY <1>3, <1>5, <2>1 DEF Parted
  <1>10. Net!To(s, p) = FlattenSeq(f)
    BY ToIs DEF f
  <1> QED BY <1>6, <1>7, <1>8, <1>9, <1>10

\* The messages for p of the first c batches.
Pass(c, p) == FlattenSeq([n \in 1 .. c |-> Net!To(Batches[n], p)])

LEMMA PassZero == \A p : Pass(0, p) = << >>
  <1> TAKE p
  <1>1. [n \in 1 .. 0 |-> Net!To(Batches[n], p)] = << >>
    OBVIOUS
  <1> QED BY <1>1, FlattenNone DEF Pass

LEMMA PassFacts ==
  ASSUME NEW c \in 0 .. Len(Batches), NEW p
  PROVE  Pass(c, p) \in Seq(Msg) /\ Distinct(Pass(c, p))
  <1> DEFINE f == [n \in 1 .. c |-> Net!To(Batches[n], p)]
             X == Seq(Msg)
  <1>1. Len(Batches) \in Nat /\ DOMAIN Batches = 1 .. Len(Batches) /\ \A n \in 1 .. Len(Batches) : Batches[n] \in X
    BY NetConstants, LenProperties, ElementOfSeq
  <1>2. c \in Nat /\ \A n \in 1 .. c : n \in 1 .. Len(Batches)
    BY <1>1
  <1>3. ASSUME NEW n \in 1 .. c
        PROVE  /\ Net!To(Batches[n], p) \in X /\ Distinct(Net!To(Batches[n], p))
               /\ \A x \in Range(Net!To(Batches[n], p)) : x \in Range(Batches[n])
    <2>1. Batches[n] \in Seq(Msg) /\ n \in DOMAIN Batches
      BY <1>1, <1>2
    <2>2. Distinct(Batches[n])
      BY <2>1, NetConstants DEF Distinct
    <2> QED BY <2>1, <2>2, ToFacts
  <1>4. f \in [1 .. c -> X] /\ \A n \in 1 .. c : f[n] = Net!To(Batches[n], p)
    BY <1>3
  <1> HIDE DEF f
  <1>5. f \in Seq(X) /\ Len(f) = c /\ DOMAIN f = 1 .. c
    BY <1>2, <1>4, FunctionIsSequence
  <1>6. Parted(f)
    <2>1. \A n \in 1 .. c : Distinct(f[n]) /\ \A x \in Range(f[n]) : x \in Range(Batches[n])
      BY <1>3, <1>4
    <2>2. ASSUME NEW k \in 1 .. c, NEW h \in 1 .. c, k # h PROVE Range(f[k]) \cap Range(f[h]) = {}
      <3>1. k \in DOMAIN Batches /\ h \in DOMAIN Batches
        BY <1>1, <1>2
      <3>2. Range(Batches[k]) \cap Range(Batches[h]) = {}
        BY <2>2, <3>1, NetConstants DEF Range
      <3> QED BY <2>1, <3>2
    <2> QED BY <1>5, <2>1, <2>2 DEF Parted
  <1>7. FlattenSeq(f) \in Seq(Msg) /\ Distinct(FlattenSeq(f))
    BY <1>5, <1>6, FlattenType, FlattenHolds
  <1> QED BY <1>7 DEF Pass, f

\* What is passed to Send grows by the messages of one batch.
LEMMA PassNext ==
  ASSUME NEW c \in Nat, c < Len(Batches), NEW p
  PROVE  Pass(c + 1, p) = Pass(c, p) \o Net!To(Batches[c + 1], p)
  <1> DEFINE f == [n \in 1 .. c + 1 |-> Net!To(Batches[n], p)]
             e == [n \in 1 .. c |-> f[n]]
             X == Seq(Msg)
  <1>1. Len(Batches) \in Nat /\ \A n \in 1 .. Len(Batches) : Batches[n] \in X
    BY NetConstants, LenProperties, ElementOfSeq
  <1>2. \A n \in 1 .. c + 1 : n \in 1 .. Len(Batches)
    BY <1>1
  <1>3. \A n \in 1 .. c + 1 : Net!To(Batches[n], p) \in X
    <2>1. \A n \in 1 .. c + 1 : Batches[n] \in Seq(Msg)
      BY <1>1, <1>2
    <2> QED BY <2>1, ToFacts
  <1>4. f \in [1 .. c + 1 -> X] /\ (\A n \in 1 .. c + 1 : f[n] = Net!To(Batches[n], p))
    BY <1>3
  <1>5. c + 1 \in 1 .. c + 1 /\ \A n \in 1 .. c : n \in 1 .. c + 1
    OBVIOUS
  <1> HIDE DEF f
  <1>6. e = [n \in 1 .. c |-> Net!To(Batches[n], p)]
    BY <1>4, <1>5
  <1>7. FlattenSeq(f) = FlattenSeq(e) \o f[c + 1]
    BY <1>4, FlattenLast
  <1> HIDE DEF e
  <1>8. Pass(c + 1, p) = FlattenSeq(f) /\ Pass(c, p) = FlattenSeq(e)
    BY <1>6 DEF Pass, f
  <1>9. f[c + 1] = Net!To(Batches[c + 1], p)
    BY <1>4, <1>5
  <1> QED BY <1>7, <1>8, <1>9

\* What the groups in td hold for p.
BoundOf(g, p) == IF g[1].to = p THEN g ELSE << >>
Bound(td, p) == FlattenSeq([n \in DOMAIN td |-> BoundOf(td[n], p)])

LEMMA BoundType ==
  ASSUME NEW X, NEW td \in Seq(Seq(X)), NEW p
  PROVE  /\ Bound(td, p) \in Seq(X) /\ Len(td) \in Nat /\ DOMAIN td = 1 .. Len(td)
         /\ [n \in DOMAIN td |-> BoundOf(td[n], p)] \in [1 .. Len(td) -> Seq(X)]
  <1> DEFINE f == [n \in DOMAIN td |-> BoundOf(td[n], p)]
             L == Len(td)
             Y == Seq(X)
  <1>1. L \in Nat /\ DOMAIN td = 1 .. L /\ \A k \in 1 .. L : td[k] \in Y
    BY LenProperties, ElementOfSeq
  <1>2. << >> \in Y
    BY EmptySeq
  <1>3. f \in [1 .. L -> Y]
    BY <1>1, <1>2 DEF BoundOf
  <1> HIDE DEF f, L
  <1>4. f \in Seq(Y)
    BY <1>1, <1>3, FunctionIsSequence
  <1>5. FlattenSeq(f) \in Seq(X)
    BY <1>4, FlattenType
  <1> QED BY <1>1, <1>3, <1>5 DEF Bound, f, L

LEMMA BoundNone == \A p : Bound(<< >>, p) = << >>
  <1> TAKE p
  <1>1. [n \in DOMAIN << >> |-> BoundOf(<< >>[n], p)] = << >>
    OBVIOUS
  <1> QED BY <1>1, FlattenNone DEF Bound

LEMMA BoundAppend ==
  ASSUME NEW X, NEW td \in Seq(Seq(X)), NEW g \in Seq(X), NEW p
  PROVE  Bound(Append(td, g), p) = Bound(td, p) \o BoundOf(g, p)
  <1> DEFINE t == Append(td, g)
             L == Len(td)
             f == [n \in DOMAIN t |-> BoundOf(t[n], p)]
             e == [n \in 1 .. L |-> f[n]]
  <1>1. /\ t \in Seq(Seq(X)) /\ L \in Nat /\ Len(t) = L + 1 /\ DOMAIN td = 1 .. L /\ DOMAIN t = 1 .. L + 1
        /\ t[L + 1] = g /\ \A k \in 1 .. L : t[k] = td[k]
    BY AppendIdx
  <1> HIDE DEF t
  <1>2. f \in [1 .. L + 1 -> Seq(X)]
    BY <1>1, BoundType
  <1> HIDE DEF L
  <1>3. FlattenSeq(f) = FlattenSeq(e) \o f[L + 1]
    <2> HIDE DEF f
    <2> QED BY <1>1, <1>2, FlattenLast
  <1>4. L + 1 \in 1 .. L + 1 /\ \A k \in 1 .. L : k \in 1 .. L + 1
    BY <1>1
  <1>5. f[L + 1] = BoundOf(g, p)
    BY <1>1, <1>4
  <1>6. e = [n \in DOMAIN td |-> BoundOf(td[n], p)]
    BY <1>1, <1>4
  <1> HIDE DEF e, f
  <1>7. Bound(td, p) = FlattenSeq(e)
    BY <1>6 DEF Bound
  <1>8. Bound(t, p) = FlattenSeq(f)
    BY DEF Bound, f
  <1> QED BY <1>3, <1>5, <1>7, <1>8 DEF t

\* The first of the groups still to send.
LEMMA BoundHead ==
  ASSUME NEW X, NEW td \in Seq(Seq(X)), td # << >>, NEW p
  PROVE  Bound(td, p) = BoundOf(Head(td), p) \o Bound(Tail(td), p)
  <1> DEFINE t == Tail(td)
             L == Len(t)
             f == [n \in DOMAIN td |-> BoundOf(td[n], p)]
             e == [n \in 1 .. L |-> f[n + 1]]
  <1>1. /\ t \in Seq(Seq(X)) /\ L \in Nat /\ Len(td) = L + 1 /\ DOMAIN td = 1 .. L + 1 /\ DOMAIN t = 1 .. L
        /\ Head(td) = td[1] /\ \A k \in 1 .. L : t[k] = td[k + 1]
    BY TailIdx
  <1>2. f \in [1 .. L + 1 -> Seq(X)]
    BY <1>1, BoundType
  <1> HIDE DEF L, t
  <1>3. FlattenSeq(f) = f[1] \o FlattenSeq(e)
    <2> HIDE DEF f
    <2> QED BY <1>1, <1>2, FlattenFirst
  <1>4. 1 \in 1 .. L + 1 /\ \A k \in 1 .. L : k + 1 \in 1 .. L + 1
    BY <1>1
  <1>5. f[1] = BoundOf(Head(td), p)
    BY <1>1, <1>4
  <1>6. e = [n \in DOMAIN t |-> BoundOf(t[n], p)]
    BY <1>1, <1>4
  <1> HIDE DEF e, f
  <1>7. Bound(t, p) = FlattenSeq(e)
    BY <1>6 DEF Bound
  <1>8. Bound(td, p) = FlattenSeq(f)
    BY DEF Bound, f
  <1> QED BY <1>3, <1>5, <1>7, <1>8 DEF t

\* A nonempty group begins with a message for the peer it is for.
LEMMA ToFirst ==
  ASSUME NEW X, NEW s \in Seq(X), NEW p, Net!To(s, p) # << >>
  PROVE  Net!To(s, p) \in Seq(X) /\ Net!To(s, p)[1].to = p
  <1> DEFINE g == Net!To(s, p)
  <1>1. g \in Seq(X) /\ \A x \in Range(g) : x.to = p
    BY ToFacts
  <1> HIDE DEF g
  <1>2. g # << >>
    BY DEF g
  <1>3. 1 \in DOMAIN g
    BY <1>1, <1>2, LenProperties, EmptySeq
  <1> QED BY <1>1, <1>3 DEF Range, g

\* What Send makes of a batch, by the number of the destination plus 1.
GroupOf(s, n) == IF Net!To(s, n - 1) = << >> THEN << >> ELSE <<Net!To(s, n - 1)>>
GroupsTo(s, c) == FlattenSeq([n \in 1 .. c |-> GroupOf(s, n)])

LEMMA GroupsIs == \A s : Net!Groups(s) = GroupsTo(s, Net!Cardinality(Peers))
  BY NetFlatten DEF Net!Groups, GroupsTo, GroupOf

LEMMA GroupsToNext ==
  ASSUME NEW X, NEW s \in Seq(X), NEW c \in Nat
  PROVE  GroupsTo(s, c + 1) = GroupsTo(s, c) \o GroupOf(s, c + 1) /\ GroupOf(s, c + 1) \in Seq(Seq(X))
  <1> DEFINE f == [n \in 1 .. c + 1 |-> GroupOf(s, n)]
             e == [n \in 1 .. c |-> f[n]]
             Y == Seq(X)
             Z == Seq(Y)
  <1>1. ASSUME NEW n PROVE GroupOf(s, n) \in Z
    <2>1. Net!To(s, n - 1) \in Y
      BY ToFacts
    <2>2. << >> \in Z /\ <<Net!To(s, n - 1)>> \in Z
      BY <2>1, EmptySeq
    <2> QED BY <2>2 DEF GroupOf
  <1>2. f \in [1 .. c + 1 -> Z] /\ \A n \in 1 .. c + 1 : f[n] = GroupOf(s, n)
    BY <1>1
  <1>3. c + 1 \in 1 .. c + 1 /\ \A n \in 1 .. c : n \in 1 .. c + 1
    OBVIOUS
  <1> HIDE DEF f
  <1>4. e = [n \in 1 .. c |-> GroupOf(s, n)]
    BY <1>2, <1>3
  <1>5. FlattenSeq(f) = FlattenSeq(e) \o f[c + 1]
    BY <1>2, FlattenLast
  <1> HIDE DEF e
  <1>6. GroupsTo(s, c + 1) = FlattenSeq(f) /\ GroupsTo(s, c) = FlattenSeq(e)
    BY <1>4 DEF GroupsTo, f
  <1>7. f[c + 1] = GroupOf(s, c + 1)
    BY <1>2, <1>3
  <1>8. GroupsTo(s, c + 1) = GroupsTo(s, c) \o GroupOf(s, c + 1)
    BY <1>5, <1>6, <1>7
  <1> QED BY <1>1, <1>8

\* The groups of the destinations below c.
GroupsGood(X, s, c) ==
    /\ GroupsTo(s, c) \in Seq(Seq(X)) /\ \A k \in DOMAIN GroupsTo(s, c) : GroupsTo(s, c)[k] # << >>
    /\ \A p \in Nat : Bound(GroupsTo(s, c), p) = IF p < c THEN Net!To(s, p) ELSE << >>

\* By induction over the destinations.
LEMMA GroupsToFacts ==
  ASSUME NEW X, NEW s \in Seq(X), NEW c \in Nat
  PROVE  GroupsGood(X, s, c)
  <1> DEFINE Bad == {n \in Nat : ~GroupsGood(X, s, n)}
  <1>1. SUFFICES ASSUME Bad # {} PROVE FALSE
    OBVIOUS
  <1>2. PICK n \in Bad : \A h \in Bad : n <= h
    <2>1. Bad \in SUBSET Nat
      OBVIOUS
    <2> HIDE DEF Bad
    <2> QED BY <1>1, <2>1, LeastNumber
  <1>3. n \in Nat /\ ~GroupsGood(X, s, n)
    OBVIOUS
  <1>4. CASE n = 0
    <2>1. [k \in 1 .. 0 |-> GroupOf(s, k)] = << >>
      OBVIOUS
    <2>2. GroupsTo(s, 0) = << >>
      BY <2>1, FlattenNone DEF GroupsTo
    <2>3. << >> \in Seq(Seq(X)) /\ DOMAIN << >> = {}
      OBVIOUS
    <2>4. \A p \in Nat : ~(p < 0) /\ Bound(<< >>, p) = << >>
      BY BoundNone
    <2>5. GroupsGood(X, s, 0)
      BY <2>2, <2>3, <2>4 DEF GroupsGood
    <2> QED BY <1>3, <1>4, <2>5
  <1>5. CASE n # 0
    <2> DEFINE m == n - 1
               t == GroupsTo(s, m)
               u == GroupsTo(s, n)
               g == Net!To(s, m)
    <2>1. m \in Nat /\ ~(n <= m) /\ n = m + 1
      BY <1>3, <1>5
    <2>2. GroupsGood(X, s, m)
      <3>1. m \notin Bad
        <4> HIDE DEF Bad, m
        <4> QED BY <1>2, <2>1
      <3> HIDE DEF m
      <3> QED BY <2>1, <3>1
    <2>3. u = t \o GroupOf(s, n) /\ n - 1 = m
      <3> HIDE DEF m
      <3> QED BY <2>1, GroupsToNext
    <2>4. /\ t \in Seq(Seq(X)) /\ (\A k \in DOMAIN t : t[k] # << >>)
          /\ \A p \in Nat : Bound(t, p) = IF p < m THEN Net!To(s, p) ELSE << >>
      BY <2>2 DEF GroupsGood
    <2>5. g \in Seq(X)
      BY ToFacts
    <2>6. GroupOf(s, n) = IF g = << >> THEN << >> ELSE <<g>>
      BY <2>3 DEF GroupOf
    <2>7. \A p \in Nat : (p < n <=> p < m \/ p = m) /\ ~(m < m)
      BY <2>1
    <2>8. g # << >> => g[1].to = m
      BY ToFirst
    <2> HIDE DEF t, u, m
    <2>9. CASE g = << >>
      <3>1. u = t
        BY <2>3, <2>4, <2>6, <2>9, ConcatEmptySeq
      <3>2. \A p \in Nat : Bound(u, p) = IF p < n THEN Net!To(s, p) ELSE << >>
        BY <2>4, <2>7, <2>9, <3>1
      <3>3. GroupsGood(X, s, n)
        BY <2>4, <3>1, <3>2 DEF GroupsGood, u
      <3> QED BY <1>3, <3>3
    <2>10. CASE g # << >>
      <3> HIDE DEF g
      <3>1. u = Append(t, g)
        <4>1. Append(t, g) = t \o <<g>>
          BY <2>4, <2>5, AppendIsConcat
        <4> QED BY <2>3, <2>6, <2>10, <4>1
      <3>2. /\ Append(t, g) \in Seq(Seq(X)) /\ Len(t) \in Nat /\ DOMAIN Append(t, g) = 1 .. Len(t) + 1
            /\ DOMAIN t = 1 .. Len(t) /\ Append(t, g)[Len(t) + 1] = g
            /\ \A k \in 1 .. Len(t) : Append(t, g)[k] = t[k]
        BY <2>4, <2>5, AppendIdx
      <3>3. \A k \in 1 .. Len(t) + 1 : k \in 1 .. Len(t) \/ k = Len(t) + 1
        BY <3>2
      <3>4. \A k \in DOMAIN u : u[k] # << >>
        BY <2>4, <2>10, <3>1, <3>2, <3>3
      <3>5. ASSUME NEW p \in Nat PROVE Bound(u, p) = IF p < n THEN Net!To(s, p) ELSE << >>
        <4>1. Bound(u, p) = Bound(t, p) \o BoundOf(g, p)
          BY <2>4, <2>5, <3>1, BoundAppend
        <4>2. BoundOf(g, p) = IF p = m THEN g ELSE << >>
          BY <2>8, <2>10 DEF BoundOf
        <4>3. Bound(t, p) = IF p < m THEN Net!To(s, p) ELSE << >>
          BY <2>4
        <4>4. CASE p = m
          <5>1. Bound(t, p) = << >> /\ BoundOf(g, p) = g /\ p < n
            BY <2>7, <4>2, <4>3, <4>4
          <5>2. << >> \o g = g
            BY <2>5, ConcatEmptySeq
          <5>3. Bound(u, p) = g
            BY <4>1, <5>1, <5>2
          <5> QED BY <4>4, <5>1, <5>3 DEF g
        <4>5. CASE p # m
          <5>1. BoundOf(g, p) = << >> /\ (p < n <=> p < m)
            BY <2>7, <4>2, <4>5
          <5>2. Bound(t, p) \in Seq(X)
            BY <2>4, BoundType
          <5>3. Bound(t, p) \o << >> = Bound(t, p)
            BY <5>2, ConcatEmptySeq
          <5>4. Bound(u, p) = Bound(t, p)
            BY <4>1, <5>1, <5>3
          <5> QED BY <4>3, <5>1, <5>4
        <4> QED BY <4>4, <4>5
      <3>6. GroupsGood(X, s, n)
        BY <3>1, <3>2, <3>4, <3>5 DEF GroupsGood, u
      <3> QED BY <1>3, <3>6
    <2> QED BY <2>9, <2>10
  <1> QED BY <1>4, <1>5

\* Send makes groups that together hold the messages of every destination.
LEMMA GroupsFacts ==
  ASSUME NEW s \in Seq(Msg)
  PROVE  /\ Net!Groups(s) \in Seq(Seq(Msg)) /\ \A k \in DOMAIN Net!Groups(s) : Net!Groups(s)[k] # << >>
         /\ \A p \in Peers : Bound(Net!Groups(s), p) = Net!To(s, p)
  <1> DEFINE c == Net!Cardinality(Peers)
  <1>1. c \in Nat /\ \A p \in Peers : p \in Nat /\ p < c
    BY NetConstants
  <1> HIDE DEF c
  <1>2. GroupsGood(Msg, s, c)
    BY <1>1, GroupsToFacts
  <1>3. Net!Groups(s) = GroupsTo(s, c)
    BY GroupsIs DEF c
  <1> QED BY <1>1, <1>2, <1>3 DEF GroupsGood

-----------------------------------------------------------------------------
(* The transport: what is handled *)

Pkt == [conn : Nat, group : Seq(Msg)]

ThrOf(e, k) == IF e.conn = k THEN e.group ELSE << >>
Thr(s, k) == FlattenSeq([n \in DOMAIN s |-> ThrOf(s[n], k)])

LEMMA ThroughIs == \A p, k : Net!Through(p, k) = Thr(received[p], k)
  BY NetFlatten DEF Net!Through, Thr, ThrOf

LEMMA ThrType ==
  ASSUME NEW s \in Seq(Pkt), NEW k
  PROVE  /\ Thr(s, k) \in Seq(Msg) /\ Len(s) \in Nat /\ DOMAIN s = 1 .. Len(s)
         /\ [n \in DOMAIN s |-> ThrOf(s[n], k)] \in [1 .. Len(s) -> Seq(Msg)]
  <1> DEFINE f == [n \in DOMAIN s |-> ThrOf(s[n], k)]
             L == Len(s)
             Y == Seq(Msg)
  <1>1. L \in Nat /\ DOMAIN s = 1 .. L /\ \A n \in 1 .. L : s[n] \in Pkt
    BY LenProperties, ElementOfSeq
  <1>2. << >> \in Y
    BY EmptySeq
  <1>3. \A n \in 1 .. L : s[n].group \in Y
    BY <1>1 DEF Pkt
  <1>4. f \in [1 .. L -> Y]
    BY <1>1, <1>2, <1>3 DEF ThrOf
  <1> HIDE DEF f, L
  <1>5. f \in Seq(Y)
    BY <1>1, <1>4, FunctionIsSequence
  <1>6. FlattenSeq(f) \in Seq(Msg)
    BY <1>5, FlattenType
  <1> QED BY <1>1, <1>4, <1>6 DEF Thr, f, L

\* What came through a connection when one more group is handled.
LEMMA ThrAppend ==
  ASSUME NEW s \in Seq(Pkt), NEW x \in Pkt, NEW k
  PROVE  Thr(Append(s, x), k) = Thr(s, k) \o ThrOf(x, k)
  <1> DEFINE t == Append(s, x)
             L == Len(s)
             f == [n \in DOMAIN t |-> ThrOf(t[n], k)]
             e == [n \in 1 .. L |-> f[n]]
  <1>1. /\ t \in Seq(Pkt) /\ L \in Nat /\ Len(t) = L + 1 /\ DOMAIN s = 1 .. L /\ DOMAIN t = 1 .. L + 1
        /\ t[L + 1] = x /\ \A n \in 1 .. L : t[n] = s[n]
    BY AppendIdx
  <1> HIDE DEF t
  <1>2. f \in [1 .. L + 1 -> Seq(Msg)]
    BY <1>1, ThrType
  <1> HIDE DEF L
  <1>3. FlattenSeq(f) = FlattenSeq(e) \o f[L + 1]
    <2> HIDE DEF f
    <2> QED BY <1>1, <1>2, FlattenLast
  <1>4. L + 1 \in 1 .. L + 1 /\ \A n \in 1 .. L : n \in 1 .. L + 1
    BY <1>1
  <1>5. f[L + 1] = ThrOf(x, k)
    BY <1>1, <1>4
  <1>6. e = [n \in DOMAIN s |-> ThrOf(s[n], k)]
    BY <1>1, <1>4
  <1> HIDE DEF e, f
  <1>7. Thr(s, k) = FlattenSeq(e)
    BY <1>6 DEF Thr
  <1>8. Thr(t, k) = FlattenSeq(f)
    BY DEF Thr, f
  <1> QED BY <1>3, <1>5, <1>7, <1>8 DEF t

\* Nothing came through a connection that no group names.
LEMMA ThrNone ==
  ASSUME NEW s \in Seq(Pkt), NEW k, \A n \in 1 .. Len(s) : s[n].conn # k
  PROVE  Thr(s, k) = << >>
  <1> DEFINE f == [n \in DOMAIN s |-> ThrOf(s[n], k)]
             Y == Seq(Msg)
  <1>1. f \in [1 .. Len(s) -> Y] /\ Len(s) \in Nat /\ DOMAIN s = 1 .. Len(s)
    BY ThrType
  <1>2. \A n \in DOMAIN f : f[n] = << >>
    BY <1>1 DEF ThrOf
  <1> HIDE DEF f
  <1>3. f \in Seq(Y)
    BY <1>1, FunctionIsSequence
  <1>4. Range(FlattenSeq(f)) = Holds(f)
    BY <1>3, FlattenHolds
  <1>5. Range(<< >>) = {}
    BY DEF Range
  <1>6. Holds(f) = {}
    BY <1>2, <1>5 DEF Holds
  <1>7. FlattenSeq(f) \in Seq(Msg)
    BY <1>3, FlattenType
  <1> DEFINE z == FlattenSeq(f)
  <1>8. z \in Seq(Msg) /\ Range(z) = {}
    BY <1>4, <1>6, <1>7
  <1> HIDE DEF z
  <1>9. z = << >>
    <2>1. Len(z) \in Nat /\ DOMAIN z = 1 .. Len(z)
      BY <1>8, LenProperties
    <2>2. ~(1 \in DOMAIN z)
      BY <1>8 DEF Range
    <2>3. Len(z) = 0
      BY <2>1, <2>2
    <2> QED BY <1>8, <2>3, EmptySeq
  <1> QED BY <1>9 DEF z, Thr, f

-----------------------------------------------------------------------------
(* The transport: its invariant *)

Conn == [to : Peers \ {Self}, buf : Seq(Seq(Msg)), open : BOOLEAN, pc : {"dial", "send", "return", "gone"},
         alive : BOOLEAN, stream : Seq(Seq(Msg)), handler : Seq(Seq(Msg))]

NetTypes ==
    /\ calls \in 0 .. Len(Batches)
    /\ todo \in Seq(Seq(Msg)) /\ \A n \in DOMAIN todo : todo[n] # << >>
    /\ conns \in Seq(Conn) /\ chosen \in Nat /\ clientBufs \in [Peers -> Nat]
    /\ received \in [Peers -> Seq(Pkt)] /\ cancelled \in BOOLEAN

\* Before Close, every connection whose sender has not returned is the one that the map
\* has for its destination; after it, no sender writes to a stream.
ConnOk(k, c, cb, can) ==
    /\ Len(c.handler) <= 1
    /\ can => ~(c.alive /\ c.pc = "send")
    /\ ~can => c.open /\ (c.pc # "gone" => cb[c.to] = k)

NetShape ==
    /\ clientBufs[Self] = 0
    /\ \A p \in Peers : clientBufs[p] # 0 => clientBufs[p] \in DOMAIN conns /\ conns[clientBufs[p]].to = p
    /\ chosen # 0 => chosen \in DOMAIN conns /\ todo # << >> /\ conns[chosen].to = Head(todo)[1].to
    /\ (closing = "no") <=> ~cancelled
    /\ \A k \in DOMAIN conns : ConnOk(k, conns[k], clientBufs, cancelled)
    /\ ~cancelled /\ chosen # 0 => clientBufs[conns[chosen].to] \in {0, chosen}

\* What connection c will write to its stream still gets there unless the stream breaks.
Flows(c, can) == c.alive /\ c.pc \in {"dial", "send"} /\ ~can

Rest(c, can) == c.handler \o c.stream \o (IF Flows(c, can) THEN c.buf ELSE << >>)

\* W[p] are the groups that sendAsync was called with for p.  The connections carry
\* runs of them that do not overlap, the one that still grows the last of them.
LinesOk(cs, can, W, lo, mid) ==
    /\ lo \in [DOMAIN cs -> Nat] /\ mid \in [DOMAIN cs -> Nat]
    /\ \A k \in DOMAIN cs : Line(Rest(cs[k], can), Flows(cs[k], can), W[cs[k].to], lo[k], mid[k])
    /\ \A k, h \in DOMAIN cs : k # h /\ cs[k].to = cs[h].to =>
          mid[k] + Len(Rest(cs[k], can)) <= lo[h] \/ mid[h] + Len(Rest(cs[h], can)) <= lo[k]

\* Entry n of received[p] is group pos[p][n] of W[p].
PlacedOk(s, w, po) ==
    /\ po \in Seq(Nat) /\ Len(po) = Len(s) /\ Distinct(po)
    /\ \A n \in 1 .. Len(s) : po[n] \in 1 .. Len(w) /\ s[n].group = w[po[n]]

HandledOk(rc, cs, W, lo, mid, pos) ==
    /\ DOMAIN pos = Peers /\ \A p \in Peers : PlacedOk(rc[p], W[p], pos[p])
    /\ Len(rc[Self]) = Len(W[Self]) /\ \A n \in 1 .. Len(rc[Self]) : pos[Self][n] = n
    /\ \A p \in Peers \ {Self} : \A n \in 1 .. Len(rc[p]) :
          /\ rc[p][n].conn \in DOMAIN cs /\ cs[rc[p][n].conn].to = p
          /\ lo[rc[p][n].conn] < pos[p][n] /\ pos[p][n] <= mid[rc[p][n].conn]
    /\ \A k \in DOMAIN cs : Thr(rc[cs[k].to], k) = FlattenSeq(SubSeq(W[cs[k].to], lo[k] + 1, mid[k]))

SentOk(W, td, c) ==
    /\ W \in [Peers -> Seq(Seq(Msg))]
    /\ \A p \in Peers : FlattenSeq(W[p]) \o Bound(td, p) = Pass(c, p)

Tracks ==
    \E W, lo, mid, pos : /\ LinesOk(conns, cancelled, W, lo, mid)
                         /\ HandledOk(received, conns, W, lo, mid, pos)
                         /\ SentOk(W, todo, calls)

NetInv == NetTypes /\ NetShape /\ Tracks

-----------------------------------------------------------------------------
(* The transport: a step of a connection *)

LEMMA MsgsAssoc == \A j, k, l \in Seq(Msg) : (j \o k) \o l = j \o (k \o l)
  <1> DEFINE X == Msg
  <1> HIDE DEF X
  <1>1. \A j, k, l \in Seq(X) : (j \o k) \o l = j \o (k \o l)
    BY ConcatAssoc
  <1> QED BY <1>1 DEF X

LEMMA GroupsAssoc == \A j, k, l \in Seq(Seq(Msg)) : (j \o k) \o l = j \o (k \o l)
  <1> DEFINE X == Seq(Msg)
  <1> HIDE DEF X
  <1>1. \A j, k, l \in Seq(X) : (j \o k) \o l = j \o (k \o l)
    BY ConcatAssoc
  <1> QED BY <1>1 DEF X

LEMMA ConnFields ==
  ASSUME NEW c \in Conn
  PROVE  /\ c.to \in Peers /\ c.to # Self /\ c.buf \in Seq(Seq(Msg)) /\ c.stream \in Seq(Seq(Msg))
         /\ c.handler \in Seq(Seq(Msg)) /\ c.alive \in BOOLEAN /\ c.open \in BOOLEAN
         /\ c.pc \in {"dial", "send", "return", "gone"}
  BY DEF Conn

LEMMA RestType ==
  ASSUME NEW c \in Conn, NEW can
  PROVE  Rest(c, can) \in Seq(Seq(Msg)) /\ Len(Rest(c, can)) \in Nat /\ Flows(c, can) \in BOOLEAN
  <1> DEFINE X == Seq(Msg)
             z == IF Flows(c, can) THEN c.buf ELSE << >>
  <1>1. c.handler \in Seq(X) /\ c.stream \in Seq(X) /\ z \in Seq(X)
    BY ConnFields, EmptySeq
  <1> HIDE DEF X, z
  <1>2. c.handler \o c.stream \in Seq(X)
    BY <1>1, ConcatProperties
  <1>3. (c.handler \o c.stream) \o z \in Seq(X)
    BY <1>1, <1>2, ConcatProperties
  <1>4. Rest(c, can) \in Seq(X)
    BY <1>3 DEF Rest, z
  <1>5. Len(Rest(c, can)) \in Nat
    BY <1>4, LenProperties
  <1> QED BY <1>4, <1>5 DEF X, Flows

\* Connection c becomes d without a change of what was sent.
Moves(c, can, d, can2) ==
    /\ d.to = c.to
    /\ \A w \in Seq(Seq(Msg)), l, m \in Nat : Line(Rest(c, can), Flows(c, can), w, l, m) =>
          Line(Rest(d, can2), Flows(d, can2), w, l, m) /\ Len(Rest(d, can2)) <= Len(Rest(c, can))

\* What is on its way does not change.
LEMMA MovesSame ==
  ASSUME NEW c \in Conn, NEW d \in Conn, NEW can, NEW can2, d.to = c.to,
         Rest(d, can2) = Rest(c, can), Flows(d, can2) = Flows(c, can)
  PROVE  Moves(c, can, d, can2)
  <1>1. Len(Rest(c, can)) <= Len(Rest(c, can))
    BY RestType
  <1> QED BY <1>1 DEF Moves

\* The stream and the channel are lost.
LEMMA MovesCut ==
  ASSUME NEW c \in Conn, NEW d \in Conn, NEW can, NEW can2, d.to = c.to,
         d.handler = c.handler, d.stream = << >>, ~Flows(d, can2)
  PROVE  Moves(c, can, d, can2)
  <1> DEFINE X == Seq(Msg)
             z == IF Flows(c, can) THEN c.buf ELSE << >>
             r == c.handler
             t == c.stream \o z
  <1>1. r \in Seq(X) /\ c.stream \in Seq(X) /\ z \in Seq(X)
    BY ConnFields, EmptySeq
  <1>2. Rest(d, can2) = r
    <2>1. Rest(d, can2) = r \o << >> \o << >>
      BY DEF Rest
    <2>2. r \o << >> = r
      BY <1>1, ConcatEmptySeq
    <2> QED BY <2>1, <2>2
  <1> HIDE DEF z
  <1>3. t \in Seq(X) /\ Rest(c, can) = r \o t
    <2>1. t \in Seq(X)
      BY <1>1, ConcatProperties
    <2>2. \A j, k, l \in Seq(X) : (j \o k) \o l = j \o (k \o l)
      BY GroupsAssoc
    <2>3. (r \o c.stream) \o z = r \o t
      BY <1>1, <2>2
    <2> QED BY <2>1, <2>3 DEF Rest, z
  <1> HIDE DEF r, t
  <1>4. ASSUME NEW w \in Seq(X), NEW l \in Nat, NEW m \in Nat, Line(Rest(c, can), Flows(c, can), w, l, m)
        PROVE  Line(r, FALSE, w, l, m) /\ Len(r) <= Len(Rest(c, can))
    <2>1. Line(r \o t, Flows(c, can), w, l, m)
      BY <1>3, <1>4
    <2>2. r \in Seq(X) /\ t \in Seq(X)
      BY <1>1, <1>3
    <2>3. Line(r, FALSE, w, l, m) /\ Len(r) <= Len(r \o t)
      <3> HIDE DEF X
      <3> QED BY <2>1, <2>2, LineCut
    <2> QED BY <1>3, <2>3
  <1>5. Flows(d, can2) = FALSE
    BY RestType
  <1> QED BY <1>2, <1>4, <1>5 DEF Moves

\* The runs of the connections stay what they are.
LEMMA LinesMove ==
  ASSUME NEW cs \in Seq(Conn), NEW ds \in Seq(Conn), DOMAIN ds = DOMAIN cs, NEW can, NEW can2,
         NEW W \in [Peers -> Seq(Seq(Msg))], NEW lo, NEW mid, LinesOk(cs, can, W, lo, mid),
         \A k \in DOMAIN cs : Moves(cs[k], can, ds[k], can2)
  PROVE  LinesOk(ds, can2, W, lo, mid)
  <1>1. \A k \in DOMAIN cs : cs[k] \in Conn /\ ds[k] \in Conn
    BY LenProperties
  <1>2. \A k \in DOMAIN cs : cs[k].to \in Peers /\ lo[k] \in Nat /\ mid[k] \in Nat
    BY <1>1, ConnFields DEF LinesOk
  <1>3. ASSUME NEW k \in DOMAIN cs
        PROVE  /\ Line(Rest(ds[k], can2), Flows(ds[k], can2), W[ds[k].to], lo[k], mid[k]) /\ ds[k].to = cs[k].to
               /\ Len(Rest(ds[k], can2)) <= Len(Rest(cs[k], can))
    <2>1. Line(Rest(cs[k], can), Flows(cs[k], can), W[cs[k].to], lo[k], mid[k])
      BY DEF LinesOk
    <2>2. W[cs[k].to] \in Seq(Seq(Msg))
      BY <1>2
    <2>3. /\ ds[k].to = cs[k].to
          /\ \A w \in Seq(Seq(Msg)), l, m \in Nat : Line(Rest(cs[k], can), Flows(cs[k], can), w, l, m) =>
                Line(Rest(ds[k], can2), Flows(ds[k], can2), w, l, m) /\ Len(Rest(ds[k], can2)) <= Len(Rest(cs[k], can))
      BY DEF Moves
    <2>4. lo[k] \in Nat /\ mid[k] \in Nat
      BY <1>2
    <2> QED BY <2>1, <2>2, <2>3, <2>4, Zenon
  <1>4. \A k \in DOMAIN cs : Len(Rest(ds[k], can2)) \in Nat /\ Len(Rest(cs[k], can)) \in Nat
    BY <1>1, RestType
  <1>5. ASSUME NEW k \in DOMAIN cs, NEW h \in DOMAIN cs, k # h, ds[k].to = ds[h].to
        PROVE  mid[k] + Len(Rest(ds[k], can2)) <= lo[h] \/ mid[h] + Len(Rest(ds[h], can2)) <= lo[k]
    <2>1. mid[k] + Len(Rest(cs[k], can)) <= lo[h] \/ mid[h] + Len(Rest(cs[h], can)) <= lo[k]
      BY <1>3, <1>5 DEF LinesOk
    <2> DEFINE x == Len(Rest(cs[k], can))
               y == Len(Rest(cs[h], can))
               v == Len(Rest(ds[k], can2))
               u == Len(Rest(ds[h], can2))
    <2>2. /\ x \in Nat /\ y \in Nat /\ v \in Nat /\ u \in Nat /\ v <= x /\ u <= y
          /\ mid[k] \in Nat /\ mid[h] \in Nat /\ lo[k] \in Nat /\ lo[h] \in Nat
      BY <1>2, <1>3, <1>4
    <2>3. mid[k] + x <= lo[h] \/ mid[h] + y <= lo[k]
      BY <2>1
    <2>4. mid[k] + v <= lo[h] \/ mid[h] + u <= lo[k]
      <3> HIDE DEF x, y, v, u
      <3> QED BY <2>2, <2>3
    <2> QED BY <2>4
  <1> QED BY <1>3, <1>5 DEF LinesOk

LEMMA HandledMove ==
  ASSUME NEW cs, NEW ds, DOMAIN ds = DOMAIN cs, \A k \in DOMAIN cs : ds[k].to = cs[k].to,
         NEW rc, NEW W, NEW lo, NEW mid, NEW pos, HandledOk(rc, cs, W, lo, mid, pos)
  PROVE  HandledOk(rc, ds, W, lo, mid, pos)
  BY DEF HandledOk

\* A step of connections that neither sends nor handles.
LEMMA TracksMove ==
  ASSUME NetTypes, Tracks, conns' \in Seq(Conn), DOMAIN conns' = DOMAIN conns, UNCHANGED <<received, todo, calls>>,
         \A k \in DOMAIN conns : Moves(conns[k], cancelled, conns'[k], cancelled')
  PROVE  Tracks'
  <1>1. PICK W, lo, mid, pos : LinesOk(conns, cancelled, W, lo, mid) /\ HandledOk(received, conns, W, lo, mid, pos)
                               /\ SentOk(W, todo, calls)
    BY DEF Tracks
  <1>2. W \in [Peers -> Seq(Seq(Msg))] /\ conns \in Seq(Conn)
    BY <1>1 DEF SentOk, NetTypes
  <1>3. LinesOk(conns', cancelled', W, lo, mid)
    BY <1>1, <1>2, LinesMove
  <1>4. \A k \in DOMAIN conns : conns'[k].to = conns[k].to
    BY DEF Moves
  <1>5. HandledOk(received', conns', W, lo, mid, pos)
    BY <1>1, <1>4, HandledMove
  <1>6. SentOk(W, todo', calls')
    BY <1>1
  <1> QED BY <1>3, <1>5, <1>6 DEF Tracks

-----------------------------------------------------------------------------
(* The transport: a call of sendAsync *)

\* Connection c becomes d while g is sent to its destination.
Takes(c, can, d, can2, g) ==
    /\ d.to = c.to
    /\ \A w \in Seq(Seq(Msg)), l, m \in Nat : Line(Rest(c, can), Flows(c, can), w, l, m) =>
          /\ Line(Rest(d, can2), Flows(d, can2), Append(w, g), l, m)
          /\ \/ Len(Rest(d, can2)) <= Len(Rest(c, can))
             \/ Flows(c, can) /\ Len(Rest(d, can2)) = Len(Rest(c, can)) + 1

\* The group is not put into this connection, and it carries nothing more.
LEMMA TakesNot ==
  ASSUME NEW c \in Conn, NEW can, ~Flows(c, can), NEW d \in Conn, ~Flows(d, can), d.to = c.to,
         d.handler = c.handler, d.stream = c.stream, NEW g \in Seq(Msg)
  PROVE  Takes(c, can, d, can, g)
  <1>1. Rest(d, can) = Rest(c, can)
    BY DEF Rest
  <1>2. Rest(c, can) \in Seq(Seq(Msg)) /\ Len(Rest(c, can)) <= Len(Rest(c, can)) /\ Flows(d, can) = FALSE
    BY RestType
  <1> DEFINE r == Rest(c, can)
             X == Seq(Msg)
  <1>3. ASSUME NEW w \in Seq(X), NEW l \in Nat, NEW m \in Nat, Line(r, Flows(c, can), w, l, m)
        PROVE  Line(r, FALSE, Append(w, g), l, m)
    <2> HIDE DEF r, X
    <2>1. r \in Seq(X) /\ g \in X
      BY <1>2 DEF r, X
    <2> QED BY <1>3, <2>1, LineMore
  <1> QED BY <1>1, <1>2, <1>3 DEF Takes

\* The group is put into the channel of this connection.
LEMMA TakesPut ==
  ASSUME NEW c \in Conn, NEW can, Flows(c, can), NEW g \in Seq(Msg)
  PROVE  Takes(c, can, [c EXCEPT !.buf = Append(@, g)], can, g)
  <1> DEFINE d == [c EXCEPT !.buf = Append(@, g)]
             r == Rest(c, can)
             X == Seq(Msg)
             a == c.handler \o c.stream
  <1>1. /\ d.to = c.to /\ d.handler = c.handler /\ d.stream = c.stream /\ d.buf = Append(c.buf, g)
        /\ d.alive = c.alive /\ d.pc = c.pc
    BY DEF Conn
  <1>2. Flows(d, can) /\ Flows(c, can) = TRUE /\ Flows(d, can) = TRUE
    BY <1>1, RestType DEF Flows
  <1>3. c.handler \in Seq(X) /\ c.stream \in Seq(X) /\ c.buf \in Seq(X)
    BY ConnFields
  <1> HIDE DEF d, X
  <1>4. a \in Seq(X)
    BY <1>3, ConcatProperties
  <1>5. r = a \o c.buf /\ Rest(d, can) = a \o Append(c.buf, g)
    BY <1>1, <1>2 DEF Rest
  <1>6. a \o Append(c.buf, g) = Append(a \o c.buf, g)
    <2>1. g \in X
      BY DEF X
    <2> HIDE DEF a
    <2> QED BY <1>3, <1>4, <2>1, ConcatAppend
  <1>7. Rest(d, can) = Append(r, g)
    BY <1>5, <1>6
  <1>8. r \in Seq(X) /\ g \in X
    BY RestType DEF X
  <1> HIDE DEF r, a
  <1>9. Len(Append(r, g)) = Len(r) + 1
    BY <1>8, AppendProperties
  <1>10. ASSUME NEW w \in Seq(X), NEW l \in Nat, NEW m \in Nat, Line(r, TRUE, w, l, m)
         PROVE  Line(Append(r, g), TRUE, Append(w, g), l, m)
    BY <1>8, <1>10, LinePut
  <1> QED BY <1>1, <1>2, <1>7, <1>9, <1>10 DEF Takes, d, r, X

More(W, p, g) == [W EXCEPT ![p] = Append(@, g)]

LEMMA MoreIs ==
  ASSUME NEW W \in [Peers -> Seq(Seq(Msg))], NEW p \in Peers, NEW g \in Seq(Msg)
  PROVE  /\ More(W, p, g) \in [Peers -> Seq(Seq(Msg))] /\ More(W, p, g)[p] = Append(W[p], g)
         /\ \A q \in Peers : q # p => More(W, p, g)[q] = W[q]
  BY AppendProperties DEF More

\* The runs of the connections when a group is sent.
LEMMA LinesTake ==
  ASSUME NEW cs \in Seq(Conn), NEW ds \in Seq(Conn), DOMAIN ds = DOMAIN cs, NEW can,
         NEW W \in [Peers -> Seq(Seq(Msg))], NEW lo, NEW mid, LinesOk(cs, can, W, lo, mid),
         NEW p \in Peers, NEW g \in Seq(Msg),
         \A k \in DOMAIN cs : cs[k].to = p => Takes(cs[k], can, ds[k], can, g),
         \A k \in DOMAIN cs : cs[k].to # p => ds[k] = cs[k]
  PROVE  LinesOk(ds, can, More(W, p, g), lo, mid)
  <1> DEFINE V == More(W, p, g)
             n(k) == Len(Rest(cs[k], can))
             o(k) == Len(Rest(ds[k], can))
  <1>1. \A k \in DOMAIN cs : cs[k] \in Conn /\ ds[k] \in Conn
    BY LenProperties
  <1>2. \A k \in DOMAIN cs : cs[k].to \in Peers /\ lo[k] \in Nat /\ mid[k] \in Nat
    BY <1>1, ConnFields DEF LinesOk
  <1>3. V[p] = Append(W[p], g) /\ \A q \in Peers : q # p => V[q] = W[q]
    BY MoreIs
  <1>4. \A k \in DOMAIN cs : Line(Rest(cs[k], can), Flows(cs[k], can), W[cs[k].to], lo[k], mid[k])
    BY DEF LinesOk
  <1>5. \A k \in DOMAIN cs : n(k) \in Nat /\ o(k) \in Nat /\ Flows(cs[k], can) \in BOOLEAN
    BY <1>1, RestType
  <1> HIDE DEF V
  <1>6. ASSUME NEW k \in DOMAIN cs
        PROVE  /\ Line(Rest(ds[k], can), Flows(ds[k], can), V[ds[k].to], lo[k], mid[k]) /\ ds[k].to = cs[k].to
               /\ o(k) <= n(k) \/ (cs[k].to = p /\ Flows(cs[k], can) /\ o(k) = n(k) + 1)
    <2>1. CASE cs[k].to = p
      <3>1. W[p] \in Seq(Seq(Msg)) /\ lo[k] \in Nat /\ mid[k] \in Nat
        BY <1>2
      <3>2. Takes(cs[k], can, ds[k], can, g) /\ Line(Rest(cs[k], can), Flows(cs[k], can), W[p], lo[k], mid[k])
        BY <1>4, <2>1
      <3>3. /\ ds[k].to = cs[k].to /\ Line(Rest(ds[k], can), Flows(ds[k], can), Append(W[p], g), lo[k], mid[k])
            /\ o(k) <= n(k) \/ (Flows(cs[k], can) /\ o(k) = n(k) + 1)
        BY <3>1, <3>2 DEF Takes
      <3> QED BY <1>3, <2>1, <3>3
    <2>2. CASE cs[k].to # p
      <3>1. ds[k] = cs[k] /\ V[cs[k].to] = W[cs[k].to]
        BY <1>2, <1>3, <2>2
      <3>2. o(k) <= n(k)
        BY <1>5, <3>1
      <3> QED BY <1>4, <3>1, <3>2
    <2> QED BY <2>1, <2>2
  <1>7. ASSUME NEW k \in DOMAIN cs, NEW h \in DOMAIN cs, k # h, ds[k].to = ds[h].to
        PROVE  mid[k] + o(k) <= lo[h] \/ mid[h] + o(h) <= lo[k]
    <2>1. cs[k].to = cs[h].to /\ (mid[k] + n(k) <= lo[h] \/ mid[h] + n(h) <= lo[k])
      BY <1>6, <1>7 DEF LinesOk
    <2> DEFINE L == Len(W[cs[k].to])
    <2>2. /\ L \in Nat /\ lo[k] < L /\ lo[h] < L
          /\ Flows(cs[k], can) => mid[k] + n(k) = L
          /\ Flows(cs[h], can) => mid[h] + n(h) = L
      <3>1. L \in Nat
        BY <1>2, LenProperties
      <3>2. lo[k] < L /\ (Flows(cs[k], can) => mid[k] + n(k) = L)
        BY <1>4 DEF Line
      <3>3. lo[h] < L /\ (Flows(cs[h], can) => mid[h] + n(h) = L)
        BY <1>4, <2>1 DEF Line
      <3> QED BY <3>1, <3>2, <3>3
    <2>3. o(k) <= n(k) \/ (Flows(cs[k], can) /\ o(k) = n(k) + 1)
      BY <1>6
    <2>4. o(h) <= n(h) \/ (Flows(cs[h], can) /\ o(h) = n(h) + 1)
      BY <1>6
    <2>5. /\ lo[k] \in Nat /\ lo[h] \in Nat /\ mid[k] \in Nat /\ mid[h] \in Nat
          /\ n(k) \in Nat /\ n(h) \in Nat /\ o(k) \in Nat /\ o(h) \in Nat
      BY <1>2, <1>5
    <2>6. /\ o(k) <= n(k) \/ (mid[k] + n(k) = L /\ o(k) = n(k) + 1)
          /\ o(h) <= n(h) \/ (mid[h] + n(h) = L /\ o(h) = n(h) + 1)
      BY <2>2, <2>3, <2>4
    <2> DEFINE lk == lo[k]
               lh == lo[h]
               mk == mid[k]
               mh == mid[h]
               nk == n(k)
               nh == n(h)
               ok == o(k)
               oh == o(h)
    <2>7. /\ L \in Nat /\ lk \in Nat /\ lh \in Nat /\ mk \in Nat /\ mh \in Nat
          /\ nk \in Nat /\ nh \in Nat /\ ok \in Nat /\ oh \in Nat /\ lk < L /\ lh < L
          /\ mk + nk <= lh \/ mh + nh <= lk
          /\ ok <= nk \/ (mk + nk = L /\ ok = nk + 1)
          /\ oh <= nh \/ (mh + nh = L /\ oh = nh + 1)
      BY <2>1, <2>2, <2>5, <2>6
    <2>8. mk + ok <= lh \/ mh + oh <= lk
      <3> HIDE DEF L, lk, lh, mk, mh, nk, nh, ok, oh
      <3> QED BY <2>7
    <2> QED BY <2>8
  <1>8. LinesOk(ds, can, V, lo, mid)
    BY <1>6, <1>7 DEF LinesOk
  <1> QED BY <1>8 DEF V

LEMMA PlacedMore ==
  ASSUME NEW s, NEW w \in Seq(Seq(Msg)), NEW po, PlacedOk(s, w, po), NEW g \in Seq(Msg)
  PROVE  PlacedOk(s, Append(w, g), po)
  <1>1. /\ Len(w) \in Nat /\ Len(Append(w, g)) = Len(w) + 1 /\ \A k \in 1 .. Len(w) : Append(w, g)[k] = w[k]
    BY AppendIdx
  <1>2. \A k \in 1 .. Len(w) : k \in 1 .. Len(w) + 1
    BY <1>1
  <1> QED BY <1>1, <1>2 DEF PlacedOk

\* What was handled keeps its place when a group is sent.
LEMMA HandledTake ==
  ASSUME NEW cs \in Seq(Conn), NEW can, NEW W \in [Peers -> Seq(Seq(Msg))], NEW lo, NEW mid, NEW pos,
         LinesOk(cs, can, W, lo, mid), NEW rc, HandledOk(rc, cs, W, lo, mid, pos),
         NEW p \in Peers, p # Self, NEW g \in Seq(Msg)
  PROVE  HandledOk(rc, cs, More(W, p, g), lo, mid, pos)
  <1> DEFINE V == More(W, p, g)
  <1>1. V[p] = Append(W[p], g) /\ \A q \in Peers : q # p => V[q] = W[q]
    BY MoreIs
  <1>2. Self \in Peers /\ W[p] \in Seq(Seq(Msg))
    BY NetConstants
  <1>3. V[Self] = W[Self]
    BY <1>1, <1>2
  <1> HIDE DEF V
  <1>4. ASSUME NEW q \in Peers PROVE PlacedOk(rc[q], V[q], pos[q])
    <2>1. PlacedOk(rc[q], W[q], pos[q])
      BY DEF HandledOk
    <2>2. CASE q = p
      BY <1>1, <1>2, <2>1, <2>2, PlacedMore
    <2>3. CASE q # p
      BY <1>1, <2>1, <2>3
    <2> QED BY <2>2, <2>3
  <1>5. ASSUME NEW k \in DOMAIN cs
        PROVE  Thr(rc[cs[k].to], k) = FlattenSeq(SubSeq(V[cs[k].to], lo[k] + 1, mid[k]))
    <2>1. Thr(rc[cs[k].to], k) = FlattenSeq(SubSeq(W[cs[k].to], lo[k] + 1, mid[k]))
      BY DEF HandledOk
    <2>2. cs[k] \in Conn /\ cs[k].to \in Peers
      BY LenProperties, ConnFields
    <2>3. CASE cs[k].to = p
      <3>1. Line(Rest(cs[k], can), Flows(cs[k], can), W[p], lo[k], mid[k])
        BY <2>3 DEF LinesOk
      <3>2. lo[k] \in Nat /\ mid[k] \in Nat /\ mid[k] <= Len(W[p])
        <4>1. lo[k] \in Nat /\ mid[k] \in Nat /\ mid[k] + Len(Rest(cs[k], can)) <= Len(W[p])
          BY <3>1 DEF Line
        <4>2. Len(Rest(cs[k], can)) \in Nat /\ Len(W[p]) \in Nat
          BY <1>2, <2>2, RestType, LenProperties
        <4> QED BY <4>1, <4>2
      <3> DEFINE X == Seq(Msg)
      <3>3. SubSeq(Append(W[p], g), lo[k] + 1, mid[k]) = SubSeq(W[p], lo[k] + 1, mid[k])
        <4>1. g \in X /\ W[p] \in Seq(X)
          BY <1>2
        <4> HIDE DEF X
        <4> QED BY <3>2, <4>1, PartGrow
      <3> QED BY <1>1, <2>1, <2>3, <3>3
    <2>4. CASE cs[k].to # p
      BY <1>1, <2>1, <2>2, <2>4
    <2> QED BY <2>3, <2>4
  <1>6. HandledOk(rc, cs, V, lo, mid, pos)
    BY <1>3, <1>4, <1>5 DEF HandledOk
  <1> QED BY <1>6 DEF V

\* A group goes from those still to send to those that were sent.
LEMMA SentTake ==
  ASSUME NEW W, NEW td \in Seq(Seq(Msg)), td # << >>, NEW c, SentOk(W, td, c), NEW p \in Peers, Head(td)[1].to = p
  PROVE  SentOk(More(W, p, Head(td)), Tail(td), c)
  <1> DEFINE g == Head(td)
             V == More(W, p, g)
             t == Tail(td)
  <1>1. g \in Seq(Msg) /\ t \in Seq(Seq(Msg))
    BY TailIdx
  <1>2. W \in [Peers -> Seq(Seq(Msg))] /\ \A q \in Peers : FlattenSeq(W[q]) \o Bound(td, q) = Pass(c, q)
    BY DEF SentOk
  <1>3. \A q \in Peers : Bound(td, q) = BoundOf(g, q) \o Bound(t, q)
    BY BoundHead
  <1>4. g[1].to = p
    OBVIOUS
  <1> HIDE DEF g, t
  <1>5. V \in [Peers -> Seq(Seq(Msg))] /\ V[p] = Append(W[p], g) /\ \A q \in Peers : q # p => V[q] = W[q]
    BY <1>1, <1>2, MoreIs
  <1> HIDE DEF V
  <1>6. ASSUME NEW q \in Peers PROVE FlattenSeq(V[q]) \o Bound(t, q) = Pass(c, q)
    <2> DEFINE x == FlattenSeq(W[q])
               y == Bound(t, q)
    <2>1. W[q] \in Seq(Seq(Msg))
      BY <1>2
    <2>2. x \in Seq(Msg) /\ y \in Seq(Msg)
      BY <1>1, <2>1, FlattenType, BoundType
    <2>3. x \o (BoundOf(g, q) \o y) = Pass(c, q)
      BY <1>2, <1>3
    <2>4. CASE q = p
      <3>1. BoundOf(g, q) = g
        BY <1>4, <2>4 DEF BoundOf
      <3>2. FlattenSeq(Append(W[q], g)) = x \o g
        BY <1>1, <2>1, FlattenAppend
      <3>3. (x \o g) \o y = x \o (g \o y)
        <4> HIDE DEF x, y
        <4> QED BY <1>1, <2>2, MsgsAssoc
      <3> QED BY <1>5, <2>3, <2>4, <3>1, <3>2, <3>3
    <2>5. CASE q # p
      <3>1. BoundOf(g, q) = << >>
        BY <1>4, <2>5 DEF BoundOf
      <3>2. << >> \o y = y
        BY <2>2, ConcatEmptySeq
      <3> QED BY <1>5, <2>3, <2>5, <3>1, <3>2
    <2> QED BY <2>4, <2>5
  <1>7. SentOk(V, t, c)
    BY <1>5, <1>6 DEF SentOk
  <1> QED BY <1>7 DEF V, t, g

\* A group is sent, or dropped, over a connection that is there.
LEMMA TracksTake ==
  ASSUME NetTypes, Tracks, todo # << >>, NEW p \in Peers, Head(todo)[1].to = p, p # Self,
         todo' = Tail(todo), UNCHANGED <<received, calls, cancelled>>,
         conns' \in Seq(Conn), DOMAIN conns' = DOMAIN conns,
         \A k \in DOMAIN conns : conns[k].to = p => Takes(conns[k], cancelled, conns'[k], cancelled, Head(todo)),
         \A k \in DOMAIN conns : conns[k].to # p => conns'[k] = conns[k]
  PROVE  Tracks'
  <1>1. PICK W, lo, mid, pos : LinesOk(conns, cancelled, W, lo, mid) /\ HandledOk(received, conns, W, lo, mid, pos)
                               /\ SentOk(W, todo, calls)
    BY DEF Tracks
  <1> DEFINE g == Head(todo)
             V == More(W, p, g)
  <1>2. W \in [Peers -> Seq(Seq(Msg))] /\ conns \in Seq(Conn) /\ todo \in Seq(Seq(Msg))
    BY <1>1 DEF SentOk, NetTypes
  <1>3. g \in Seq(Msg)
    BY <1>2, TailIdx
  <1>4. SentOk(V, todo', calls')
    BY <1>1, <1>2, SentTake
  <1> HIDE DEF g
  <1>5. LinesOk(conns', cancelled', V, lo, mid)
    <2>1. \A k \in DOMAIN conns : conns[k].to = p => Takes(conns[k], cancelled, conns'[k], cancelled, g)
      BY DEF g
    <2>2. LinesOk(conns', cancelled, V, lo, mid)
      BY <1>1, <1>2, <1>3, <2>1, LinesTake
    <2> QED BY <2>2
  <1>6. HandledOk(received, conns, V, lo, mid, pos)
    BY <1>1, <1>2, <1>3, HandledTake
  <1>7. \A k \in DOMAIN conns : conns'[k].to = conns[k].to
    BY DEF Takes
  <1> HIDE DEF V
  <1>8. HandledOk(received', conns', V, lo, mid, pos)
    BY <1>6, <1>7, HandledMove
  <1> QED BY <1>4, <1>5, <1>8 DEF Tracks

Grown(f, cs, n) == [k \in 1 .. Len(cs) + 1 |-> IF k = Len(cs) + 1 THEN n ELSE f[k]]

IsGrown(g, f, cs, n) ==
    /\ Len(cs) \in Nat /\ DOMAIN cs = 1 .. Len(cs)
    /\ g \in [1 .. Len(cs) + 1 -> Nat] /\ g[Len(cs) + 1] = n
    /\ \A k \in DOMAIN cs : g[k] = f[k] /\ k # Len(cs) + 1 /\ k \in 1 .. Len(cs) + 1
    /\ \A k \in 1 .. Len(cs) + 1 : k \in DOMAIN cs \/ k = Len(cs) + 1

LEMMA GrownIs ==
  ASSUME NEW cs \in Seq(Conn), NEW f \in [DOMAIN cs -> Nat], NEW n \in Nat
  PROVE  IsGrown(Grown(f, cs, n), f, cs, n)
  <1>1. Len(cs) \in Nat /\ DOMAIN cs = 1 .. Len(cs)
    BY LenProperties
  <1>2. /\ \A k \in 1 .. Len(cs) : k # Len(cs) + 1 /\ k \in 1 .. Len(cs) + 1
        /\ \A k \in 1 .. Len(cs) + 1 : k \in 1 .. Len(cs) \/ k = Len(cs) + 1
        /\ Len(cs) + 1 \in 1 .. Len(cs) + 1
    BY <1>1
  <1>3. Grown(f, cs, n) \in [1 .. Len(cs) + 1 -> Nat]
    BY <1>1, <1>2 DEF Grown
  <1>4. Grown(f, cs, n)[Len(cs) + 1] = n /\ \A k \in 1 .. Len(cs) : Grown(f, cs, n)[k] = f[k]
    BY <1>2 DEF Grown
  <1> QED BY <1>1, <1>2, <1>3, <1>4 DEF IsGrown

\* The run of a new connection is behind all the others.
LEMMA LinesNew ==
  ASSUME NEW cs \in Seq(Conn), NEW can, NEW W, NEW lo, NEW mid, LinesOk(cs, can, W, lo, mid),
         NEW c \in Conn, NEW n \in Nat, Line(Rest(c, can), Flows(c, can), W[c.to], n, n),
         \A k \in DOMAIN cs : cs[k].to = c.to => mid[k] + Len(Rest(cs[k], can)) <= n
  PROVE  LinesOk(Append(cs, c), can, W, Grown(lo, cs, n), Grown(mid, cs, n))
  <1> DEFINE ds == Append(cs, c)
             K == Len(cs) + 1
             l == Grown(lo, cs, n)
             m == Grown(mid, cs, n)
  <1>1. lo \in [DOMAIN cs -> Nat] /\ mid \in [DOMAIN cs -> Nat]
    BY DEF LinesOk
  <1>2. /\ DOMAIN ds = 1 .. K /\ ds[K] = c /\ \A k \in DOMAIN cs : ds[k] = cs[k]
    BY AppendIdx
  <1>g. IsGrown(l, lo, cs, n) /\ IsGrown(m, mid, cs, n)
    BY <1>1, GrownIs
  <1> HIDE DEF ds, l, m
  <1>3. /\ l \in [1 .. K -> Nat] /\ l[K] = n
        /\ \A k \in DOMAIN cs : l[k] = lo[k] /\ k # K /\ k \in 1 .. K
        /\ \A k \in 1 .. K : k \in DOMAIN cs \/ k = K
    BY <1>g DEF IsGrown
  <1>4. m \in [1 .. K -> Nat] /\ m[K] = n /\ \A k \in DOMAIN cs : m[k] = mid[k]
    BY <1>g DEF IsGrown
  <1> HIDE DEF K
  <1>5. ASSUME NEW k \in 1 .. K PROVE Line(Rest(ds[k], can), Flows(ds[k], can), W[ds[k].to], l[k], m[k])
    <2>1. CASE k = K
      BY <1>2, <1>3, <1>4, <2>1
    <2>2. CASE k \in DOMAIN cs
      <3>1. Line(Rest(cs[k], can), Flows(cs[k], can), W[cs[k].to], lo[k], mid[k])
        BY <2>2 DEF LinesOk
      <3> QED BY <1>2, <1>3, <1>4, <2>2, <3>1
    <2> QED BY <1>3, <2>1, <2>2
  <1>6. ASSUME NEW k \in 1 .. K, NEW h \in 1 .. K, k # h, ds[k].to = ds[h].to
        PROVE  m[k] + Len(Rest(ds[k], can)) <= l[h] \/ m[h] + Len(Rest(ds[h], can)) <= l[k]
    <2>1. CASE k = K
      <3>1. h \in DOMAIN cs
        BY <1>3, <1>6, <2>1
      <3>2. mid[h] + Len(Rest(cs[h], can)) <= n
        BY <1>2, <1>6, <2>1, <3>1
      <3> QED BY <1>2, <1>3, <1>4, <2>1, <3>1, <3>2
    <2>2. CASE h = K
      <3>1. k \in DOMAIN cs
        BY <1>3, <1>6, <2>2
      <3>2. mid[k] + Len(Rest(cs[k], can)) <= n
        BY <1>2, <1>6, <2>2, <3>1
      <3> QED BY <1>2, <1>3, <1>4, <2>2, <3>1, <3>2
    <2>3. CASE k \in DOMAIN cs /\ h \in DOMAIN cs
      <3>1. cs[k].to = cs[h].to
        BY <1>2, <1>6, <2>3
      <3>2. mid[k] + Len(Rest(cs[k], can)) <= lo[h] \/ mid[h] + Len(Rest(cs[h], can)) <= lo[k]
        BY <1>6, <2>3, <3>1 DEF LinesOk
      <3> QED BY <1>2, <1>3, <1>4, <2>3, <3>2
    <2> QED BY <1>3, <2>1, <2>2, <2>3
  <1>7. LinesOk(ds, can, W, l, m)
    BY <1>2, <1>3, <1>4, <1>5, <1>6 DEF LinesOk
  <1> QED BY <1>7 DEF ds, l, m

LEMMA HandledNew ==
  ASSUME NEW cs \in Seq(Conn), NEW c \in Conn, NEW n \in Nat, NEW rc \in [Peers -> Seq(Pkt)], NEW W, NEW pos,
         NEW lo \in [DOMAIN cs -> Nat], NEW mid \in [DOMAIN cs -> Nat], HandledOk(rc, cs, W, lo, mid, pos)
  PROVE  HandledOk(rc, Append(cs, c), W, Grown(lo, cs, n), Grown(mid, cs, n), pos)
  <1> DEFINE ds == Append(cs, c)
             K == Len(cs) + 1
             l == Grown(lo, cs, n)
             m == Grown(mid, cs, n)
  <1>1. /\ DOMAIN ds = 1 .. K /\ ds[K] = c /\ \A k \in DOMAIN cs : ds[k] = cs[k]
    BY AppendIdx
  <1>g. IsGrown(l, lo, cs, n) /\ IsGrown(m, mid, cs, n)
    BY GrownIs
  <1> HIDE DEF ds, l, m
  <1>2. /\ l[K] = n
        /\ \A k \in DOMAIN cs : l[k] = lo[k] /\ k # K /\ k \in 1 .. K
        /\ \A k \in 1 .. K : k \in DOMAIN cs \/ k = K
    BY <1>g DEF IsGrown
  <1>3. m[K] = n /\ \A k \in DOMAIN cs : m[k] = mid[k]
    BY <1>g DEF IsGrown
  <1> HIDE DEF K
  <1>4. ASSUME NEW p \in Peers \ {Self}, NEW j \in 1 .. Len(rc[p])
        PROVE  /\ rc[p][j].conn \in DOMAIN ds /\ ds[rc[p][j].conn].to = p
               /\ l[rc[p][j].conn] < pos[p][j] /\ pos[p][j] <= m[rc[p][j].conn]
    <2>1. /\ rc[p][j].conn \in DOMAIN cs /\ cs[rc[p][j].conn].to = p
          /\ lo[rc[p][j].conn] < pos[p][j] /\ pos[p][j] <= mid[rc[p][j].conn]
      BY DEF HandledOk
    <2> QED BY <1>1, <1>2, <1>3, <2>1
  <1>5. ASSUME NEW k \in 1 .. K
        PROVE  Thr(rc[ds[k].to], k) = FlattenSeq(SubSeq(W[ds[k].to], l[k] + 1, m[k]))
    <2>1. CASE k = K
      <3>1. c.to \in Peers /\ c.to # Self
        BY ConnFields
      <3>2. rc[c.to] \in Seq(Pkt)
        BY <3>1
      <3>3. \A j \in 1 .. Len(rc[c.to]) : rc[c.to][j].conn \in DOMAIN cs
        BY <3>1 DEF HandledOk
      <3>4. \A j \in 1 .. Len(rc[c.to]) : rc[c.to][j].conn # K
        BY <1>2, <3>3
      <3>5. Thr(rc[c.to], K) = << >>
        BY <3>2, <3>4, ThrNone
      <3>6. n + 1 \in Int /\ n \in Int /\ n < n + 1
        OBVIOUS
      <3>7. SubSeq(W[c.to], n + 1, n) = << >>
        BY <3>6, SubSeqEmpty
      <3>8. FlattenSeq(SubSeq(W[c.to], n + 1, n)) = << >>
        BY <3>7, FlattenNone
      <3> QED BY <1>1, <1>2, <1>3, <2>1, <3>5, <3>8
    <2>2. CASE k \in DOMAIN cs
      <3>1. Thr(rc[cs[k].to], k) = FlattenSeq(SubSeq(W[cs[k].to], lo[k] + 1, mid[k]))
        BY <2>2 DEF HandledOk
      <3> QED BY <1>1, <1>2, <1>3, <2>2, <3>1
    <2> QED BY <1>2, <2>1, <2>2
  <1>6. HandledOk(rc, ds, W, l, m, pos)
    BY <1>1, <1>4, <1>5 DEF HandledOk
  <1> QED BY <1>6 DEF ds, l, m

\* A connection that is opened: none that is there already flows to that destination.
LEMMA TracksNew ==
  ASSUME NetTypes, Tracks, todo # << >>, NEW p \in Peers, Head(todo)[1].to = p, p # Self,
         todo' = Tail(todo), UNCHANGED <<received, calls, cancelled>>, NEW c \in Conn, conns' = Append(conns, c),
         c.to = p, Rest(c, cancelled) = (IF Flows(c, cancelled) THEN <<Head(todo)>> ELSE << >>),
         \A k \in DOMAIN conns : conns[k].to = p => ~Flows(conns[k], cancelled)
  PROVE  Tracks'
  <1>1. PICK W, lo, mid, pos : LinesOk(conns, cancelled, W, lo, mid) /\ HandledOk(received, conns, W, lo, mid, pos)
                               /\ SentOk(W, todo, calls)
    BY DEF Tracks
  <1> DEFINE g == Head(todo)
             V == More(W, p, g)
             n == Len(W[p])
             l == Grown(lo, conns, n)
             m == Grown(mid, conns, n)
             X == Seq(Msg)
  <1>2. /\ W \in [Peers -> Seq(Seq(Msg))] /\ conns \in Seq(Conn) /\ todo \in Seq(Seq(Msg))
        /\ received \in [Peers -> Seq(Pkt)]
    BY <1>1 DEF SentOk, NetTypes
  <1>3. g \in Seq(Msg)
    BY <1>2, TailIdx
  <1>4. SentOk(V, todo', calls')
    BY <1>1, <1>2, SentTake
  <1>5. W[p] \in Seq(Seq(Msg)) /\ n \in Nat
    BY <1>2, LenProperties
  <1>6. V[p] = Append(W[p], g)
    BY <1>2, <1>3, MoreIs
  <1>7. Rest(c, cancelled) = (IF Flows(c, cancelled) THEN <<g>> ELSE << >>)
    OBVIOUS
  <1> HIDE DEF g
  <1>8. LinesOk(conns, cancelled, V, lo, mid)
    <2>1. ASSUME NEW k \in DOMAIN conns, conns[k].to = p PROVE Takes(conns[k], cancelled, conns[k], cancelled, g)
      <3>1. conns[k] \in Conn
        BY <1>2, LenProperties
      <3> QED BY <1>3, <2>1, <3>1, TakesNot
    <2> QED BY <1>1, <1>2, <1>3, <2>1, LinesTake
  <1>9. HandledOk(received, conns, V, lo, mid, pos)
    BY <1>1, <1>2, <1>3, HandledTake
  <1>10. Line(Rest(c, cancelled), Flows(c, cancelled), V[p], n, n)
    <2>1. /\ Line(<<g>>, Flows(c, cancelled), Append(W[p], g), n, n)
          /\ Line(<< >>, FALSE, Append(W[p], g), n, n)
      <3>1. W[p] \in Seq(X) /\ g \in X
        BY <1>3, <1>5
      <3> HIDE DEF X
      <3> QED BY <3>1, LineNew
    <2>2. Flows(c, cancelled) \in BOOLEAN
      BY RestType
    <2>3. CASE Flows(c, cancelled)
      BY <1>6, <1>7, <2>1, <2>3
    <2>4. CASE ~Flows(c, cancelled)
      <3>1. Flows(c, cancelled) = FALSE
        BY <2>2, <2>4
      <3> QED BY <1>6, <1>7, <2>1, <2>4, <3>1
    <2> QED BY <2>3, <2>4
  <1>11. ASSUME NEW k \in DOMAIN conns, conns[k].to = c.to PROVE mid[k] + Len(Rest(conns[k], cancelled)) <= n
    <2>1. Line(Rest(conns[k], cancelled), Flows(conns[k], cancelled), W[p], lo[k], mid[k])
      BY <1>1, <1>11 DEF LinesOk
    <2> QED BY <2>1 DEF Line
  <1>12. lo \in [DOMAIN conns -> Nat] /\ mid \in [DOMAIN conns -> Nat]
    BY <1>1 DEF LinesOk
  <1> HIDE DEF V, n
  <1>13. LinesOk(conns', cancelled', V, l, m)
    <2>1. LinesOk(Append(conns, c), cancelled, V, l, m)
      BY <1>2, <1>5, <1>8, <1>10, <1>11, LinesNew
    <2> QED BY <2>1
  <1>14. HandledOk(received', conns', V, l, m, pos)
    <2>1. HandledOk(received, Append(conns, c), V, l, m, pos)
      BY <1>2, <1>5, <1>9, <1>12, HandledNew
    <2> QED BY <2>1
  <1> HIDE DEF l, m
  <1> QED BY <1>4, <1>13, <1>14 DEF Tracks

\* One more group is handled, from a place of its own.
LEMMA PlacedAppend ==
  ASSUME NEW s \in Seq(Pkt), NEW w, NEW po, PlacedOk(s, w, po), NEW x \in Pkt, NEW q \in Nat,
         q \in 1 .. Len(w), x.group = w[q], \A n \in 1 .. Len(s) : po[n] # q
  PROVE  PlacedOk(Append(s, x), w, Append(po, q))
  <1> DEFINE t == Append(s, x)
             o == Append(po, q)
             L == Len(s)
  <1>1. /\ po \in Seq(Nat) /\ Len(po) = L /\ Distinct(po)
        /\ \A n \in 1 .. L : po[n] \in 1 .. Len(w) /\ s[n].group = w[po[n]]
    BY DEF PlacedOk
  <1>2. L \in Nat /\ Len(t) = L + 1 /\ t[L + 1] = x /\ \A n \in 1 .. L : t[n] = s[n]
    BY AppendIdx
  <1>3. o \in Seq(Nat) /\ Len(o) = L + 1 /\ o[L + 1] = q /\ DOMAIN o = 1 .. L + 1 /\ \A n \in 1 .. L : o[n] = po[n]
    BY <1>1, AppendIdx
  <1> HIDE DEF t, o
  <1>4. DOMAIN po = 1 .. L
    BY <1>1, LenProperties
  <1> HIDE DEF L
  <1>5. \A n \in 1 .. L + 1 : n \in 1 .. L \/ n = L + 1
    BY <1>2
  <1>6. Distinct(o)
    <2>1. ASSUME NEW m \in 1 .. L + 1, NEW n \in 1 .. L + 1, o[m] = o[n] PROVE m = n
      <3>1. \A j \in 1 .. L : po[j] # q
        BY DEF L
      <3>2. CASE m \in 1 .. L /\ n \in 1 .. L
        <4>1. po[m] = po[n]
          BY <1>3, <2>1, <3>2
        <4> QED BY <1>1, <1>4, <3>2, <4>1 DEF Distinct
      <3>3. CASE m = L + 1 /\ n \in 1 .. L
        BY <1>3, <2>1, <3>1, <3>3
      <3>4. CASE n = L + 1 /\ m \in 1 .. L
        BY <1>3, <2>1, <3>1, <3>4
      <3> QED BY <1>5, <3>2, <3>3, <3>4
    <2> QED BY <1>3, <2>1 DEF Distinct
  <1>7. ASSUME NEW n \in 1 .. L + 1 PROVE o[n] \in 1 .. Len(w) /\ t[n].group = w[o[n]]
    <2>1. CASE n \in 1 .. L
      BY <1>1, <1>2, <1>3, <2>1
    <2>2. CASE n = L + 1
      BY <1>2, <1>3, <2>2
    <2> QED BY <1>5, <2>1, <2>2
  <1>8. PlacedOk(t, w, o)
    BY <1>2, <1>3, <1>6, <1>7 DEF PlacedOk
  <1> QED BY <1>8 DEF t, o

\* Connection c becomes d when g is handled.
Hands(c, can, d, g) ==
    d.to = c.to /\ Flows(d, can) = Flows(c, can) /\ Rest(c, can) = <<g>> \o Rest(d, can)

Step(mid, k) == [mid EXCEPT ![k] = mid[k] + 1]

\* The run of a connection when its first group is handled.
LEMMA HandsLine ==
  ASSUME NEW c \in Conn, NEW d \in Conn, NEW can, NEW g \in Seq(Msg), Hands(c, can, d, g),
         NEW w \in Seq(Seq(Msg)), NEW l, NEW m, Line(Rest(c, can), Flows(c, can), w, l, m)
  PROVE  /\ Line(Rest(d, can), Flows(d, can), w, l, m + 1) /\ m + 1 \in 1 .. Len(w) /\ g = w[m + 1]
         /\ (m + 1) + Len(Rest(d, can)) = m + Len(Rest(c, can))
  <1> DEFINE X == Seq(Msg)
             r == Rest(d, can)
             f == Flows(d, can)
  <1>1. Rest(c, can) = <<g>> \o r /\ Flows(c, can) = f
    BY DEF Hands
  <1>2. Line(<<g>> \o r, f, w, l, m)
    BY <1>1
  <1>3. r \in Seq(X) /\ f \in BOOLEAN /\ g \in X /\ w \in Seq(X)
    BY RestType
  <1> HIDE DEF X, r, f
  <1>4. Line(r, f, w, l, m + 1) /\ m + 1 \in 1 .. Len(w) /\ g = w[m + 1]
        /\ (m + 1) + Len(r) = m + Len(<<g>> \o r)
    BY <1>2, <1>3, LineNext
  <1> QED BY <1>1, <1>4 DEF r, f

\* The runs of the connections when a group is handled.
LEMMA LinesHandle ==
  ASSUME NEW cs \in Seq(Conn), NEW ds \in Seq(Conn), DOMAIN ds = DOMAIN cs, NEW can, NEW g \in Seq(Msg),
         NEW W \in [Peers -> Seq(Seq(Msg))], NEW lo, NEW mid, LinesOk(cs, can, W, lo, mid),
         NEW k \in DOMAIN cs, Hands(cs[k], can, ds[k], g), \A h \in DOMAIN cs : h # k => ds[h] = cs[h]
  PROVE  /\ LinesOk(ds, can, W, lo, Step(mid, k))
         /\ mid[k] + 1 \in 1 .. Len(W[cs[k].to]) /\ g = W[cs[k].to][mid[k] + 1]
         /\ mid[k] + 1 <= mid[k] + Len(Rest(cs[k], can))
  <1> DEFINE m == Step(mid, k)
             n(h) == Len(Rest(cs[h], can))
             o(h) == Len(Rest(ds[h], can))
  <1>1. \A h \in DOMAIN cs : cs[h] \in Conn /\ ds[h] \in Conn
    BY LenProperties
  <1>2. lo \in [DOMAIN cs -> Nat] /\ mid \in [DOMAIN cs -> Nat]
    BY DEF LinesOk
  <1>3. m \in [DOMAIN cs -> Nat] /\ m[k] = mid[k] + 1 /\ \A h \in DOMAIN cs : h # k => m[h] = mid[h]
    BY <1>2 DEF Step
  <1> HIDE DEF m
  <1>4. \A h \in DOMAIN cs : Line(Rest(cs[h], can), Flows(cs[h], can), W[cs[h].to], lo[h], mid[h])
    BY DEF LinesOk
  <1>5. /\ Line(Rest(ds[k], can), Flows(ds[k], can), W[cs[k].to], lo[k], mid[k] + 1)
        /\ mid[k] + 1 \in 1 .. Len(W[cs[k].to]) /\ g = W[cs[k].to][mid[k] + 1]
        /\ (mid[k] + 1) + o(k) = mid[k] + n(k)
    <2>1. cs[k] \in Conn /\ ds[k] \in Conn /\ cs[k].to \in Peers
      BY <1>1, ConnFields
    <2>2. W[cs[k].to] \in Seq(Seq(Msg))
      BY <2>1
    <2>3. Line(Rest(cs[k], can), Flows(cs[k], can), W[cs[k].to], lo[k], mid[k])
      BY <1>4
    <2> QED BY <2>1, <2>2, <2>3, HandsLine
  <1>6. \A h \in DOMAIN cs : ds[h].to = cs[h].to
    BY DEF Hands
  <1>7. ASSUME NEW h \in DOMAIN cs
        PROVE  Line(Rest(ds[h], can), Flows(ds[h], can), W[ds[h].to], lo[h], m[h]) /\ m[h] + o(h) = mid[h] + n(h)
    <2>1. CASE h = k
      BY <1>3, <1>5, <1>6, <2>1
    <2>2. CASE h # k
      BY <1>3, <1>4, <2>2
    <2> QED BY <2>1, <2>2
  <1>8. ASSUME NEW h \in DOMAIN cs, NEW j \in DOMAIN cs, h # j, ds[h].to = ds[j].to
        PROVE  m[h] + o(h) <= lo[j] \/ m[j] + o(j) <= lo[h]
    <2>1. mid[h] + n(h) <= lo[j] \/ mid[j] + n(j) <= lo[h]
      BY <1>6, <1>8 DEF LinesOk
    <2> QED BY <1>7, <2>1
  <1>9. LinesOk(ds, can, W, lo, m)
    BY <1>2, <1>3, <1>7, <1>8 DEF LinesOk
  <1>10. mid[k] + 1 <= mid[k] + n(k)
    <2>1. mid[k] \in Nat /\ o(k) \in Nat /\ n(k) \in Nat
      BY <1>1, <1>2, RestType
    <2> QED BY <1>5, <2>1
  <1> QED BY <1>5, <1>9, <1>10 DEF m

\* No entry of received came from the place that connection k is at.
LEMMA HandleFresh ==
  ASSUME NEW cs \in Seq(Conn), NEW can, NEW W, NEW lo, NEW mid, LinesOk(cs, can, W, lo, mid),
         NEW k \in DOMAIN cs, NEW rc, NEW pos, HandledOk(rc, cs, W, lo, mid, pos),
         mid[k] + 1 <= mid[k] + Len(Rest(cs[k], can))
  PROVE  \A n \in 1 .. Len(rc[cs[k].to]) : pos[cs[k].to][n] # mid[k] + 1
  <1> DEFINE p == cs[k].to
  <1>1. p \in Peers \ {Self} /\ cs[k] \in Conn
    BY LenProperties, ConnFields
  <1>2. lo \in [DOMAIN cs -> Nat] /\ mid \in [DOMAIN cs -> Nat]
    BY DEF LinesOk
  <1>3. TAKE n \in 1 .. Len(rc[p])
  <1> DEFINE h == rc[p][n].conn
             q == pos[p][n]
  <1>4. h \in DOMAIN cs /\ cs[h].to = p /\ lo[h] < q /\ q <= mid[h]
    BY <1>1 DEF HandledOk
  <1>5. q \in Nat
    <2>1. PlacedOk(rc[p], W[p], pos[p])
      BY <1>1 DEF HandledOk
    <2>2. pos[p] \in Seq(Nat) /\ Len(pos[p]) = Len(rc[p])
      BY <2>1 DEF PlacedOk
    <2>3. n \in 1 .. Len(pos[p])
      BY <2>2
    <2> QED BY <2>2, <2>3, ElementOfSeq
  <1> HIDE DEF h, q
  <1>6. cs[h] \in Conn
    BY <1>4, LenProperties
  <1>7. lo[h] \in Nat /\ lo[k] \in Nat /\ mid[h] \in Nat /\ mid[k] \in Nat
    BY <1>2, <1>4
  <1>8. Len(Rest(cs[h], can)) \in Nat /\ Len(Rest(cs[k], can)) \in Nat
    BY <1>1, <1>6, RestType
  <1>9. lo[k] <= mid[k]
    BY DEF LinesOk, Line
  <1>10. CASE h = k
    BY <1>4, <1>5, <1>7, <1>10 DEF q
  <1>11. CASE h # k
    <2>1. mid[k] + Len(Rest(cs[k], can)) <= lo[h] \/ mid[h] + Len(Rest(cs[h], can)) <= lo[k]
      BY <1>4, <1>11 DEF LinesOk
    <2>2. q # mid[k] + 1
      <3> DEFINE a == lo[h]
                 b0 == mid[h]
                 c == lo[k]
                 d == mid[k]
                 x == Len(Rest(cs[k], can))
                 y == Len(Rest(cs[h], can))
      <3>1. a \in Nat /\ b0 \in Nat /\ c \in Nat /\ d \in Nat /\ x \in Nat /\ y \in Nat /\ q \in Nat
            /\ (d + x <= a \/ b0 + y <= c) /\ c <= d /\ d + 1 <= d + x /\ a < q /\ q <= b0
        BY <1>4, <1>5, <1>7, <1>8, <1>9, <2>1
      <3> HIDE DEF a, b0, c, d, x, y
      <3>2. q # d + 1
        BY <3>1
      <3> QED BY <3>2 DEF d
    <2> QED BY <2>2 DEF q
  <1> QED BY <1>10, <1>11

Place(rc, p, x) == [rc EXCEPT ![p] = Append(@, x)]

LEMMA PlaceIs ==
  ASSUME NEW rc, NEW p \in DOMAIN rc, NEW x
  PROVE  /\ DOMAIN Place(rc, p, x) = DOMAIN rc /\ Place(rc, p, x)[p] = Append(rc[p], x)
         /\ \A q \in DOMAIN rc : q # p => Place(rc, p, x)[q] = rc[q]
  BY DEF Place

\* What was handled when a group comes through connection k.
LEMMA HandledHandle ==
  ASSUME NEW cs \in Seq(Conn), NEW can, NEW W \in [Peers -> Seq(Seq(Msg))], NEW lo, NEW mid, NEW pos,
         LinesOk(cs, can, W, lo, mid), NEW rc \in [Peers -> Seq(Pkt)], HandledOk(rc, cs, W, lo, mid, pos),
         NEW k \in DOMAIN cs, NEW x \in Pkt, x.conn = k,
         mid[k] + 1 \in 1 .. Len(W[cs[k].to]), x.group = W[cs[k].to][mid[k] + 1],
         mid[k] + 1 <= mid[k] + Len(Rest(cs[k], can))
  PROVE  HandledOk(Place(rc, cs[k].to, x), cs, W, lo, Step(mid, k), Place(pos, cs[k].to, mid[k] + 1))
  <1> DEFINE p == cs[k].to
             q == mid[k] + 1
             m == Step(mid, k)
             R == Place(rc, p, x)
             P == Place(pos, p, q)
             L == Len(rc[p])
             w == W[p]
  <1>1. p \in Peers \ {Self} /\ cs[k] \in Conn /\ Self \in Peers
    BY LenProperties, ConnFields, NetConstants
  <1>2. lo \in [DOMAIN cs -> Nat] /\ mid \in [DOMAIN cs -> Nat]
    BY DEF LinesOk
  <1>3. /\ m \in [DOMAIN cs -> Nat] /\ m[k] = q /\ \A h \in DOMAIN cs : h # k => m[h] = mid[h]
        /\ \A h \in DOMAIN cs : mid[h] <= m[h]
    <2>1. m \in [DOMAIN cs -> Nat] /\ m[k] = q /\ \A h \in DOMAIN cs : h # k => m[h] = mid[h]
      BY <1>2 DEF Step
    <2>2. ASSUME NEW h \in DOMAIN cs PROVE mid[h] <= m[h]
      <3>1. mid[h] \in Nat
        BY <1>2
      <3>2. m[h] = mid[h] \/ m[h] = mid[h] + 1
        BY <2>1
      <3> HIDE DEF m
      <3> QED BY <3>1, <3>2
    <2> QED BY <2>1, <2>2
  <1>4. DOMAIN pos = Peers /\ \A y \in Peers : PlacedOk(rc[y], W[y], pos[y])
    BY DEF HandledOk
  <1>5. R[p] = Append(rc[p], x) /\ \A y \in Peers : y # p => R[y] = rc[y]
    BY <1>1, PlaceIs
  <1>6. DOMAIN P = Peers /\ P[p] = Append(pos[p], q) /\ \A y \in Peers : y # p => P[y] = pos[y]
    <2>1. p \in DOMAIN pos
      BY <1>1, <1>4
    <2> HIDE DEF p, q
    <2>2. DOMAIN P = DOMAIN pos /\ P[p] = Append(pos[p], q) /\ \A y \in DOMAIN pos : y # p => P[y] = pos[y]
      BY <2>1, PlaceIs
    <2> QED BY <1>4, <2>2
  <1>7. rc[p] \in Seq(Pkt) /\ w \in Seq(Seq(Msg)) /\ q \in Nat /\ lo[k] \in Nat /\ mid[k] \in Nat
    BY <1>1, <1>2
  <1>8. \A n \in 1 .. L : pos[p][n] # q
    BY HandleFresh
  <1>9. pos[p] \in Seq(Nat) /\ Len(pos[p]) = L
    BY <1>1, <1>4 DEF PlacedOk
  <1> HIDE DEF m, R, P
  <1>10. PlacedOk(Append(rc[p], x), w, Append(pos[p], q))
    <2> HIDE DEF p, w
    <2>1. PlacedOk(rc[p], w, pos[p])
      BY <1>1, <1>4 DEF w
    <2>2. q \in 1 .. Len(w) /\ x.group = w[q]
      BY DEF p, w
    <2> HIDE DEF q
    <2> QED BY <1>7, <1>8, <2>1, <2>2, PlacedAppend
  <1>11. \A y \in Peers : PlacedOk(R[y], W[y], P[y])
    BY <1>4, <1>5, <1>6, <1>10
  <1>12. R[Self] = rc[Self] /\ P[Self] = pos[Self]
    BY <1>1, <1>5, <1>6
  <1>13. L \in Nat /\ Len(R[p]) = L + 1 /\ R[p][L + 1] = x /\ \A n \in 1 .. L : R[p][n] = rc[p][n]
    BY <1>5, <1>7, AppendIdx
  <1>14. P[p][L + 1] = q /\ \A n \in 1 .. L : P[p][n] = pos[p][n]
    <2>1. pos[p] \in Seq(Nat) /\ q \in Nat /\ P[p] = Append(pos[p], q) /\ Len(pos[p]) = L
      BY <1>6, <1>7, <1>9
    <2> DEFINE o == pos[p]
    <2> HIDE DEF o, L, q
    <2>2. Append(o, q)[Len(o) + 1] = q /\ \A n \in 1 .. Len(o) : Append(o, q)[n] = o[n]
      <3>1. o \in Seq(Nat) /\ q \in Nat
        BY <2>1 DEF o
      <3> QED BY <3>1, AppendIdx
    <2> QED BY <2>1, <2>2 DEF o
  <1>15. ASSUME NEW y \in Peers \ {Self}, NEW n \in 1 .. Len(R[y])
         PROVE  /\ R[y][n].conn \in DOMAIN cs /\ cs[R[y][n].conn].to = y
                /\ lo[R[y][n].conn] < P[y][n] /\ P[y][n] <= m[R[y][n].conn]
    <2>1. ASSUME NEW j \in 1 .. Len(rc[y])
          PROVE  /\ rc[y][j].conn \in DOMAIN cs /\ cs[rc[y][j].conn].to = y
                 /\ lo[rc[y][j].conn] < pos[y][j] /\ pos[y][j] <= m[rc[y][j].conn]
      <3> DEFINE h == rc[y][j].conn
                 v == pos[y][j]
      <3>1. h \in DOMAIN cs /\ cs[h].to = y /\ lo[h] < v /\ v <= mid[h]
        BY DEF HandledOk
      <3>2. v \in Nat
        <4>1. pos[y] \in Seq(Nat) /\ Len(pos[y]) = Len(rc[y])
          BY <1>4 DEF PlacedOk
        <4>2. j \in 1 .. Len(pos[y])
          BY <4>1
        <4> QED BY <4>1, <4>2, ElementOfSeq
      <3> HIDE DEF h, v
      <3>3. mid[h] \in Nat /\ m[h] \in Nat /\ mid[h] <= m[h]
        BY <1>2, <1>3, <3>1
      <3>4. v <= m[h]
        BY <3>1, <3>2, <3>3
      <3> QED BY <3>1, <3>4 DEF h, v
    <2>2. CASE y # p
      BY <1>5, <1>6, <2>1, <2>2
    <2>3. CASE y = p /\ n \in 1 .. L
      <3>1. n \in 1 .. Len(rc[y]) /\ R[y][n] = rc[y][n] /\ P[y][n] = pos[y][n]
        BY <1>13, <1>14, <2>3
      <3> QED BY <2>1, <3>1
    <2>4. CASE y = p /\ n = L + 1
      <3>1. lo[k] <= mid[k]
        BY DEF LinesOk, Line
      <3>2. lo[k] < q /\ q <= m[k]
        <4>1. m[k] = q
          BY <1>3
        <4>2. lo[k] < mid[k] + 1 /\ mid[k] + 1 <= mid[k] + 1
          BY <1>7, <3>1
        <4> QED BY <4>1, <4>2
      <3> QED BY <1>13, <1>14, <2>4, <3>2
    <2>5. y = p => n \in 1 .. L \/ n = L + 1
      BY <1>13
    <2> QED BY <2>2, <2>3, <2>4, <2>5
  <1>16. ASSUME NEW h \in DOMAIN cs PROVE Thr(R[cs[h].to], h) = FlattenSeq(SubSeq(W[cs[h].to], lo[h] + 1, m[h]))
    <2>1. Thr(rc[cs[h].to], h) = FlattenSeq(SubSeq(W[cs[h].to], lo[h] + 1, mid[h]))
      BY DEF HandledOk
    <2>2. cs[h].to \in Peers
      BY LenProperties, ConnFields
    <2>3. CASE h = k
      <3>1. Thr(R[p], k) = Thr(rc[p], k) \o x.group
        <4>1. Thr(Append(rc[p], x), k) = Thr(rc[p], k) \o ThrOf(x, k)
          <5> HIDE DEF p
          <5> QED BY <1>7, ThrAppend
        <4> QED BY <1>5, <4>1 DEF ThrOf
      <3> DEFINE X == Seq(Msg)
                 s == SubSeq(w, lo[k] + 1, mid[k])
      <3>2. SubSeq(w, lo[k] + 1, mid[k] + 1) = Append(s, w[mid[k] + 1]) /\ s \in Seq(X)
        <4>1. lo[k] <= mid[k]
          BY DEF LinesOk, Line
        <4>2. mid[k] < Len(w) /\ w \in Seq(X)
          BY <1>7, LenProperties
        <4> HIDE DEF w, X
        <4> QED BY <1>7, <4>1, <4>2, PartNext
      <3>3. w[mid[k] + 1] \in X
        BY <1>7, ElementOfSeq
      <3> HIDE DEF s
      <3>4. FlattenSeq(Append(s, w[mid[k] + 1])) = FlattenSeq(s) \o w[mid[k] + 1]
        BY <3>2, <3>3, FlattenAppend
      <3>5. Thr(rc[p], k) = FlattenSeq(s)
        BY <2>1, <2>3 DEF s
      <3> QED BY <1>3, <2>3, <3>1, <3>2, <3>4, <3>5
    <2>4. CASE h # k /\ cs[h].to = p
      <3>1. Thr(Append(rc[p], x), h) = Thr(rc[p], h) \o ThrOf(x, h)
        <4> HIDE DEF p
        <4> QED BY <1>7, ThrAppend
      <3>2. ThrOf(x, h) = << >>
        BY <2>4 DEF ThrOf
      <3>3. Thr(rc[p], h) \in Seq(Msg)
        <4> HIDE DEF p
        <4> QED BY <1>7, ThrType
      <3>4. Thr(rc[p], h) \o << >> = Thr(rc[p], h)
        BY <3>3, ConcatEmptySeq
      <3> QED BY <1>3, <1>5, <2>1, <2>4, <3>1, <3>2, <3>4
    <2>5. CASE h # k /\ cs[h].to # p
      BY <1>3, <1>5, <2>1, <2>2, <2>5
    <2> QED BY <2>3, <2>4, <2>5
  <1>17. Len(R[Self]) = Len(W[Self]) /\ \A n \in 1 .. Len(R[Self]) : P[Self][n] = n
    BY <1>12 DEF HandledOk
  <1>18. HandledOk(R, cs, W, lo, m, P)
    BY <1>6, <1>11, <1>15, <1>16, <1>17 DEF HandledOk
  <1> QED BY <1>18 DEF R, m, P

\* HandleMessage of a group that came through a connection.
LEMMA TracksHandle ==
  ASSUME NetTypes, Tracks, NEW k \in DOMAIN conns, NEW g \in Seq(Msg), Hands(conns[k], cancelled, conns'[k], g),
         conns' \in Seq(Conn), DOMAIN conns' = DOMAIN conns, \A h \in DOMAIN conns : h # k => conns'[h] = conns[h],
         received' = Place(received, conns[k].to, [conn |-> k, group |-> g]), UNCHANGED <<todo, calls, cancelled>>
  PROVE  Tracks'
  <1>1. PICK W, lo, mid, pos : LinesOk(conns, cancelled, W, lo, mid) /\ HandledOk(received, conns, W, lo, mid, pos)
                               /\ SentOk(W, todo, calls)
    BY DEF Tracks
  <1> DEFINE x == [conn |-> k, group |-> g]
             p == conns[k].to
             m == Step(mid, k)
             P == Place(pos, p, mid[k] + 1)
  <1>2. /\ W \in [Peers -> Seq(Seq(Msg))] /\ conns \in Seq(Conn) /\ received \in [Peers -> Seq(Pkt)]
    BY <1>1 DEF SentOk, NetTypes
  <1>3. /\ LinesOk(conns', cancelled, W, lo, m)
        /\ mid[k] + 1 \in 1 .. Len(W[p]) /\ g = W[p][mid[k] + 1]
        /\ mid[k] + 1 <= mid[k] + Len(Rest(conns[k], cancelled))
    BY <1>1, <1>2, LinesHandle
  <1>4. x \in Pkt /\ x.conn = k /\ x.group = g
    <2>1. k \in Nat
      BY <1>2, LenProperties
    <2> QED BY <2>1 DEF Pkt
  <1> HIDE DEF x
  <1>5. HandledOk(Place(received, p, x), conns, W, lo, m, P)
    BY <1>1, <1>2, <1>3, <1>4, HandledHandle
  <1>6. \A h \in DOMAIN conns : conns'[h].to = conns[h].to
    BY DEF Hands
  <1>7. received' = Place(received, p, x)
    BY DEF x
  <1> HIDE DEF m, P, p
  <1>8. HandledOk(received', conns', W, lo, m, P)
    BY <1>5, <1>6, <1>7, HandledMove
  <1>9. SentOk(W, todo', calls') /\ LinesOk(conns', cancelled', W, lo, m)
    BY <1>1, <1>3
  <1> QED BY <1>8, <1>9 DEF Tracks

\* What was handled when a group is for the replica itself.
LEMMA HandledSelf ==
  ASSUME NEW cs \in Seq(Conn), NEW W \in [Peers -> Seq(Seq(Msg))], NEW lo, NEW mid, NEW pos,
         NEW rc \in [Peers -> Seq(Pkt)], HandledOk(rc, cs, W, lo, mid, pos),
         NEW g \in Seq(Msg), NEW x \in Pkt, x.group = g
  PROVE  HandledOk(Place(rc, Self, x), cs, More(W, Self, g), lo, mid, Place(pos, Self, Len(rc[Self]) + 1))
  <1> DEFINE L == Len(rc[Self])
             q == L + 1
             R == Place(rc, Self, x)
             P == Place(pos, Self, q)
             V == More(W, Self, g)
  <1>1. Self \in Peers /\ rc[Self] \in Seq(Pkt) /\ W[Self] \in Seq(Seq(Msg)) /\ L \in Nat
    BY NetConstants, LenProperties
  <1>2. /\ DOMAIN pos = Peers /\ \A y \in Peers : PlacedOk(rc[y], W[y], pos[y])
        /\ L = Len(W[Self]) /\ \A n \in 1 .. L : pos[Self][n] = n
    BY DEF HandledOk
  <1>3. R[Self] = Append(rc[Self], x) /\ \A y \in Peers : y # Self => R[y] = rc[y]
    BY <1>1, PlaceIs
  <1>4. DOMAIN P = Peers /\ P[Self] = Append(pos[Self], q) /\ \A y \in Peers : y # Self => P[y] = pos[y]
    <2>1. Self \in DOMAIN pos
      BY <1>1, <1>2
    <2> HIDE DEF q
    <2>2. DOMAIN P = DOMAIN pos /\ P[Self] = Append(pos[Self], q) /\ \A y \in DOMAIN pos : y # Self => P[y] = pos[y]
      BY <2>1, PlaceIs
    <2> QED BY <1>2, <2>2
  <1>5. V[Self] = Append(W[Self], g) /\ \A y \in Peers : y # Self => V[y] = W[y]
    BY <1>1, MoreIs
  <1> HIDE DEF R, P, V
  <1>6. pos[Self] \in Seq(Nat) /\ Len(pos[Self]) = L
    BY <1>1, <1>2 DEF PlacedOk
  <1> HIDE DEF L
  <1>7. PlacedOk(R[Self], V[Self], P[Self])
    <2> DEFINE s == rc[Self]
               w == W[Self]
               v == Append(w, g)
               o == pos[Self]
    <2>1. PlacedOk(s, w, o) /\ s \in Seq(Pkt) /\ w \in Seq(Seq(Msg))
      BY <1>1, <1>2
    <2>2. Len(v) = L + 1 /\ v[L + 1] = g
      BY <1>1, <1>2, AppendIdx
    <2>3. Len(s) = L /\ \A n \in 1 .. L : o[n] # q
      <3>1. \A n \in 1 .. L : n # q
        BY <1>1
      <3> QED BY <1>2, <3>1 DEF L
    <2>4. q \in Nat /\ q \in 1 .. Len(v) /\ x.group = v[q]
      BY <1>1, <2>2
    <2> HIDE DEF s, w, o, q
    <2>5. PlacedOk(s, v, o)
      BY <2>1, PlacedMore
    <2> HIDE DEF v
    <2>6. PlacedOk(Append(s, x), v, Append(o, q))
      BY <2>1, <2>3, <2>4, <2>5, PlacedAppend
    <2> QED BY <1>3, <1>4, <1>5, <2>6 DEF s, w, v, o
  <1>8. \A y \in Peers : PlacedOk(R[y], V[y], P[y])
    BY <1>2, <1>3, <1>4, <1>5, <1>7
  <1>9. Len(R[Self]) = L + 1 /\ Len(V[Self]) = L + 1
    BY <1>1, <1>2, <1>3, <1>5, AppendIdx DEF L
  <1>10. ASSUME NEW n \in 1 .. L + 1 PROVE P[Self][n] = n
    <2> DEFINE o == pos[Self]
    <2>1. o \in Seq(Nat) /\ q \in Nat /\ Len(o) = L /\ P[Self] = Append(o, q)
      BY <1>1, <1>4, <1>6
    <2> HIDE DEF o, q
    <2>2. Append(o, q)[Len(o) + 1] = q /\ \A j \in 1 .. Len(o) : Append(o, q)[j] = o[j]
      BY <2>1, AppendIdx
    <2>3. n \in 1 .. L \/ n = L + 1
      BY <1>1
    <2>4. \A j \in 1 .. L : o[j] = j
      BY <1>2 DEF o
    <2>5. CASE n \in 1 .. L
      BY <2>1, <2>2, <2>4, <2>5
    <2>6. CASE n = L + 1
      BY <2>1, <2>2, <2>6 DEF q
    <2> QED BY <2>3, <2>5, <2>6
  <1>11. ASSUME NEW y \in Peers \ {Self}, NEW n \in 1 .. Len(R[y])
         PROVE  /\ R[y][n].conn \in DOMAIN cs /\ cs[R[y][n].conn].to = y
                /\ lo[R[y][n].conn] < P[y][n] /\ P[y][n] <= mid[R[y][n].conn]
    <2>1. R[y] = rc[y] /\ P[y] = pos[y]
      BY <1>3, <1>4
    <2> QED BY <2>1 DEF HandledOk
  <1>12. ASSUME NEW h \in DOMAIN cs PROVE Thr(R[cs[h].to], h) = FlattenSeq(SubSeq(V[cs[h].to], lo[h] + 1, mid[h]))
    <2>1. cs[h].to \in Peers /\ cs[h].to # Self
      BY LenProperties, ConnFields
    <2>2. R[cs[h].to] = rc[cs[h].to] /\ V[cs[h].to] = W[cs[h].to]
      BY <1>3, <1>5, <2>1
    <2> QED BY <2>2 DEF HandledOk
  <1>13. Len(R[Self]) = Len(V[Self]) /\ \A n \in 1 .. Len(R[Self]) : P[Self][n] = n
    BY <1>9, <1>10
  <1>14. HandledOk(R, cs, V, lo, mid, P)
    BY <1>4, <1>8, <1>11, <1>12, <1>13 DEF HandledOk
  <1> QED BY <1>14 DEF R, P, V, L

\* HandleMessage of a group for the replica itself.
LEMMA TracksSelf ==
  ASSUME NetTypes, Tracks, todo # << >>, Head(todo)[1].to = Self, todo' = Tail(todo),
         received' = Place(received, Self, [conn |-> 0, group |-> Head(todo)]), UNCHANGED <<conns, calls, cancelled>>
  PROVE  Tracks'
  <1>1. PICK W, lo, mid, pos : LinesOk(conns, cancelled, W, lo, mid) /\ HandledOk(received, conns, W, lo, mid, pos)
                               /\ SentOk(W, todo, calls)
    BY DEF Tracks
  <1> DEFINE g == Head(todo)
             x == [conn |-> 0, group |-> g]
             V == More(W, Self, g)
             P == Place(pos, Self, Len(received[Self]) + 1)
  <1>2. /\ W \in [Peers -> Seq(Seq(Msg))] /\ conns \in Seq(Conn) /\ todo \in Seq(Seq(Msg))
        /\ received \in [Peers -> Seq(Pkt)] /\ Self \in Peers
    BY <1>1, NetConstants DEF SentOk, NetTypes
  <1>3. g \in Seq(Msg)
    BY <1>2, TailIdx
  <1>4. SentOk(V, todo', calls')
    BY <1>1, <1>2, SentTake
  <1> HIDE DEF g
  <1>5. x \in Pkt /\ x.group = g
    BY <1>3 DEF Pkt
  <1>6. received' = Place(received, Self, x)
    BY DEF g
  <1> HIDE DEF x
  <1>7. LinesOk(conns, cancelled, V, lo, mid)
    <2>1. \A k \in DOMAIN conns : conns[k].to # Self
      <3>1. \A k \in DOMAIN conns : conns[k] \in Conn
        BY <1>2, LenProperties
      <3> QED BY <3>1, ConnFields
    <2>2. \A k \in DOMAIN conns : conns[k].to = Self => Takes(conns[k], cancelled, conns[k], cancelled, g)
      BY <2>1
    <2> QED BY <1>1, <1>2, <1>3, <2>2, LinesTake
  <1>8. HandledOk(Place(received, Self, x), conns, V, lo, mid, P)
    BY <1>1, <1>2, <1>3, <1>5, HandledSelf
  <1> HIDE DEF V, P
  <1>9. HandledOk(received', conns', V, lo, mid, P) /\ LinesOk(conns', cancelled', V, lo, mid)
    BY <1>6, <1>7, <1>8
  <1> QED BY <1>4, <1>9 DEF Tracks

\* Send splits a batch into groups.
LEMMA TracksSend ==
  ASSUME NetTypes, Tracks, todo = << >>, calls < Len(Batches), calls' = calls + 1,
         todo' = Net!Groups(Batches[calls + 1]), UNCHANGED <<conns, received, cancelled>>
  PROVE  Tracks' /\ todo' \in Seq(Seq(Msg)) /\ \A n \in DOMAIN todo' : todo'[n] # << >>
  <1>1. PICK W, lo, mid, pos : LinesOk(conns, cancelled, W, lo, mid) /\ HandledOk(received, conns, W, lo, mid, pos)
                               /\ SentOk(W, todo, calls)
    BY DEF Tracks
  <1>2. calls \in Nat /\ calls + 1 \in 1 .. Len(Batches) /\ calls \in 0 .. Len(Batches)
    BY NetConstants, LenProperties DEF NetTypes
  <1>3. Batches[calls + 1] \in Seq(Msg)
    BY <1>2, NetConstants, ElementOfSeq
  <1>4. /\ todo' \in Seq(Seq(Msg)) /\ \A n \in DOMAIN todo' : todo'[n] # << >>
        /\ \A p \in Peers : Bound(todo', p) = Net!To(Batches[calls + 1], p)
    BY <1>3, GroupsFacts
  <1>5. W \in [Peers -> Seq(Seq(Msg))] /\ \A p \in Peers : FlattenSeq(W[p]) \o Bound(todo, p) = Pass(calls, p)
    BY <1>1 DEF SentOk
  <1>6. ASSUME NEW p \in Peers PROVE FlattenSeq(W[p]) \o Bound(todo', p) = Pass(calls', p)
    <2>1. Bound(todo, p) = << >>
      BY BoundNone
    <2>2. W[p] \in Seq(Seq(Msg))
      BY <1>5
    <2>3. FlattenSeq(W[p]) \in Seq(Msg)
      BY <2>2, FlattenType
    <2>4. FlattenSeq(W[p]) \o << >> = FlattenSeq(W[p])
      BY <2>3, ConcatEmptySeq
    <2>5. FlattenSeq(W[p]) = Pass(calls, p)
      BY <1>5, <2>1, <2>4
    <2>6. Pass(calls + 1, p) = Pass(calls, p) \o Net!To(Batches[calls + 1], p)
      BY <1>2, PassNext
    <2> QED BY <1>4, <2>5, <2>6
  <1>7. SentOk(W, todo', calls')
    BY <1>5, <1>6 DEF SentOk
  <1>8. LinesOk(conns', cancelled', W, lo, mid) /\ HandledOk(received', conns', W, lo, mid, pos)
    BY <1>1
  <1> QED BY <1>4, <1>7, <1>8 DEF Tracks

LEMMA ConnExcept ==
  ASSUME NEW cs \in Seq(Conn), NEW k \in DOMAIN cs, NEW d \in Conn
  PROVE  /\ [cs EXCEPT ![k] = d] \in Seq(Conn) /\ DOMAIN [cs EXCEPT ![k] = d] = DOMAIN cs
         /\ [cs EXCEPT ![k] = d][k] = d /\ \A h \in DOMAIN cs : h # k => [cs EXCEPT ![k] = d][h] = cs[h]
  <1>1. k \in 1 .. Len(cs)
    BY LenProperties
  <1>2. [cs EXCEPT ![k] = d] \in Seq(Conn)
    BY <1>1, ExceptSeq
  <1> QED BY <1>2

\* One connection changes: the types and the map of channels.
LEMMA StepShape ==
  ASSUME NetTypes, NetShape, NEW k \in DOMAIN conns, NEW d \in Conn, conns' = [conns EXCEPT ![k] = d],
         d.to = conns[k].to, ConnOk(k, d, clientBufs, cancelled), received' \in [Peers -> Seq(Pkt)],
         UNCHANGED <<calls, todo, chosen, clientBufs, cancelled, closing>>
  PROVE  /\ NetTypes' /\ NetShape' /\ conns' \in Seq(Conn) /\ DOMAIN conns' = DOMAIN conns /\ conns'[k] = d
         /\ \A h \in DOMAIN conns : h # k => conns'[h] = conns[h]
  <1>1. conns \in Seq(Conn)
    BY DEF NetTypes
  <1>2. /\ conns' \in Seq(Conn) /\ DOMAIN conns' = DOMAIN conns /\ conns'[k] = d
        /\ \A h \in DOMAIN conns : h # k => conns'[h] = conns[h]
    BY <1>1, ConnExcept
  <1>3. NetTypes'
    BY <1>2 DEF NetTypes
  <1>4. \A h \in DOMAIN conns : conns'[h].to = conns[h].to
    BY <1>2
  <1>5. \A h \in DOMAIN conns : ConnOk(h, conns'[h], clientBufs, cancelled)
    BY <1>2 DEF NetShape
  <1>6. NetShape'
    BY <1>2, <1>4, <1>5 DEF NetShape
  <1> QED BY <1>2, <1>3, <1>6

LEMMA MovesNot == ASSUME NEW c \in Conn, NEW can PROVE Moves(c, can, c, can)
  BY MovesSame

\* One connection changes and nothing is sent or handled.
LEMMA StepMoves ==
  ASSUME NetInv, NEW k \in DOMAIN conns, NEW d \in Conn, conns' = [conns EXCEPT ![k] = d],
         Moves(conns[k], cancelled, d, cancelled), ConnOk(k, d, clientBufs, cancelled),
         UNCHANGED <<calls, todo, chosen, clientBufs, cancelled, closing, received>>
  PROVE  NetInv'
  <1>1. NetTypes /\ NetShape /\ Tracks /\ conns \in Seq(Conn) /\ received' \in [Peers -> Seq(Pkt)]
    BY DEF NetInv, NetTypes
  <1>2. d.to = conns[k].to
    BY DEF Moves
  <1>3. /\ NetTypes' /\ NetShape' /\ conns' \in Seq(Conn) /\ DOMAIN conns' = DOMAIN conns /\ conns'[k] = d
        /\ \A h \in DOMAIN conns : h # k => conns'[h] = conns[h]
    BY <1>1, <1>2, StepShape
  <1>4. ASSUME NEW h \in DOMAIN conns PROVE Moves(conns[h], cancelled, conns'[h], cancelled')
    <2>1. conns[h] \in Conn
      BY <1>1, LenProperties
    <2>2. Moves(conns[h], cancelled, conns[h], cancelled)
      BY <2>1, MovesNot
    <2> QED BY <1>3, <2>2
  <1>5. Tracks'
    BY <1>1, <1>3, <1>4, TracksMove
  <1> QED BY <1>3, <1>5 DEF NetInv

\* The invariant is kept by every action.
LEMMA DialKeeps ==
  ASSUME NetInv, NEW k \in DOMAIN conns, Net!Dial(k)
  PROVE  NetInv'
  <1>1. UNCHANGED <<calls, todo, chosen, clientBufs, cancelled, closing, received>> /\ conns[k].pc = "dial"
    BY DEF Net!Dial
  <1>2. conns[k] \in Conn /\ ConnOk(k, conns[k], clientBufs, cancelled)
    BY LenProperties DEF NetInv, NetTypes, NetShape
  <1>3. ASSUME NEW v \in {"send", "return"}, conns' = [conns EXCEPT ![k].pc = v],
               v = "send" => ~cancelled, v = "return" => cancelled
        PROVE  NetInv'
    <2> DEFINE d == [conns[k] EXCEPT !.pc = v]
    <2>1. conns' = [conns EXCEPT ![k] = d]
      BY <1>3
    <2>2. /\ d \in Conn /\ d.to = conns[k].to /\ d.pc = v /\ d.handler = conns[k].handler
          /\ d.stream = conns[k].stream /\ d.buf = conns[k].buf /\ d.alive = conns[k].alive /\ d.open = conns[k].open
      BY <1>2 DEF Conn
    <2> HIDE DEF d
    <2>3. Flows(d, cancelled) = Flows(conns[k], cancelled)
      <3>1. Flows(d, cancelled) <=> Flows(conns[k], cancelled)
        BY <1>1, <1>3, <2>2 DEF Flows
      <3> QED BY <1>2, <2>2, <3>1, RestType
    <2>4. Rest(d, cancelled) = Rest(conns[k], cancelled)
      BY <2>2, <2>3 DEF Rest
    <2>5. Moves(conns[k], cancelled, d, cancelled)
      BY <1>2, <2>2, <2>3, <2>4, MovesSame
    <2>6. ConnOk(k, d, clientBufs, cancelled)
      BY <1>1, <1>2, <1>3, <2>2 DEF ConnOk
    <2> QED BY <1>1, <2>1, <2>2, <2>5, <2>6, StepMoves
  <1>4. \/ ~cancelled /\ conns' = [conns EXCEPT ![k].pc = "send"]
        \/ cancelled /\ conns' = [conns EXCEPT ![k].pc = "return"]
    BY DEF Net!Dial
  <1> QED BY <1>3, <1>4

LEMMA TransmitKeeps ==
  ASSUME NetInv, NEW k \in DOMAIN conns, Net!Transmit(k)
  PROVE  NetInv'
  <1> DEFINE c == conns[k]
  <1>1. UNCHANGED <<calls, todo, chosen, clientBufs, cancelled, closing, received>> /\ c.pc = "send"
    BY DEF Net!Transmit
  <1>2. c \in Conn /\ ConnOk(k, c, clientBufs, cancelled) /\ conns \in Seq(Conn)
    BY LenProperties DEF NetInv, NetTypes, NetShape
  <1>3. ASSUME c.buf # << >>, c.alive, conns' = [conns EXCEPT ![k].buf = Tail(@), ![k].stream = Append(@, Head(c.buf)), ![k].pc = @]
        PROVE  NetInv'
    <2> DEFINE d == [c EXCEPT !.buf = Tail(@), !.stream = Append(@, Head(c.buf)), !.pc = @]
    <2>1. conns' = [conns EXCEPT ![k] = d]
      BY <1>3
    <2>2. c.buf \in Seq(Seq(Msg)) /\ c.stream \in Seq(Seq(Msg)) /\ c.handler \in Seq(Seq(Msg))
      BY <1>2, ConnFields
    <2>3. Head(c.buf) \in Seq(Msg) /\ Tail(c.buf) \in Seq(Seq(Msg))
      BY <1>3, <2>2, TailIdx
    <2>4. Append(c.stream, Head(c.buf)) \in Seq(Seq(Msg))
      BY <2>2, <2>3, AppendProperties
    <2>5. /\ d \in Conn /\ d.to = c.to /\ d.pc = c.pc /\ d.handler = c.handler /\ d.alive = c.alive
          /\ d.open = c.open /\ d.stream = Append(c.stream, Head(c.buf)) /\ d.buf = Tail(c.buf)
      BY <1>2, <2>3, <2>4 DEF Conn
    <2> HIDE DEF d
    <2>6. Flows(d, cancelled) /\ Flows(c, cancelled) /\ Flows(d, cancelled) = Flows(c, cancelled)
      <3>1. ~cancelled
        BY <1>1, <1>2, <1>3 DEF ConnOk
      <3>2. Flows(d, cancelled) /\ Flows(c, cancelled)
        BY <1>1, <1>3, <2>5, <3>1 DEF Flows
      <3> QED BY <1>2, <2>5, <3>2, RestType
    <2>7. Rest(d, cancelled) = Rest(c, cancelled)
      <3> DEFINE X == Seq(Msg)
                 h == c.handler
                 s == c.stream
                 u == c.buf
      <3>1. h \in Seq(X) /\ s \in Seq(X) /\ u \in Seq(X) /\ u # << >>
        BY <1>3, <2>2
      <3>2. Head(u) \in X /\ Tail(u) \in Seq(X) /\ Append(s, Head(u)) \in Seq(X)
        BY <2>3, <2>4
      <3>3. Rest(c, cancelled) = (h \o s) \o u /\ Rest(d, cancelled) = (h \o Append(s, Head(u))) \o Tail(u)
        BY <2>5, <2>6 DEF Rest
      <3> HIDE DEF X, h, s, u
      <3>4. \A j, l, m \in Seq(X) : (j \o l) \o m = j \o (l \o m)
        BY ConcatAssoc
      <3>5. s \o u = Append(s, Head(u)) \o Tail(u)
        BY <3>1, MoveFirst
      <3>6. (h \o s) \o u = h \o (s \o u)
        BY <3>1, <3>4
      <3>7. (h \o Append(s, Head(u))) \o Tail(u) = h \o (Append(s, Head(u)) \o Tail(u))
        BY <3>1, <3>2, <3>4
      <3> QED BY <3>3, <3>5, <3>6, <3>7
    <2>8. Moves(c, cancelled, d, cancelled)
      BY <1>2, <2>5, <2>6, <2>7, MovesSame
    <2>9. ConnOk(k, d, clientBufs, cancelled)
      BY <1>2, <2>5 DEF ConnOk
    <2> QED BY <1>1, <2>1, <2>5, <2>8, <2>9, StepMoves
  <1>4. ASSUME NEW t \in Seq(Seq(Msg)), ~c.alive \/ cancelled, conns' = [conns EXCEPT ![k].buf = t, ![k].pc = "return"]
        PROVE  NetInv'
    <2> DEFINE d == [c EXCEPT !.buf = t, !.pc = "return"]
    <2>1. conns' = [conns EXCEPT ![k] = d]
      BY <1>4
    <2>2. /\ d \in Conn /\ d.to = c.to /\ d.pc = "return" /\ d.handler = c.handler /\ d.alive = c.alive
          /\ d.open = c.open /\ d.stream = c.stream
      BY <1>2 DEF Conn
    <2> HIDE DEF d
    <2>3. ~Flows(d, cancelled) /\ ~Flows(c, cancelled) /\ Flows(d, cancelled) = Flows(c, cancelled)
      <3>1. ~Flows(d, cancelled) /\ ~Flows(c, cancelled)
        BY <1>4, <2>2 DEF Flows
      <3> QED BY <1>2, <2>2, <3>1, RestType
    <2>4. Rest(d, cancelled) = Rest(c, cancelled)
      BY <2>2, <2>3 DEF Rest
    <2>5. Moves(c, cancelled, d, cancelled)
      BY <1>2, <2>2, <2>3, <2>4, MovesSame
    <2>6. ConnOk(k, d, clientBufs, cancelled)
      BY <1>1, <1>2, <2>2 DEF ConnOk
    <2> QED BY <1>1, <2>1, <2>2, <2>5, <2>6, StepMoves
  <1>5. CASE c.buf # << >> /\ c.alive
    <2>1. conns' = [conns EXCEPT ![k].buf = Tail(@), ![k].stream = Append(@, Head(c.buf)), ![k].pc = @]
      BY <1>5 DEF Net!Transmit
    <2> QED BY <1>3, <1>5, <2>1
  <1>6. CASE c.buf # << >> /\ ~c.alive
    <2>1. conns' = [conns EXCEPT ![k].buf = Tail(@), ![k].stream = @, ![k].pc = "return"]
      BY <1>6 DEF Net!Transmit
    <2>2. conns' = [conns EXCEPT ![k].buf = Tail(c.buf), ![k].pc = "return"]
      BY <1>2, <2>1 DEF Conn
    <2>3. Tail(c.buf) \in Seq(Seq(Msg))
      BY <1>2, <1>6, ConnFields, TailIdx
    <2> QED BY <1>4, <1>6, <2>2, <2>3
  <1>7. CASE c.buf = << >>
    <2>1. ~c.open /\ conns' = [conns EXCEPT ![k].pc = "return"]
      BY <1>7 DEF Net!Transmit
    <2>2. conns' = [conns EXCEPT ![k].buf = c.buf, ![k].pc = "return"]
      BY <1>2, <2>1 DEF Conn
    <2>3. cancelled
      BY <1>2, <2>1 DEF ConnOk
    <2>4. c.buf \in Seq(Seq(Msg))
      BY <1>2, ConnFields
    <2> QED BY <1>4, <2>2, <2>3, <2>4
  <1> QED BY <1>5, <1>6, <1>7

LEMMA RecvKeeps ==
  ASSUME NetInv, NEW k \in DOMAIN conns, Net!Recv(k)
  PROVE  NetInv'
  <1> DEFINE c == conns[k]
             d == [c EXCEPT !.handler = <<Head(c.stream)>>, !.stream = Tail(@)]
  <1>1. /\ UNCHANGED <<calls, todo, chosen, clientBufs, cancelled, closing, received>>
        /\ c.stream # << >> /\ c.handler = << >> /\ conns' = [conns EXCEPT ![k] = d]
    BY DEF Net!Recv
  <1>2. c \in Conn /\ ConnOk(k, c, clientBufs, cancelled)
    BY LenProperties DEF NetInv, NetTypes, NetShape
  <1>3. c.stream \in Seq(Seq(Msg))
    BY <1>2, ConnFields
  <1>4. Head(c.stream) \in Seq(Msg) /\ Tail(c.stream) \in Seq(Seq(Msg))
    BY <1>1, <1>3, TailIdx
  <1>5. <<Head(c.stream)>> \in Seq(Seq(Msg)) /\ Len(<<Head(c.stream)>>) = 1
    BY <1>4
  <1>6. /\ d \in Conn /\ d.to = c.to /\ d.pc = c.pc /\ d.handler = <<Head(c.stream)>> /\ d.alive = c.alive
        /\ d.open = c.open /\ d.stream = Tail(c.stream) /\ d.buf = c.buf
    BY <1>2, <1>4, <1>5 DEF Conn
  <1> HIDE DEF d
  <1>7. Flows(d, cancelled) = Flows(c, cancelled)
    BY <1>6 DEF Flows
  <1>8. Rest(d, cancelled) = Rest(c, cancelled)
    <2> DEFINE X == Seq(Msg)
               s == c.stream
               z == IF Flows(c, cancelled) THEN c.buf ELSE << >>
    <2>1. s \in Seq(X) /\ s # << >>
      BY <1>1, <1>3
    <2>2. Rest(c, cancelled) = (<< >> \o s) \o z /\ Rest(d, cancelled) = (<<Head(s)>> \o Tail(s)) \o z
      BY <1>1, <1>6, <1>7 DEF Rest
    <2> HIDE DEF X, s, z
    <2>3. << >> \o s = s
      BY <2>1, ConcatEmptySeq
    <2>4. <<Head(s)>> \o Tail(s) = s
      <3>1. << >> \o s = Append(<< >>, Head(s)) \o Tail(s)
        BY <2>1, EmptySeq, MoveFirst
      <3> QED BY <2>3, <3>1
    <2> QED BY <2>2, <2>3, <2>4
  <1>9. Moves(c, cancelled, d, cancelled)
    BY <1>2, <1>6, <1>7, <1>8, MovesSame
  <1>10. ConnOk(k, d, clientBufs, cancelled)
    BY <1>2, <1>5, <1>6 DEF ConnOk
  <1> QED BY <1>1, <1>6, <1>9, <1>10, StepMoves

LEMMA BreakKeeps ==
  ASSUME NetInv, NEW k \in DOMAIN conns, Net!Break(k)
  PROVE  NetInv'
  <1> DEFINE c == conns[k]
             d == [c EXCEPT !.alive = FALSE, !.stream = << >>]
  <1>1. /\ UNCHANGED <<calls, todo, chosen, clientBufs, cancelled, closing, received>>
        /\ conns' = [conns EXCEPT ![k] = d]
    BY DEF Net!Break
  <1>2. c \in Conn /\ ConnOk(k, c, clientBufs, cancelled)
    BY LenProperties DEF NetInv, NetTypes, NetShape
  <1>3. << >> \in Seq(Seq(Msg))
    BY EmptySeq
  <1>4. /\ d \in Conn /\ d.to = c.to /\ d.pc = c.pc /\ d.handler = c.handler /\ ~d.alive
        /\ d.open = c.open /\ d.stream = << >>
    BY <1>2, <1>3 DEF Conn
  <1> HIDE DEF d
  <1>5. ~Flows(d, cancelled)
    BY <1>4 DEF Flows
  <1>6. Moves(c, cancelled, d, cancelled)
    BY <1>2, <1>4, <1>5, MovesCut
  <1>7. ConnOk(k, d, clientBufs, cancelled)
    BY <1>2, <1>4 DEF ConnOk
  <1> QED BY <1>1, <1>4, <1>6, <1>7, StepMoves

LEMMA ReturnKeeps ==
  ASSUME NetInv, NEW k \in DOMAIN conns, Net!Return(k)
  PROVE  NetInv'
  <1> DEFINE c == conns[k]
             d == [c EXCEPT !.pc = "gone"]
  <1>1. /\ UNCHANGED <<calls, todo, chosen, cancelled, closing, received>> /\ c.pc = "return"
        /\ clientBufs' = [clientBufs EXCEPT ![c.to] = 0] /\ conns' = [conns EXCEPT ![k] = d]
    BY DEF Net!Return
  <1>2. c \in Conn /\ conns \in Seq(Conn) /\ NetTypes /\ NetShape /\ Tracks /\ clientBufs \in [Peers -> Nat]
    BY LenProperties DEF NetInv, NetTypes
  <1>3. /\ d \in Conn /\ d.to = c.to /\ d.pc = "gone" /\ d.handler = c.handler /\ d.alive = c.alive
        /\ d.open = c.open /\ d.stream = c.stream
    BY <1>2 DEF Conn
  <1>4. c.to \in Peers /\ c.to # Self
    BY <1>2, ConnFields
  <1> HIDE DEF d
  <1>5. /\ conns' \in Seq(Conn) /\ DOMAIN conns' = DOMAIN conns /\ conns'[k] = d
        /\ \A h \in DOMAIN conns : h # k => conns'[h] = conns[h]
    BY <1>1, <1>2, <1>3, ConnExcept
  <1>6. Tracks'
    <2>1. ~Flows(d, cancelled) /\ ~Flows(c, cancelled) /\ Flows(d, cancelled) = Flows(c, cancelled)
      <3>1. ~Flows(d, cancelled) /\ ~Flows(c, cancelled)
        BY <1>1, <1>3 DEF Flows
      <3> QED BY <1>2, <1>3, <3>1, RestType
    <2>2. Rest(d, cancelled) = Rest(c, cancelled)
      BY <1>3, <2>1 DEF Rest
    <2>3. Moves(c, cancelled, d, cancelled)
      BY <1>2, <1>3, <2>1, <2>2, MovesSame
    <2>4. ASSUME NEW h \in DOMAIN conns PROVE Moves(conns[h], cancelled, conns'[h], cancelled')
      <3>1. conns[h] \in Conn
        BY <1>2, LenProperties
      <3>2. Moves(conns[h], cancelled, conns[h], cancelled)
        BY <3>1, MovesNot
      <3> QED BY <1>1, <1>5, <2>3, <3>2
    <2> QED BY <1>1, <1>2, <1>5, <2>4, TracksMove
  <1>7. /\ clientBufs' \in [Peers -> Nat] /\ clientBufs'[c.to] = 0
        /\ \A p \in Peers : p # c.to => clientBufs'[p] = clientBufs[p]
    BY <1>1, <1>2, <1>4
  <1>8. NetTypes'
    BY <1>1, <1>2, <1>5, <1>7 DEF NetTypes
  <1>9. \A h \in DOMAIN conns : conns'[h].to = conns[h].to /\ conns[h].to \in Peers
    <2>1. \A h \in DOMAIN conns : conns[h] \in Conn
      BY <1>2, LenProperties
    <2> QED BY <1>3, <1>5, <2>1, ConnFields
  <1>10. ASSUME NEW h \in DOMAIN conns PROVE ConnOk(h, conns'[h], clientBufs', cancelled')
    <2>1. ConnOk(h, conns[h], clientBufs, cancelled) /\ ConnOk(k, c, clientBufs, cancelled)
      BY <1>2 DEF NetShape
    <2>2. CASE h = k
      BY <1>1, <1>3, <1>5, <2>1, <2>2 DEF ConnOk
    <2>3. CASE h # k
      <3>1. conns'[h] = conns[h]
        BY <1>5, <2>3
      <3>2. ASSUME ~cancelled, conns[h].pc # "gone" PROVE clientBufs'[conns[h].to] = h
        <4>1. clientBufs[conns[h].to] = h /\ clientBufs[c.to] = k
          BY <1>1, <2>1, <3>2 DEF ConnOk
        <4> QED BY <1>7, <1>9, <2>3, <4>1
      <3> QED BY <1>1, <2>1, <3>1, <3>2 DEF ConnOk
    <2> QED BY <2>2, <2>3
  <1>11. clientBufs'[Self] = 0
    BY <1>2, <1>4, <1>7, NetConstants DEF NetShape
  <1>12. \A p \in Peers : clientBufs'[p] # 0 => clientBufs'[p] \in DOMAIN conns' /\ conns'[clientBufs'[p]].to = p
    BY <1>2, <1>5, <1>7, <1>9 DEF NetShape
  <1>13. chosen' # 0 => chosen' \in DOMAIN conns' /\ todo' # << >> /\ conns'[chosen'].to = Head(todo')[1].to
    BY <1>1, <1>2, <1>5, <1>9 DEF NetShape
  <1>14. ~cancelled' /\ chosen' # 0 => clientBufs'[conns'[chosen'].to] \in {0, chosen'}
    <2> SUFFICES ASSUME ~cancelled, chosen # 0 PROVE clientBufs'[conns'[chosen].to] \in {0, chosen}
      BY <1>1
    <2>1. chosen \in DOMAIN conns /\ clientBufs[conns[chosen].to] \in {0, chosen}
      BY <1>2 DEF NetShape
    <2> QED BY <1>7, <1>9, <2>1
  <1>15. NetShape'
    BY <1>1, <1>2, <1>5, <1>10, <1>11, <1>12, <1>13, <1>14 DEF NetShape
  <1> QED BY <1>6, <1>8, <1>15 DEF NetInv

LEMMA HandleKeeps ==
  ASSUME NetInv, NEW k \in DOMAIN conns, Net!Handle(k)
  PROVE  NetInv'
  <1> DEFINE c == conns[k]
             d == [c EXCEPT !.handler = << >>]
             g == c.handler[1]
  <1>1. /\ UNCHANGED <<calls, todo, chosen, clientBufs, cancelled, closing>> /\ c.handler # << >>
        /\ conns' = [conns EXCEPT ![k] = d] /\ received' = Place(received, c.to, [conn |-> k, group |-> g])
    BY DEF Net!Handle, Place
  <1>2. /\ c \in Conn /\ ConnOk(k, c, clientBufs, cancelled) /\ NetTypes /\ NetShape /\ Tracks
        /\ received \in [Peers -> Seq(Pkt)] /\ k \in Nat
    BY LenProperties DEF NetInv, NetTypes, NetShape
  <1>3. << >> \in Seq(Seq(Msg)) /\ Len(<< >>) = 0
    BY EmptySeq
  <1>4. /\ d \in Conn /\ d.to = c.to /\ d.pc = c.pc /\ d.handler = << >> /\ d.alive = c.alive
        /\ d.open = c.open /\ d.stream = c.stream /\ d.buf = c.buf
    BY <1>2, <1>3 DEF Conn
  <1> HIDE DEF d
  <1>5. c.handler \in Seq(Seq(Msg)) /\ c.to \in Peers /\ c.stream \in Seq(Seq(Msg))
    BY <1>2, ConnFields
  <1>6. c.handler = <<g>> /\ g \in Seq(Msg)
    <2> DEFINE X == Seq(Msg)
               h == c.handler
    <2>1. h \in Seq(X) /\ h # << >> /\ Len(h) <= 1
      BY <1>1, <1>2, <1>5 DEF ConnOk
    <2> HIDE DEF X, h
    <2>2. Len(h) \in Nat /\ Len(h) # 0
      BY <2>1, LenProperties, EmptySeq
    <2>3. Len(h) = 1
      BY <2>1, <2>2
    <2>4. h[1] \in X
      BY <2>1, <2>3, ElementOfSeq
    <2>5. h = <<h[1]>>
      BY <2>1, <2>3, <2>4, LenProperties
    <2> QED BY <2>4, <2>5 DEF h, X
  <1> HIDE DEF g
  <1>7. Flows(d, cancelled) = Flows(c, cancelled)
    BY <1>4 DEF Flows
  <1>8. Rest(c, cancelled) = <<g>> \o Rest(d, cancelled)
    <2> DEFINE X == Seq(Msg)
               s == c.stream
               z == IF Flows(c, cancelled) THEN c.buf ELSE << >>
    <2>1. s \in Seq(X) /\ z \in Seq(X) /\ <<g>> \in Seq(X)
      BY <1>2, <1>5, <1>6, ConnFields, EmptySeq
    <2>2. Rest(c, cancelled) = (<<g>> \o s) \o z /\ Rest(d, cancelled) = (<< >> \o s) \o z
      BY <1>4, <1>6, <1>7 DEF Rest
    <2> HIDE DEF X, s, z
    <2>3. << >> \o s = s
      BY <2>1, ConcatEmptySeq
    <2>4. \A j, l, m \in Seq(X) : (j \o l) \o m = j \o (l \o m)
      BY ConcatAssoc
    <2>5. (<<g>> \o s) \o z = <<g>> \o (s \o z)
      BY <2>1, <2>4
    <2> QED BY <2>2, <2>3, <2>5
  <1>9. Hands(c, cancelled, d, g)
    BY <1>4, <1>7, <1>8 DEF Hands
  <1>10. ConnOk(k, d, clientBufs, cancelled)
    BY <1>2, <1>3, <1>4 DEF ConnOk
  <1>11. received' \in [Peers -> Seq(Pkt)]
    <2>1. [conn |-> k, group |-> g] \in Pkt
      BY <1>2, <1>6 DEF Pkt
    <2>2. received[c.to] \in Seq(Pkt)
      BY <1>2, <1>5
    <2>3. Append(received[c.to], [conn |-> k, group |-> g]) \in Seq(Pkt)
      BY <2>1, <2>2, AppendProperties
    <2> QED BY <1>1, <1>2, <1>5, <2>3 DEF Place
  <1>12. /\ NetTypes' /\ NetShape' /\ conns' \in Seq(Conn) /\ DOMAIN conns' = DOMAIN conns /\ conns'[k] = d
         /\ \A h \in DOMAIN conns : h # k => conns'[h] = conns[h]
    BY <1>1, <1>2, <1>4, <1>10, <1>11, StepShape
  <1>13. Tracks'
    <2>1. Hands(c, cancelled, conns'[k], g)
      BY <1>9, <1>12
    <2> QED BY <1>1, <1>2, <1>6, <1>12, <2>1, TracksHandle
  <1> QED BY <1>12, <1>13 DEF NetInv

LEMMA CancelKeeps ==
  ASSUME NetInv, Net!Cancel
  PROVE  NetInv'
  <1> DEFINE d(j) == [conns[j] EXCEPT !.alive = FALSE, !.stream = << >>]
  <1>1. /\ UNCHANGED <<calls, todo, chosen, clientBufs, received>> /\ cancelled' = TRUE /\ closing' = "cancelled"
        /\ conns' = [j \in DOMAIN conns |-> d(j)]
    BY DEF Net!Cancel
  <1>2. conns \in Seq(Conn) /\ NetTypes /\ NetShape /\ Tracks
    BY DEF NetInv, NetTypes
  <1>3. Len(conns) \in Nat /\ DOMAIN conns = 1 .. Len(conns) /\ \A j \in DOMAIN conns : conns[j] \in Conn
    BY <1>2, LenProperties
  <1>4. << >> \in Seq(Seq(Msg))
    BY EmptySeq
  <1>5. ASSUME NEW j \in DOMAIN conns
        PROVE  /\ d(j) \in Conn /\ d(j).to = conns[j].to /\ d(j).handler = conns[j].handler /\ ~d(j).alive
               /\ d(j).stream = << >>
    BY <1>3, <1>4 DEF Conn
  <1>6. DOMAIN conns' = DOMAIN conns /\ \A j \in DOMAIN conns : conns'[j] = d(j)
    BY <1>1
  <1> HIDE DEF d
  <1>7. conns' \in Seq(Conn)
    <2>1. conns' \in [1 .. Len(conns) -> Conn]
      BY <1>1, <1>3, <1>5
    <2> QED BY <1>3, <2>1, FunctionIsSequence
  <1>8. Tracks'
    <2>1. ASSUME NEW j \in DOMAIN conns PROVE Moves(conns[j], cancelled, conns'[j], cancelled')
      <3>1. ~Flows(d(j), TRUE)
        BY DEF Flows
      <3>2. Moves(conns[j], cancelled, d(j), TRUE)
        BY <1>3, <1>5, <3>1, MovesCut
      <3> QED BY <1>1, <1>6, <3>2
    <2> QED BY <1>1, <1>2, <1>6, <1>7, <2>1, TracksMove
  <1>9. NetTypes'
    BY <1>1, <1>2, <1>7 DEF NetTypes
  <1>10. \A j \in DOMAIN conns : ConnOk(j, conns'[j], clientBufs', cancelled')
    BY <1>1, <1>2, <1>5, <1>6 DEF NetShape, ConnOk
  <1>11. NetShape'
    BY <1>1, <1>2, <1>5, <1>6, <1>10 DEF NetShape
  <1> QED BY <1>8, <1>9, <1>11 DEF NetInv

LEMMA CloseChannelsKeeps ==
  ASSUME NetInv, Net!CloseChannels
  PROVE  NetInv'
  <1> DEFINE d(j) == [conns[j] EXCEPT !.open = @ /\ clientBufs[conns[j].to] # j]
  <1>1. /\ UNCHANGED <<calls, todo, chosen, cancelled, received>> /\ closing' = "closed" /\ closing = "cancelled"
        /\ conns' = [j \in DOMAIN conns |-> d(j)] /\ clientBufs' = [p \in Peers |-> 0]
    BY DEF Net!CloseChannels
  <1>2. conns \in Seq(Conn) /\ NetTypes /\ NetShape /\ Tracks /\ cancelled
    BY <1>1 DEF NetInv, NetTypes, NetShape
  <1>3. Len(conns) \in Nat /\ DOMAIN conns = 1 .. Len(conns) /\ \A j \in DOMAIN conns : conns[j] \in Conn
    BY <1>2, LenProperties
  <1>4. ASSUME NEW j \in DOMAIN conns
        PROVE  /\ d(j) \in Conn /\ d(j).to = conns[j].to /\ d(j).handler = conns[j].handler
               /\ d(j).alive = conns[j].alive /\ d(j).pc = conns[j].pc /\ d(j).stream = conns[j].stream
    BY <1>3 DEF Conn
  <1>5. DOMAIN conns' = DOMAIN conns /\ \A j \in DOMAIN conns : conns'[j] = d(j)
    BY <1>1
  <1> HIDE DEF d
  <1>6. conns' \in Seq(Conn)
    <2>1. conns' \in [1 .. Len(conns) -> Conn]
      BY <1>1, <1>3, <1>4
    <2> QED BY <1>3, <2>1, FunctionIsSequence
  <1>7. Tracks'
    <2>1. ASSUME NEW j \in DOMAIN conns PROVE Moves(conns[j], cancelled, conns'[j], cancelled')
      <3>1. ~Flows(d(j), cancelled) /\ ~Flows(conns[j], cancelled)
        BY <1>2 DEF Flows
      <3>2. Flows(d(j), cancelled) = Flows(conns[j], cancelled)
        BY <1>3, <1>4, <3>1, RestType
      <3>3. Rest(d(j), cancelled) = Rest(conns[j], cancelled)
        BY <1>4, <3>1 DEF Rest
      <3>4. Moves(conns[j], cancelled, d(j), cancelled)
        BY <1>3, <1>4, <3>2, <3>3, MovesSame
      <3> QED BY <1>1, <1>5, <3>4
    <2> QED BY <1>1, <1>2, <1>5, <1>6, <2>1, TracksMove
  <1>8. NetTypes'
    BY <1>1, <1>2, <1>6 DEF NetTypes
  <1>9. \A j \in DOMAIN conns : ConnOk(j, conns'[j], clientBufs', cancelled')
    BY <1>1, <1>2, <1>4, <1>5 DEF NetShape, ConnOk
  <1>10. clientBufs'[Self] = 0 /\ \A p \in Peers : clientBufs'[p] = 0
    BY <1>1, NetConstants
  <1>11. NetShape'
    BY <1>1, <1>2, <1>4, <1>5, <1>9, <1>10 DEF NetShape
  <1> QED BY <1>7, <1>8, <1>11 DEF NetInv

\* The group that sendAsync is called with.
LEMMA HeadTo ==
  ASSUME NetTypes, todo # << >>
  PROVE  /\ Head(todo) \in Seq(Msg) /\ Head(todo)[1].to \in Peers
         /\ Tail(todo) \in Seq(Seq(Msg)) /\ \A n \in DOMAIN Tail(todo) : Tail(todo)[n] # << >>
  <1> DEFINE t == Tail(todo)
             g == Head(todo)
  <1>1. todo \in Seq(Seq(Msg)) /\ \A n \in DOMAIN todo : todo[n] # << >>
    BY DEF NetTypes
  <1>2. /\ g \in Seq(Msg) /\ t \in Seq(Seq(Msg)) /\ g = todo[1] /\ 1 \in DOMAIN todo
        /\ \A n \in DOMAIN t : t[n] = todo[n + 1] /\ n + 1 \in DOMAIN todo
    <2> DEFINE X == Seq(Msg)
    <2>1. todo \in Seq(X)
      BY <1>1
    <2> HIDE DEF X
    <2>2. /\ g \in X /\ t \in Seq(X) /\ Len(todo) \in Nat /\ Len(todo) # 0 /\ Len(t) = Len(todo) - 1
          /\ DOMAIN todo = 1 .. Len(todo) /\ DOMAIN t = 1 .. Len(t) /\ g = todo[1]
          /\ \A n \in 1 .. Len(t) : t[n] = todo[n + 1]
      BY <2>1, TailIdx, LenProperties, EmptySeq
    <2>3. \A n \in 1 .. Len(t) : n + 1 \in 1 .. Len(todo)
      BY <2>2
    <2>4. 1 \in 1 .. Len(todo)
      BY <2>2
    <2> QED BY <2>2, <2>3, <2>4 DEF X
  <1>3. g[1] \in Msg
    <2> HIDE DEF g
    <2>1. g # << >> /\ g \in Seq(Msg)
      BY <1>1, <1>2
    <2>2. Len(g) \in Nat /\ Len(g) # 0
      BY <2>1, LenProperties, EmptySeq
    <2>3. 1 \in 1 .. Len(g)
      BY <2>2
    <2> QED BY <2>1, <2>3, ElementOfSeq
  <1>4. g[1].to \in Peers
    BY <1>3 DEF Msg
  <1> QED BY <1>1, <1>2, <1>4

LEMMA SendKeeps ==
  ASSUME NetInv, Net!Send
  PROVE  NetInv'
  <1>1. /\ todo = << >> /\ calls < Len(Batches) /\ calls' = calls + 1 /\ todo' = Net!Groups(Batches[calls + 1])
        /\ UNCHANGED <<chosen, clientBufs, conns, received, cancelled, closing>>
    BY DEF Net!Send
  <1>2. NetTypes /\ NetShape /\ Tracks
    BY DEF NetInv
  <1>3. Tracks' /\ todo' \in Seq(Seq(Msg)) /\ \A n \in DOMAIN todo' : todo'[n] # << >>
    BY <1>1, <1>2, TracksSend
  <1>4. calls' \in 0 .. Len(Batches)
    BY <1>1, <1>2, NetConstants, LenProperties DEF NetTypes
  <1>5. NetTypes'
    BY <1>1, <1>2, <1>3, <1>4 DEF NetTypes
  <1>6. NetShape'
    BY <1>1, <1>2 DEF NetShape
  <1> QED BY <1>3, <1>5, <1>6 DEF NetInv

LEMMA SendToSelfKeeps ==
  ASSUME NetInv, Net!SendToSelf
  PROVE  NetInv'
  <1>1. /\ todo # << >> /\ Head(todo)[1].to = Self /\ todo' = Tail(todo)
        /\ received' = Place(received, Self, [conn |-> 0, group |-> Head(todo)])
        /\ UNCHANGED <<calls, chosen, clientBufs, conns, cancelled, closing>>
    BY DEF Net!SendToSelf, Place
  <1>2. NetTypes /\ NetShape /\ Tracks /\ conns \in Seq(Conn) /\ received \in [Peers -> Seq(Pkt)] /\ Self \in Peers
    BY NetConstants DEF NetInv, NetTypes
  <1>3. Head(todo) \in Seq(Msg) /\ todo' \in Seq(Seq(Msg)) /\ \A n \in DOMAIN todo' : todo'[n] # << >>
    BY <1>1, <1>2, HeadTo
  <1>4. Tracks'
    BY <1>1, <1>2, TracksSelf
  <1>5. chosen = 0
    <2> SUFFICES ASSUME chosen # 0 PROVE FALSE
      OBVIOUS
    <2>1. chosen \in DOMAIN conns /\ conns[chosen].to = Self
      BY <1>1, <1>2 DEF NetShape
    <2>2. conns[chosen] \in Conn
      BY <1>2, <2>1, LenProperties
    <2> QED BY <2>1, <2>2, ConnFields
  <1>6. received' \in [Peers -> Seq(Pkt)]
    <2>1. [conn |-> 0, group |-> Head(todo)] \in Pkt
      BY <1>3 DEF Pkt
    <2>2. Append(received[Self], [conn |-> 0, group |-> Head(todo)]) \in Seq(Pkt)
      BY <1>2, <2>1, AppendProperties
    <2> QED BY <1>1, <1>2, <2>2 DEF Place
  <1>7. NetTypes'
    BY <1>1, <1>2, <1>3, <1>6 DEF NetTypes
  <1>8. NetShape'
    BY <1>1, <1>2, <1>5 DEF NetShape
  <1> QED BY <1>4, <1>7, <1>8 DEF NetInv

LEMMA LookupKeeps ==
  ASSUME NetInv, Net!Lookup
  PROVE  NetInv'
  <1> DEFINE p == Head(todo)[1].to
  <1>1. /\ todo # << >> /\ clientBufs[p] # 0 /\ chosen' = clientBufs[p]
        /\ UNCHANGED <<calls, todo, clientBufs, conns, received, cancelled, closing>>
    BY DEF Net!Lookup
  <1>2. NetTypes /\ NetShape /\ Tracks /\ clientBufs \in [Peers -> Nat]
    BY DEF NetInv, NetTypes
  <1>3. p \in Peers
    BY <1>1, <1>2, HeadTo
  <1>4. Tracks'
    BY <1>1, <1>2 DEF Tracks
  <1> HIDE DEF p
  <1>5. clientBufs[p] \in DOMAIN conns /\ conns[clientBufs[p]].to = p /\ clientBufs[p] \in Nat
    BY <1>1, <1>2, <1>3 DEF NetShape
  <1>6. NetTypes'
    BY <1>1, <1>2, <1>5 DEF NetTypes
  <1>7. /\ chosen' # 0 => chosen' \in DOMAIN conns' /\ todo' # << >> /\ conns'[chosen'].to = Head(todo')[1].to
        /\ ~cancelled' /\ chosen' # 0 => clientBufs'[conns'[chosen'].to] \in {0, chosen'}
    BY <1>1, <1>5 DEF p
  <1>8. NetShape'
    BY <1>1, <1>2, <1>7 DEF NetShape
  <1> QED BY <1>4, <1>6, <1>8 DEF NetInv

\* Of the connections to a destination only the one that the map has flows.
LEMMA FlowsMapped ==
  ASSUME NetInv, NEW k \in DOMAIN conns, Flows(conns[k], cancelled)
  PROVE  clientBufs[conns[k].to] = k /\ ~cancelled /\ k # 0
  <1>1. ConnOk(k, conns[k], clientBufs, cancelled) /\ conns \in Seq(Conn)
    BY DEF NetInv, NetTypes, NetShape
  <1>2. k # 0
    BY <1>1, LenProperties
  <1> QED BY <1>1, <1>2 DEF ConnOk, Flows

\* The types and the map of channels after the select of sendAsync.
LEMMA PutShape ==
  ASSUME NetTypes, NetShape, todo # << >>, todo' = Tail(todo), chosen' = 0, conns' \in Seq(Conn),
         DOMAIN conns' = DOMAIN conns, \A k \in DOMAIN conns : conns'[k].to = conns[k].to,
         \A k \in DOMAIN conns : ConnOk(k, conns'[k], clientBufs, cancelled),
         UNCHANGED <<calls, clientBufs, received, cancelled, closing>>
  PROVE  NetTypes' /\ NetShape'
  <1>1. todo' \in Seq(Seq(Msg)) /\ \A n \in DOMAIN todo' : todo'[n] # << >>
    BY HeadTo
  <1>2. NetTypes'
    BY <1>1 DEF NetTypes
  <1>3. NetShape'
    BY DEF NetShape
  <1> QED BY <1>2, <1>3

LEMMA PutKeeps ==
  ASSUME NetInv, Net!Put
  PROVE  NetInv'
  <1> DEFINE g == Head(todo)
             c == conns[chosen]
             p == c.to
  <1>1. /\ chosen # 0 /\ todo' = Tail(todo) /\ chosen' = 0
        /\ UNCHANGED <<calls, clientBufs, received, cancelled, closing>>
        /\ \/ conns' = [conns EXCEPT ![chosen].buf = Append(@, g)]
           \/ UNCHANGED conns /\ (~c.open \/ cancelled)
    BY DEF Net!Put
  <1>2. NetTypes /\ NetShape /\ Tracks /\ conns \in Seq(Conn)
    BY DEF NetInv, NetTypes
  <1>3. chosen \in DOMAIN conns /\ todo # << >> /\ g[1].to = p /\ ConnOk(chosen, c, clientBufs, cancelled)
    BY <1>1, <1>2 DEF NetShape
  <1>4. g \in Seq(Msg) /\ p \in Peers /\ p # Self /\ c \in Conn
    <2>1. g \in Seq(Msg)
      BY <1>2, <1>3, HeadTo
    <2>2. c \in Conn
      BY <1>2, <1>3, LenProperties
    <2> QED BY <2>1, <2>2, ConnFields
  <1>5. \A k \in DOMAIN conns : conns[k] \in Conn
    BY <1>2, LenProperties
  <1>6. ASSUME NEW k \in DOMAIN conns, ~Flows(conns[k], cancelled)
        PROVE  Takes(conns[k], cancelled, conns[k], cancelled, g)
    <2> HIDE DEF g
    <2> QED BY <1>4, <1>5, <1>6, TakesNot
  <1>7. \A k \in DOMAIN conns : ConnOk(k, conns[k], clientBufs, cancelled)
    BY <1>2 DEF NetShape
  <1>8. CASE conns' = [conns EXCEPT ![chosen].buf = Append(@, g)]
    <2> DEFINE d == [c EXCEPT !.buf = Append(@, g)]
    <2>1. conns' = [conns EXCEPT ![chosen] = d]
      BY <1>8
    <2>2. Append(c.buf, g) \in Seq(Seq(Msg))
      <3> DEFINE X == Seq(Msg)
      <3>1. c.buf \in Seq(X) /\ g \in X
        BY <1>4, ConnFields
      <3> HIDE DEF X, g
      <3>2. Append(c.buf, g) \in Seq(X)
        BY <3>1, AppendProperties
      <3> QED BY <3>2 DEF X
    <2>3. /\ d \in Conn /\ d.to = p /\ d.pc = c.pc /\ d.handler = c.handler /\ d.alive = c.alive
          /\ d.open = c.open /\ d.stream = c.stream
      BY <1>4, <2>2 DEF Conn
    <2>4. Takes(c, cancelled, d, cancelled, g)
      <3>1. CASE Flows(c, cancelled)
        <4> HIDE DEF c, g
        <4> QED BY <1>4, <3>1, TakesPut
      <3>2. CASE ~Flows(c, cancelled)
        <4>1. ~Flows(d, cancelled)
          BY <2>3, <3>2 DEF Flows
        <4> HIDE DEF d, g
        <4> QED BY <1>4, <2>3, <3>2, <4>1, TakesNot
      <3> QED BY <3>1, <3>2
    <2> HIDE DEF d
    <2>5. /\ conns' \in Seq(Conn) /\ DOMAIN conns' = DOMAIN conns /\ conns'[chosen] = d
          /\ \A k \in DOMAIN conns : k # chosen => conns'[k] = conns[k]
      BY <1>2, <1>3, <2>1, <2>3, ConnExcept
    <2>6. ASSUME NEW k \in DOMAIN conns, conns[k].to = p
          PROVE  Takes(conns[k], cancelled, conns'[k], cancelled, g)
      <3>1. CASE k = chosen
        BY <2>4, <2>5, <3>1
      <3>2. CASE k # chosen
        <4>1. ~Flows(conns[k], cancelled)
          <5> SUFFICES ASSUME Flows(conns[k], cancelled) PROVE FALSE
            OBVIOUS
          <5>1. clientBufs[p] = k /\ ~cancelled /\ k # 0
            BY <2>6, FlowsMapped
          <5>2. clientBufs[p] \in {0, chosen}
            BY <1>1, <1>2, <5>1 DEF NetShape
          <5> QED BY <3>2, <5>1, <5>2
        <4> QED BY <1>6, <2>5, <3>2, <4>1
      <3> QED BY <3>1, <3>2
    <2>7. \A k \in DOMAIN conns : conns[k].to # p => conns'[k] = conns[k]
      BY <2>5
    <2>8. Tracks'
      <3>1. Head(todo)[1].to = p
        BY <1>3
      <3> HIDE DEF p
      <3> QED BY <1>1, <1>2, <1>3, <1>4, <2>5, <2>6, <2>7, <3>1, TracksTake
    <2>9. ConnOk(chosen, d, clientBufs, cancelled)
      BY <1>3, <2>3 DEF ConnOk
    <2>10. \A k \in DOMAIN conns : conns'[k].to = conns[k].to /\ ConnOk(k, conns'[k], clientBufs, cancelled)
      BY <1>7, <2>3, <2>5, <2>9
    <2>11. NetTypes' /\ NetShape'
      BY <1>1, <1>2, <1>3, <2>5, <2>10, PutShape
    <2> QED BY <2>8, <2>11 DEF NetInv
  <1>9. CASE UNCHANGED conns /\ (~c.open \/ cancelled)
    <2>1. cancelled
      BY <1>3, <1>9 DEF ConnOk
    <2>2. \A k \in DOMAIN conns : ~Flows(conns[k], cancelled)
      BY <2>1 DEF Flows
    <2>3. /\ \A k \in DOMAIN conns : conns[k].to = p => Takes(conns[k], cancelled, conns'[k], cancelled, g)
          /\ \A k \in DOMAIN conns : conns[k].to # p => conns'[k] = conns[k]
      BY <1>6, <1>9, <2>2
    <2>4. conns' \in Seq(Conn) /\ DOMAIN conns' = DOMAIN conns
      BY <1>2, <1>9
    <2>5. Tracks'
      <3>1. Head(todo)[1].to = p
        BY <1>3
      <3> HIDE DEF p
      <3> QED BY <1>1, <1>2, <1>3, <1>4, <2>3, <2>4, <3>1, TracksTake
    <2>6. \A k \in DOMAIN conns : conns'[k].to = conns[k].to /\ ConnOk(k, conns'[k], clientBufs, cancelled)
      BY <1>7, <1>9
    <2>7. NetTypes' /\ NetShape'
      BY <1>1, <1>2, <1>3, <2>4, <2>6, PutShape
    <2> QED BY <2>5, <2>7 DEF NetInv
  <1> QED BY <1>1, <1>8, <1>9

LEMMA OpenKeeps ==
  ASSUME NetInv, Net!Open
  PROVE  NetInv'
  <1> DEFINE p == Head(todo)[1].to
             g == Head(todo)
             n == Len(conns) + 1
             c(u) == [to |-> p, buf |-> u, open |-> TRUE, pc |-> "dial",
                      alive |-> TRUE, stream |-> << >>, handler |-> << >>]
  <1>1. /\ todo # << >> /\ chosen = 0 /\ p # Self /\ clientBufs[p] = 0 /\ todo' = Tail(todo)
        /\ clientBufs' = [clientBufs EXCEPT ![p] = Len(conns')]
        /\ UNCHANGED <<calls, chosen, received, cancelled, closing>>
    BY DEF Net!Open
  <1>2. PICK u \in {<< >>, <<g>>} : (u = << >> => cancelled) /\ conns' = Append(conns, c(u))
    BY DEF Net!Open
  <1>3. NetTypes /\ NetShape /\ Tracks /\ conns \in Seq(Conn) /\ clientBufs \in [Peers -> Nat]
    BY DEF NetInv, NetTypes
  <1>4. /\ g \in Seq(Msg) /\ p \in Peers /\ todo' \in Seq(Seq(Msg)) /\ \A j \in DOMAIN todo' : todo'[j] # << >>
    BY <1>1, <1>3, HeadTo
  <1>5. u \in Seq(Seq(Msg)) /\ << >> \in Seq(Seq(Msg)) /\ Len(<< >>) = 0
    <2>1. << >> \in Seq(Seq(Msg)) /\ Len(<< >>) = 0
      BY EmptySeq
    <2>2. <<g>> \in Seq(Seq(Msg))
      BY <1>4
    <2> QED BY <2>1, <2>2
  <1> DEFINE e == c(u)
  <1>6. /\ e \in Conn /\ e.to = p /\ e.buf = u /\ e.open /\ e.pc = "dial" /\ e.alive /\ e.stream = << >>
        /\ e.handler = << >>
    BY <1>1, <1>4, <1>5 DEF Conn
  <1>7. conns' = Append(conns, e)
    BY <1>2
  <1> HIDE DEF c, e
  <1>8. Rest(e, cancelled) = (IF Flows(e, cancelled) THEN <<g>> ELSE << >>)
    <2>1. Flows(e, cancelled) <=> ~cancelled
      BY <1>6 DEF Flows
    <2>2. Rest(e, cancelled) = (<< >> \o << >>) \o (IF Flows(e, cancelled) THEN u ELSE << >>)
      BY <1>6 DEF Rest
    <2>3. << >> \o << >> = << >> /\ << >> \o u = u
      BY <1>5, ConcatEmptySeq
    <2>4. CASE cancelled
      BY <2>1, <2>2, <2>3, <2>4
    <2>5. CASE ~cancelled
      <3>1. u = <<g>>
        BY <1>2, <2>5
      <3> QED BY <2>1, <2>2, <2>3, <2>5, <3>1
    <2> QED BY <2>4, <2>5
  <1>9. \A k \in DOMAIN conns : conns[k].to = p => ~Flows(conns[k], cancelled)
    BY <1>1, FlowsMapped
  <1>10. Tracks'
    <2>1. Head(todo)[1].to = p /\ Rest(e, cancelled) = (IF Flows(e, cancelled) THEN <<Head(todo)>> ELSE << >>)
      BY <1>8
    <2> HIDE DEF p
    <2> QED BY <1>1, <1>3, <1>4, <1>6, <1>7, <1>9, <2>1, TracksNew
  <1>11. /\ conns' \in Seq(Conn) /\ Len(conns') = n /\ n \in Nat /\ n # 0 /\ conns'[n] = e /\ n \in DOMAIN conns'
         /\ \A k \in DOMAIN conns : conns'[k] = conns[k] /\ k \in DOMAIN conns' /\ k # n
         /\ \A k \in DOMAIN conns' : k \in DOMAIN conns \/ k = n
    <2>1. /\ conns' \in Seq(Conn) /\ Len(conns') = n /\ Len(conns) \in Nat /\ conns'[n] = e
          /\ DOMAIN conns = 1 .. Len(conns) /\ DOMAIN conns' = 1 .. n /\ \A k \in 1 .. Len(conns) : conns'[k] = conns[k]
      BY <1>3, <1>6, <1>7, AppendIdx
    <2>2. n \in Nat /\ n # 0 /\ n \in 1 .. n /\ \A k \in 1 .. Len(conns) : k \in 1 .. n /\ k # n
      BY <2>1
    <2>3. \A k \in 1 .. n : k \in 1 .. Len(conns) \/ k = n
      BY <2>1
    <2> QED BY <2>1, <2>2, <2>3
  <1> HIDE DEF p, n
  <1>12. /\ clientBufs' \in [Peers -> Nat] /\ clientBufs'[p] = n
         /\ \A q \in Peers : q # p => clientBufs'[q] = clientBufs[q]
    BY <1>1, <1>3, <1>4, <1>11
  <1>13. NetTypes'
    BY <1>1, <1>3, <1>4, <1>11, <1>12 DEF NetTypes
  <1>14. ASSUME NEW k \in DOMAIN conns' PROVE ConnOk(k, conns'[k], clientBufs', cancelled')
    <2>1. CASE k = n
      BY <1>1, <1>5, <1>6, <1>11, <1>12, <2>1 DEF ConnOk
    <2>2. CASE k \in DOMAIN conns
      <3>1. ConnOk(k, conns[k], clientBufs, cancelled) /\ conns'[k] = conns[k]
        BY <1>3, <1>11, <2>2 DEF NetShape
      <3>2. conns[k] \in Conn /\ k # 0
        BY <1>3, <2>2, LenProperties
      <3>3. conns[k].to \in Peers
        BY <3>2, ConnFields
      <3>4. ASSUME ~cancelled, conns[k].pc # "gone" PROVE clientBufs'[conns[k].to] = k
        <4>1. clientBufs[conns[k].to] = k
          BY <3>1, <3>4 DEF ConnOk
        <4>2. conns[k].to # p
          BY <1>1, <3>2, <4>1
        <4> QED BY <1>12, <3>3, <4>1, <4>2
      <3> QED BY <1>1, <3>1, <3>4 DEF ConnOk
    <2> QED BY <1>11, <2>1, <2>2
  <1>15. clientBufs'[Self] = 0
    BY <1>1, <1>3, <1>12, NetConstants DEF NetShape
  <1>16. ASSUME NEW q \in Peers, clientBufs'[q] # 0
         PROVE  clientBufs'[q] \in DOMAIN conns' /\ conns'[clientBufs'[q]].to = q
    <2>1. CASE q = p
      BY <1>6, <1>11, <1>12, <2>1
    <2>2. CASE q # p
      <3>1. clientBufs[q] \in DOMAIN conns /\ conns[clientBufs[q]].to = q /\ clientBufs'[q] = clientBufs[q]
        BY <1>3, <1>12, <1>16, <2>2 DEF NetShape
      <3> QED BY <1>11, <3>1
    <2> QED BY <2>1, <2>2
  <1>17. NetShape'
    BY <1>1, <1>3, <1>14, <1>15, <1>16 DEF NetShape
  <1> QED BY <1>10, <1>13, <1>17 DEF NetInv

\* Nothing was sent.
LEMMA NetStart == Net!Init => NetInv
  <1> SUFFICES ASSUME Net!Init PROVE NetInv
    OBVIOUS
  <1>1. /\ calls = 0 /\ todo = << >> /\ chosen = 0 /\ clientBufs = [p \in Peers |-> 0] /\ conns = << >>
        /\ received = [p \in Peers |-> << >>] /\ cancelled = FALSE /\ closing = "no"
    BY DEF Net!Init
  <1>2. /\ << >> \in Seq(Seq(Msg)) /\ << >> \in Seq(Conn) /\ << >> \in Seq(Pkt) /\ << >> \in Seq(Nat)
        /\ Len(<< >>) = 0 /\ DOMAIN << >> = {}
    BY EmptySeq
  <1>3. Len(Batches) \in Nat
    BY NetConstants, LenProperties
  <1>4. NetTypes
    <2>1. calls \in 0 .. Len(Batches)
      BY <1>1, <1>3
    <2>2. todo \in Seq(Seq(Msg)) /\ \A n \in DOMAIN todo : todo[n] # << >>
      BY <1>1, <1>2, Zenon
    <2>3. conns \in Seq(Conn) /\ chosen \in Nat /\ clientBufs \in [Peers -> Nat] /\ cancelled \in BOOLEAN
      BY <1>1, <1>2
    <2>4. received \in [Peers -> Seq(Pkt)]
      BY <1>1, <1>2
    <2> QED BY <2>1, <2>2, <2>3, <2>4 DEF NetTypes
  <1>5. NetShape
    BY <1>1, <1>2, NetConstants DEF NetShape
  <1>6. Tracks
    <2> DEFINE W == [p \in Peers |-> << >>]
               z == [k \in DOMAIN conns |-> 0]
    <2>1. W \in [Peers -> Seq(Seq(Msg))] /\ W \in [Peers -> Seq(Nat)] /\ \A p \in Peers : W[p] = << >>
      BY <1>2
    <2>2. z \in [DOMAIN conns -> Nat] /\ DOMAIN conns = {}
      BY <1>1, <1>2
    <2> HIDE DEF W, z
    <2>3. LinesOk(conns, cancelled, W, z, z)
      BY <2>2 DEF LinesOk
    <2>4. \A p \in Peers : PlacedOk(received[p], W[p], W[p]) /\ received[p] = << >>
      BY <1>1, <1>2, <2>1 DEF PlacedOk, Distinct
    <2>5. \A n \in 1 .. 0 : FALSE
      OBVIOUS
    <2>6. HandledOk(received, conns, W, z, z, W)
      <3>1. DOMAIN W = Peers
        BY <2>1
      <3>2. Self \in Peers /\ Len(received[Self]) = 0 /\ Len(W[Self]) = 0 /\ \A p \in Peers : Len(received[p]) = 0
        BY <1>2, <2>1, <2>4, NetConstants
      <3> QED BY <2>2, <2>4, <2>5, <3>1, <3>2 DEF HandledOk
    <2>7. SentOk(W, todo, calls)
      <3>1. ASSUME NEW p \in Peers PROVE FlattenSeq(W[p]) \o Bound(todo, p) = Pass(calls, p)
        <4>1. FlattenSeq(W[p]) = << >> /\ Bound(todo, p) = << >> /\ Pass(calls, p) = << >>
          BY <1>1, <2>1, FlattenNone, BoundNone, PassZero
        <4>2. << >> \o << >> = << >>
          BY <1>2, ConcatEmptySeq
        <4> QED BY <4>1, <4>2
      <3> QED BY <2>1, <3>1 DEF SentOk
    <2> QED BY <2>3, <2>6, <2>7 DEF Tracks
  <1> QED BY <1>4, <1>5, <1>6 DEF NetInv

\* The inductive step.
LEMMA NetNext ==
  ASSUME NetInv, Net!Next
  PROVE  NetInv'
  <1>1. ASSUME NEW k \in DOMAIN conns, Net!sender(k) \/ Net!Message(k) \/ Net!Break(k) PROVE NetInv'
    BY <1>1, DialKeeps, TransmitKeeps, ReturnKeeps, RecvKeeps, HandleKeeps, BreakKeeps DEF Net!sender, Net!Message
  <1>2. CASE Net!Send \/ Net!sendAsync
    BY <1>2, SendKeeps, SendToSelfKeeps, LookupKeeps, OpenKeeps, PutKeeps DEF Net!sendAsync
  <1>3. CASE Net!Close
    BY <1>3, CancelKeeps, CloseChannelsKeeps DEF Net!Close
  <1> QED BY <1>1, <1>2, <1>3 DEF Net!Next

\* While another part runs the transport stays as it is.
LEMMA NetPartNext ==
  ASSUME NetInv, [Next]_vars
  PROVE  NetInv'
  <1>1. UNCHANGED netVars \/ Net!Next
    BY DEF Next, InPool, InBucket, InBuf, InNet, InRounds, vars
  <1>2. CASE UNCHANGED netVars
    BY <1>2 DEF netVars, NetInv, NetTypes, NetShape, Tracks
  <1> QED BY <1>1, <1>2, NetNext

\* A run of what was sent is a run of what was passed to Send.
LEMMA NetFifo == NetInv => Net!Fifo
  <1> SUFFICES ASSUME NetInv PROVE Net!Fifo
    OBVIOUS
  <1>1. PICK W, lo, mid, pos : LinesOk(conns, cancelled, W, lo, mid) /\ HandledOk(received, conns, W, lo, mid, pos)
                               /\ SentOk(W, todo, calls)
    BY DEF NetInv, Tracks
  <1>2. conns \in Seq(Conn) /\ todo \in Seq(Seq(Msg)) /\ W \in [Peers -> Seq(Seq(Msg))]
    BY <1>1 DEF NetInv, NetTypes, SentOk
  <1>3. ASSUME NEW p \in Peers \ {Self}, NEW k \in DOMAIN conns, conns[k].to = p
        PROVE  \E from \in 0 .. Len(Net!Passed(p)) :
                  Net!IsPrefix(Net!Through(p, k), SubSeq(Net!Passed(p), from + 1, Len(Net!Passed(p))))
    <2> DEFINE w == W[p]
               l == lo[k]
               m == mid[k]
               z == Bound(todo, p)
               t == FlattenSeq(SubSeq(w, l + 1, m))
               all == Pass(calls, p)
    <2>1. w \in Seq(Seq(Msg)) /\ z \in Seq(Msg)
      BY <1>2, BoundType
    <2>2. Line(Rest(conns[k], cancelled), Flows(conns[k], cancelled), w, l, m)
      BY <1>1, <1>3 DEF LinesOk
    <2>3. l \in Nat /\ m \in Nat /\ l <= m /\ m + Len(Rest(conns[k], cancelled)) <= Len(w)
      BY <2>2 DEF Line
    <2>4. Len(Rest(conns[k], cancelled)) \in Nat /\ Len(w) \in Nat
      <3>1. conns[k] \in Conn
        BY <1>2, LenProperties
      <3> QED BY <2>1, <3>1, RestType, LenProperties
    <2>5. m <= Len(w)
      BY <2>3, <2>4
    <2>6. Thr(received[p], k) = t
      BY <1>1, <1>3 DEF HandledOk
    <2>7. FlattenSeq(w) \o z = all
      BY <1>1 DEF SentOk
    <2> HIDE DEF w, l, m, z
    <2>8. PICK a, d \in Seq(Msg) : FlattenSeq(w) \o z = (a \o t) \o d /\ t \in Seq(Msg)
      BY <2>1, <2>3, <2>5, PartRun
    <2> HIDE DEF t
    <2>9. /\ Len(a) \in 0 .. Len((a \o t) \o d)
          /\ IsPrefix(t, SubSeq((a \o t) \o d, Len(a) + 1, Len((a \o t) \o d)))
      BY <2>8, RunIsPrefix
    <2>10. all = (a \o t) \o d
      BY <2>7, <2>8
    <2>11. Net!Passed(p) = all
      BY NetFlatten DEF Net!Passed, Pass
    <2>12. Net!Through(p, k) = t
      BY <2>6, ThroughIs
    <2>13. \A x, y : Net!IsPrefix(x, y) <=> IsPrefix(x, y)
      BY DEF Net!IsPrefix, IsPrefix
    <2> HIDE DEF all
    <2> QED BY <2>9, <2>10, <2>11, <2>12, <2>13
  <1> QED BY <1>3 DEF Net!Fifo

\* What was handled are different groups of what was passed to Send, which has no message twice.
LEMMA NetOnce == NetInv => Net!HandledOnce
  <1> SUFFICES ASSUME NetInv PROVE Net!HandledOnce
    OBVIOUS
  <1>1. PICK W, lo, mid, pos : LinesOk(conns, cancelled, W, lo, mid) /\ HandledOk(received, conns, W, lo, mid, pos)
                               /\ SentOk(W, todo, calls)
    BY DEF NetInv, Tracks
  <1>2. /\ todo \in Seq(Seq(Msg)) /\ W \in [Peers -> Seq(Seq(Msg))] /\ received \in [Peers -> Seq(Pkt)]
        /\ calls \in 0 .. Len(Batches)
    BY <1>1 DEF NetInv, NetTypes, SentOk
  <1>3. ASSUME NEW p \in Peers
        PROVE  Distinct(Net!FlattenSeq([n \in DOMAIN received[p] |-> received[p][n].group]))
    <2> DEFINE s == received[p]
               w == W[p]
               po == pos[p]
               z == Bound(todo, p)
               f == [n \in DOMAIN s |-> s[n].group]
               L == Len(s)
               X == Seq(Msg)
    <2>1. w \in Seq(Seq(Msg)) /\ z \in Seq(Msg) /\ s \in Seq(Pkt)
      BY <1>2, BoundType
    <2>2. FlattenSeq(w) \o z = Pass(calls, p) /\ PlacedOk(s, w, po)
      BY <1>1 DEF SentOk, HandledOk
    <2>3. Distinct(Pass(calls, p))
      BY <1>2, PassFacts
    <2>4. Parted(w)
      <3>1. FlattenSeq(w) \in Seq(Msg)
        BY <2>1, FlattenType
      <3>2. Distinct(FlattenSeq(w) \o z)
        BY <2>2, <2>3
      <3>3. Distinct(FlattenSeq(w))
        <4> DEFINE v == FlattenSeq(w)
        <4>1. v \in Seq(Msg) /\ Distinct(v \o z)
          BY <3>1, <3>2
        <4> HIDE DEF v, z
        <4>2. Distinct(v)
          BY <2>1, <4>1, ConcatDistinct
        <4> QED BY <4>2 DEF v
      <3> QED BY <2>1, <3>3, FlattenHolds
    <2>5. L \in Nat /\ DOMAIN s = 1 .. L /\ \A n \in 1 .. L : s[n] \in Pkt
      BY <2>1, LenProperties, ElementOfSeq
    <2>6. f \in [1 .. L -> X] /\ \A n \in 1 .. L : f[n] = s[n].group
      BY <2>5 DEF Pkt
    <2>7. /\ po \in Seq(Nat) /\ Len(po) = L /\ Distinct(po)
          /\ \A n \in 1 .. L : po[n] \in 1 .. Len(w) /\ s[n].group = w[po[n]]
      BY <2>2 DEF PlacedOk
    <2>8. DOMAIN po = 1 .. L /\ DOMAIN w = 1 .. Len(w)
      BY <2>1, <2>7, LenProperties
    <2>9. Net!FlattenSeq(f) = FlattenSeq(f)
      BY NetFlatten
    <2> HIDE DEF f, L, w, po, s
    <2>10. f \in Seq(X) /\ DOMAIN f = 1 .. L
      BY <2>5, <2>6, FunctionIsSequence
    <2>11. Parted(f)
      <3>1. \A n \in 1 .. L : f[n] = w[po[n]] /\ po[n] \in DOMAIN w
        BY <2>6, <2>7, <2>8
      <3>2. \A n, o \in 1 .. L : n # o => po[n] # po[o]
        BY <2>7, <2>8 DEF Distinct
      <3> QED BY <2>4, <2>10, <3>1, <3>2 DEF Parted
    <2>12. Distinct(FlattenSeq(f))
      BY <2>10, <2>11, FlattenHolds
    <2> QED BY <2>9, <2>12 DEF f, s
  <1> QED BY <1>3 DEF Net!HandledOnce, Distinct

\* A connection is a FIFO without gaps and no message is handled twice, across
\* any number of broken streams and in every interleaving with Close: for any
\* number of peers, any batches of distinct messages and any capacity.
THEOREM DeliversInOrder == Spec => []Fifo
  <1>1. Init => NetInv
    BY NetStart DEF Init
  <1>2. NetInv /\ [Next]_vars => NetInv'
    BY NetPartNext
  <1>3. NetInv => Fifo
    BY NetFifo, NetOnce DEF Fifo
  <1> QED BY <1>1, <1>2, <1>3, PTL DEF Spec
=============================================================================
