------------------------------- MODULE ReqBuf -------------------------------
(***************************************************************************)
(* peer/req_buf.go: the buffer between the goroutines that serve clients   *)
(* (HandleCommand) and the run loop.  Adders hold the read lock and claim  *)
(* slots with an atomic counter; an adder that finds the buffer full waits *)
(* on a condition variable over the read lock.  flush takes the write lock *)
(* and hands the filled slots to the run loop.                             *)
(***************************************************************************)
EXTENDS Integers, Sequences, FiniteSets, Functions

CONSTANTS
    Elems,      \* the commands, each added by a goroutine of its own
    Cap,        \* propBufCap
    Threshold,  \* b.threshold, LocalConfig.ReqBufThreshold
    NoElem      \* an unused slot

BufAssumption ==
    /\ IsFiniteSet(Elems) /\ NoElem \notin Elems
    /\ Cap \in Nat \ {0} /\ Threshold \in 0 .. Cap + 1

VARIABLES
    pc,         \* [Elems -> where the adding goroutine is]
    slot,       \* [Elems -> 0 .. Cap], the slot it claimed
    waiting,    \* the goroutines in b.full's notify list
    b,          \* [1 .. Cap -> Elems \cup {NoElem}], b.b
    i,          \* b.i
    flusher,    \* the run loop: where it is in flush, or "exited"
    force,      \* the argument of the flush it is in
    handed      \* the commands passed to f, in order

vars == <<pc, slot, waiting, b, i, flusher, force, handed>>

Readers == {e \in Elems : pc[e] \in {"inc", "store"}}

Init ==
    /\ pc = [e \in Elems |-> "start"]
    /\ slot = [e \in Elems |-> 0]
    /\ waiting = {}
    /\ b = [k \in 1 .. Cap |-> NoElem]
    /\ i = 0
    /\ flusher = "idle" /\ force = FALSE
    /\ handed = << >>

-----------------------------------------------------------------------------
(* add *)

\* b.mu.RLock, at the start or inside full.Wait after a wake-up: new readers
\* stand back for a pending writer.
RLock(e) ==
    /\ pc[e] \in {"start", "woken"}
    /\ flusher \notin {"pending", "locked"}
    /\ pc' = [pc EXCEPT ![e] = "inc"]
    /\ UNCHANGED <<slot, waiting, b, i, flusher, force, handed>>

\* n := atomic.AddInt32(&b.i, 1); with no slot left, full.Wait joins the
\* notify list before it gives up the read lock.
Claim(e) ==
    /\ pc[e] = "inc"
    /\ i' = i + 1
    /\ IF i < Cap
       THEN /\ slot' = [slot EXCEPT ![e] = i + 1]
            /\ pc' = [pc EXCEPT ![e] = "store"]
            /\ UNCHANGED waiting
       ELSE /\ waiting' = waiting \cup {e}
            /\ pc' = [pc EXCEPT ![e] = "wait"]
            /\ UNCHANGED slot
    /\ UNCHANGED <<b, flusher, force, handed>>

\* b.b[i] = e and the deferred RUnlock.
Store(e) ==
    /\ pc[e] = "store"
    /\ b' = [b EXCEPT ![slot[e]] = e]
    /\ pc' = [pc EXCEPT ![e] = "done"]
    /\ UNCHANGED <<slot, waiting, i, flusher, force, handed>>

add(e) == RLock(e) \/ Claim(e) \/ Store(e)

-----------------------------------------------------------------------------
(* flush *)

\* The run loop calls flush, with force for the last time when the peer stops;
\* the counter is read without the lock.
CallFlush(forced) ==
    /\ flusher = "idle"
    /\ i >= Threshold \/ forced
    /\ flusher' = "pending" /\ force' = forced
    /\ UNCHANGED <<pc, slot, waiting, b, i, handed>>

\* Mutant of LockFlush: a read lock instead of the write lock.
RLockFlush ==
    /\ flusher = "pending"
    /\ flusher' = "locked"
    /\ UNCHANGED <<pc, slot, waiting, b, i, force, handed>>

\* b.mu.Lock waits for the readers to leave.
LockFlush ==
    /\ flusher = "pending" /\ Readers = {}
    /\ flusher' = "locked"
    /\ UNCHANGED <<pc, slot, waiting, b, i, force, handed>>

\* full.Broadcast.
Broadcast ==
    /\ pc' = [e \in Elems |-> IF e \in waiting THEN "woken" ELSE pc[e]]
    /\ waiting' = {}

\* The slots filled since the last flush.
Filled == SubSeq(b, 1, IF i < Cap THEN i ELSE Cap)

\* Mutant of Flush: only a buffer that is exactly full wakes the waiters.
FlushExactlyFull ==
    /\ flusher = "locked"
    /\ IF i = Cap THEN Broadcast ELSE UNCHANGED <<pc, waiting>>
    /\ handed' = handed \o Filled
    /\ i' = 0
    /\ flusher' = IF force THEN "exited" ELSE "idle"
    /\ UNCHANGED <<slot, b, force>>

\* The rest of flush, under the write lock: wake the waiters of a full buffer,
\* hand over the filled slots, start again at slot 0.
Flush ==
    /\ flusher = "locked"
    /\ IF i >= Cap THEN Broadcast ELSE UNCHANGED <<pc, waiting>>
    /\ handed' = handed \o Filled
    /\ i' = 0
    /\ flusher' = IF force THEN "exited" ELSE "idle"
    /\ UNCHANGED <<slot, b, force>>

flush == CallFlush(FALSE) \/ LockFlush \/ Flush

Next == (\E e \in Elems : add(e)) \/ flush \/ CallFlush(TRUE)

-----------------------------------------------------------------------------
(* Properties *)

\* The commands that add has returned for and flush has not handed over.
Buffered == {e \in Elems : pc[e] = "done" /\ e \notin Range(handed)}

TypeOK ==
    /\ pc \in [Elems -> {"start", "inc", "store", "wait", "woken", "done"}]
    /\ slot \in [Elems -> 0 .. Cap]
    /\ waiting \subseteq Elems
    /\ b \in [1 .. Cap -> Elems \cup {NoElem}]
    /\ i \in Nat
    /\ flusher \in {"idle", "pending", "locked", "exited"} /\ force \in BOOLEAN
    /\ handed \in Seq(Elems)

\* A command is handed to the run loop once: no slot is claimed twice before it
\* is flushed, none is flushed before it is written, and what a slot still
\* holds of an earlier round is not handed over again.
HandedOnce ==
    /\ \A j, k \in DOMAIN handed : handed[j] = handed[k] => j = k
    /\ \A e \in Range(handed) : e \in Elems /\ pc[e] = "done"

\* A command whose add has returned stays in its slot until it is handed over.
BufferedInSlot == \A e \in Buffered : slot[e] <= i /\ b[slot[e]] = e

-----------------------------------------------------------------------------
(* The inductive invariant behind HandedOnce and BufferedInSlot *)

\* The commands that own a slot: those about to be written and those written.
Owners == {e \in Elems : pc[e] = "store"} \cup Buffered

\* The slots claimed since the last flush.
Claimed == 1 .. (IF i < Cap THEN i ELSE Cap)

\* Every claimed slot has exactly one owner, and holds it once it is written;
\* nobody is between claiming and writing while flush has the write lock; and
\* the broadcast of flush reaches waiting adders only.
BufInv ==
    /\ TypeOK
    /\ \A e \in Owners : slot[e] \in Claimed
    /\ \A e, f \in Owners : slot[e] = slot[f] => e = f
    /\ \A k \in Claimed : \E e \in Owners : slot[e] = k
    /\ \A e \in Buffered : b[slot[e]] = e
    /\ flusher = "locked" => Readers = {}
    /\ \A e \in waiting : pc[e] = "wait"
    /\ HandedOnce
=============================================================================
