-------------------------------- MODULE Parts --------------------------------
(***************************************************************************)
(* The parts a replica is built from that work on state of their own: the  *)
(* two worker pools, the request buffer, the transport and RCC's round     *)
(* executor.  A behaviour is a behaviour of one of them; the variables of  *)
(* the others keep their initial values.                                   *)
(***************************************************************************)
EXTENDS Integers, Sequences, FiniteSets, Functions

CONSTANTS
    Workers, Buckets, JobCap, CallbackCap, MaxJobs, NoJob, NoWorker,
    Elems, Cap, Threshold, NoElem,
    Self, Peers, Batches, BufCap, MaxBreaks,
    Replicas, Load, MaxFaults

VARIABLES
    part,
    submitted, bucket, jobQueue, dispatcher, workerPool, jobChannel, worker, callbackC, ran,
    pc, slot, waiting, b, i, flusher, force, handed,
    up, calls, todo, chosen, clientBufs, conns, received, cancelled, closing, crashed,
    orderedBy, pending, execPkts, executed

Pool == INSTANCE Dispatcher
Bucket == INSTANCE BucketDispatcher
Buf == INSTANCE ReqBuf
Net == INSTANCE Transport
Rounds == INSTANCE Rcc

ASSUME PartsAssumption ==
    /\ Pool!PoolAssumption /\ Bucket!BucketAssumption /\ Buf!BufAssumption
    /\ Net!TransportAssumption /\ Rounds!RccAssumption

poolVars == <<submitted, bucket, jobQueue, dispatcher, workerPool, jobChannel, worker,
              callbackC, ran>>
bufVars == <<pc, slot, waiting, b, i, flusher, force, handed>>
netVars == <<up, calls, todo, chosen, clientBufs, conns, received, cancelled, closing, crashed>>
roundsVars == <<orderedBy, pending, execPkts, executed>>
vars == <<part, poolVars, bufVars, netVars, roundsVars>>

Init ==
    /\ part \in {"pool", "bucket", "buf", "net", "rounds"}
    /\ IF part = "bucket"
       THEN Bucket!Init /\ submitted = 0 /\ workerPool = << >>
       ELSE Pool!Init /\ bucket = << >> /\ jobChannel = << >>
    /\ Buf!Init /\ Net!Init /\ Rounds!Init
    /\ part \notin {"pool", "bucket"} => DOMAIN worker = Workers
    /\ part # "net" => up = Peers \ {Self}

\* A step of one part.
InPool(A) == /\ part = "pool" /\ A
             /\ UNCHANGED <<part, bucket, jobChannel, bufVars, netVars, roundsVars>>
InBucket(A) == /\ part = "bucket" /\ A
               /\ UNCHANGED <<part, submitted, workerPool, bufVars, netVars, roundsVars>>
InBuf(A) == part = "buf" /\ A /\ UNCHANGED <<part, poolVars, netVars, roundsVars>>
InNet(A) == part = "net" /\ A /\ UNCHANGED <<part, poolVars, bufVars, roundsVars>>
InRounds(A) == part = "rounds" /\ A /\ UNCHANGED <<part, poolVars, bufVars, netVars>>

Next ==
    \/ InPool(Pool!Next) \/ InBucket(Bucket!Next) \/ InBuf(Buf!Next)
    \/ InNet(Net!Next) \/ InRounds(Rounds!Next)

Spec == Init /\ [][Next]_vars

-----------------------------------------------------------------------------
(* Fairness: the Go scheduler runs every goroutine that can run. *)

\* The peer's ticker wakes the run loop, which calls AsyncCallback first, every
\* 10 ms, and the pools' goroutines run.
PoolFairness ==
    /\ WF_vars(InPool(Pool!dispatch)) /\ WF_vars(InPool(Pool!RunCallback))
    /\ \A w \in Workers : WF_vars(InPool(w \in DOMAIN worker /\ Pool!start(w)))
    /\ WF_vars(InBucket(Bucket!dispatch)) /\ WF_vars(InBucket(Bucket!RunCallback))
    /\ \A c \in Buckets : WF_vars(InBucket(Bucket!start(c)))

\* The ticker makes the run loop call flush every 10 ms.  RWMutex.Unlock lets
\* the readers in that stood back before the next writer, so an RLock that is
\* enabled again and again succeeds.
BufFairness ==
    /\ WF_vars(InBuf(Buf!flush))
    /\ \A e \in Elems : /\ WF_vars(InBuf(Buf!Claim(e) \/ Buf!Store(e)))
                        /\ SF_vars(InBuf(Buf!RLock(e)))

\* The sending goroutine, the senders and the receivers run; Close, once
\* called, goes on.  A stream need not break and nobody need call Close.
NetFairness ==
    /\ WF_vars(InNet(~crashed /\ Net!sendAsync))
    /\ WF_vars(InNet(~crashed /\ Net!CloseChannels))
    /\ \A k \in 1 .. Net!MaxConns :
          WF_vars(InNet(~crashed /\ k \in DOMAIN conns /\ (Net!sender(k) \/ Net!Message(k))))

\* The replicators order what they are given, and the run loop, which calls
\* MakeReady in every turn, is woken by the ticker.
RoundsFairness ==
    \A r \in Replicas : /\ WF_vars(InRounds(Rounds!Step(r)))
                        /\ WF_vars(InRounds(\E l \in Replicas : Rounds!Order(r, l)))

FairSpec == Spec /\ PoolFairness /\ BufFairness /\ NetFairness /\ RoundsFairness

-----------------------------------------------------------------------------
(* Properties *)

\* The classes of the jobs submitted to the pool that runs.
JobClass == CASE part = "pool" -> Pool!Class [] part = "bucket" -> bucket [] OTHER -> << >>

\* The pools run every callback exactly once, in the order of the calls of Exec
\* where the protocols count on it: with one worker (a replica's broadcasts),
\* and inside a bucket (hybsterx and destiny send an instance's counters in
\* sequence).
Abstract == INSTANCE AsyncJobs WITH Classes <- 1 .. MaxJobs \cup Buckets, class <- JobClass

ImplementsAsyncJobs == Abstract!Spec

\* The jobs that Exec has accepted.
Accepted == IF part = "pool" THEN 1 .. submitted ELSE 1 .. Len(bucket)

\* Every job that Exec accepted runs its callback, whatever the capacity of
\* callbackC and even when callbacks submit jobs themselves: the unbounded list
\* keeps run loop, dispatcher and workers from waiting for each other, also
\* when one full bucket holds up the jobs of all the others.
AllRun == <>[](Accepted \subseteq Range(ran))

\* The buffer drains unless the peer stops: no HandleCommand waits for a slot
\* for ever, for the broadcast of flush reaches everybody who found the buffer
\* full, however often they lose the race; and in the end fewer than Threshold
\* commands are left in it.
BufferDrains ==
    <>[](\/ part # "buf" \/ flusher = "exited"
         \/ (\A e \in Elems : pc[e] = "done") /\ Cardinality(Buf!Buffered) < Threshold)

\* The buffer hands every command over once, from the slot its adder claimed.
BufferOnce == Buf!HandedOnce /\ Buf!BufferedInSlot

\* A connection of the transport is a FIFO without gaps, and no message is
\* handled twice across connections.
Fifo == Net!Fifo /\ Net!HandledOnce

\* Send returns, and Close makes it return: it is for ever held up only by a
\* full channel nobody empties, and only while dialCtx is not cancelled.
SendReturns == <>[](todo = << >> \/ crashed \/ (Net!Stuck /\ ~cancelled))

\* Every message for a peer that is up gets there if no stream breaks, nobody
\* closes the transport and the full channel of another peer is not in the way.
Delivered == <>[](closing # "no" \/ Net!Breaks > 0 \/ Net!Stuck \/ Net!AllReceived)

\* RCC's replicas agree on what each round consists of.
RoundsAgree == Rounds!RoundsAgree

\* As many rounds are executed everywhere as the slowest leader has commands,
\* although a turn of the run loop executes one round at most.
RoundsExecuted == <>[](part = "rounds" => Rounds!AllRounds)
=============================================================================
