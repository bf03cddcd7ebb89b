-------------------------- MODULE BucketDispatcher --------------------------
(***************************************************************************)
(* pkg/bucketworker: the pool used where counters are issued per instance. *)
(* A job names its bucket and every bucket has one worker with a buffered  *)
(* channel of its own, so the jobs of a bucket stay in order; a full       *)
(* channel makes the only dispatching goroutine wait.                      *)
(***************************************************************************)
EXTENDS Integers, Sequences, FiniteSets, Functions

CONSTANTS
    Buckets,        \* the buckets, each with its worker
    JobCap,         \* maxJobs, the capacity of a worker's jobChannel
    CallbackCap,    \* the capacity of callbackC
    MaxJobs,        \* bound on the number of jobs submitted
    NoJob

BucketAssumption ==
    /\ Buckets # {} /\ JobCap \in Nat \ {0} /\ CallbackCap \in Nat \ {0}
    /\ MaxJobs \in Nat /\ NoJob \notin 1 .. MaxJobs

VARIABLES
    bucket,         \* bucket[j]: the bucket named by the j-th call of Exec
    jobQueue,       \* d.jobQueue
    dispatcher,     \* the dispatch goroutine: [pc, job]
    jobChannel,     \* [Buckets -> Seq of jobs], the workers' channels
    worker,         \* [Buckets -> [pc, job]]
    callbackC,      \* the channel of callbacks to run
    ran             \* the jobs whose callbacks have run

vars == <<bucket, jobQueue, dispatcher, jobChannel, worker, callbackC, ran>>

Init ==
    /\ bucket = << >>
    /\ jobQueue = << >>
    /\ dispatcher = [pc |-> "front", job |-> NoJob]
    /\ jobChannel = [b \in Buckets |-> << >>]
    /\ worker = [b \in Buckets |-> [pc |-> "select", job |-> NoJob]]
    /\ callbackC = << >>
    /\ ran = << >>

\* The body of Exec: enqueue under jobQueueMut and wake the dispatcher.
Submit ==
    /\ Len(bucket) < MaxJobs
    /\ \E b \in Buckets : bucket' = Append(bucket, b)
    /\ jobQueue' = Append(jobQueue, Len(bucket) + 1)
    /\ dispatcher' = IF dispatcher.pc = "waiting" THEN [dispatcher EXCEPT !.pc = "front"]
                     ELSE dispatcher

\* Exec called by a handler of the run loop.
Exec == Submit /\ UNCHANGED <<jobChannel, worker, callbackC, ran>>

\* dispatch, on an empty list: jobQueueCond.Wait.
WaitForJob ==
    /\ dispatcher.pc = "front" /\ jobQueue = << >>
    /\ dispatcher' = [dispatcher EXCEPT !.pc = "waiting"]
    /\ UNCHANGED <<bucket, jobQueue, jobChannel, worker, callbackC, ran>>

\* dispatch: remove the front element.
TakeJob ==
    /\ dispatcher.pc = "front" /\ jobQueue # << >>
    /\ dispatcher' = [pc |-> "hand", job |-> Head(jobQueue)]
    /\ jobQueue' = Tail(jobQueue)
    /\ UNCHANGED <<bucket, jobChannel, worker, callbackC, ran>>

\* Mutant of HandOver: any worker will do, as in the plain pool.
HandOverAnywhere ==
    /\ dispatcher.pc = "hand"
    /\ \E b \in Buckets :
          /\ Len(jobChannel[b]) < JobCap
          /\ jobChannel' = [jobChannel EXCEPT ![b] = Append(@, dispatcher.job)]
    /\ dispatcher' = [pc |-> "front", job |-> NoJob]
    /\ UNCHANGED <<bucket, jobQueue, worker, callbackC, ran>>

\* d.workers[idx].jobChannel <- j, which blocks while the channel is full.
HandOver ==
    LET b == bucket[dispatcher.job]
    IN  /\ dispatcher.pc = "hand"
        /\ Len(jobChannel[b]) < JobCap
        /\ jobChannel' = [jobChannel EXCEPT ![b] = Append(@, dispatcher.job)]
        /\ dispatcher' = [pc |-> "front", job |-> NoJob]
        /\ UNCHANGED <<bucket, jobQueue, worker, callbackC, ran>>

dispatch == WaitForJob \/ TakeJob \/ HandOver

\* The worker of a bucket: job := <-w.jobChannel.
Receive(b) ==
    /\ worker[b].pc = "select" /\ jobChannel[b] # << >>
    /\ worker' = [worker EXCEPT ![b] = [pc |-> "exec", job |-> Head(jobChannel[b])]]
    /\ jobChannel' = [jobChannel EXCEPT ![b] = Tail(@)]
    /\ UNCHANGED <<bucket, jobQueue, dispatcher, callbackC, ran>>

\* result := job.payload.execFunc()
ExecFunc(b) ==
    /\ worker[b].pc = "exec"
    /\ worker' = [worker EXCEPT ![b].pc = "send"]
    /\ UNCHANGED <<bucket, jobQueue, dispatcher, jobChannel, callbackC, ran>>

\* job.callbackC <- func() {...}, which blocks while the channel is full.
SendCallback(b) ==
    /\ worker[b].pc = "send" /\ Len(callbackC) < CallbackCap
    /\ callbackC' = Append(callbackC, worker[b].job)
    /\ worker' = [worker EXCEPT ![b] = [pc |-> "select", job |-> NoJob]]
    /\ UNCHANGED <<bucket, jobQueue, dispatcher, jobChannel, ran>>

start(b) == Receive(b) \/ ExecFunc(b) \/ SendCallback(b)

\* One turn of the loop in AsyncCallback: cb := <-callbackC; cb().
RunCallback ==
    /\ callbackC # << >>
    /\ ran' = Append(ran, Head(callbackC))
    /\ callbackC' = Tail(callbackC)
    /\ Submit \/ UNCHANGED <<bucket, jobQueue, dispatcher>>
    /\ UNCHANGED <<jobChannel, worker>>

Next ==
    \/ Exec
    \/ dispatch
    \/ \E b \in Buckets : start(b)
    \/ RunCallback

-----------------------------------------------------------------------------
(* The inductive invariant behind the refinement of AsyncJobs *)

Jobs == 1 .. MaxJobs

TypeOK ==
    /\ bucket \in Seq(Buckets) /\ Len(bucket) <= MaxJobs
    /\ jobQueue \in Seq(Jobs) /\ callbackC \in Seq(Jobs) /\ ran \in Seq(Jobs)
    /\ dispatcher \in [pc : {"front", "waiting", "hand"}, job : Jobs \cup {NoJob}]
    /\ jobChannel \in [Buckets -> Seq(Jobs)]
    /\ worker \in [Buckets -> [pc : {"select", "exec", "send"}, job : Jobs \cup {NoJob}]]

\* The jobs taken from the list are those up to this one.
Taken == Len(bucket) - Len(jobQueue)

\* The dispatcher has the last of them in hand.
Handing == dispatcher.pc = "hand"

Busy == {c \in Buckets : worker[c].pc \in {"exec", "send"}}

\* The jobs the workers are done with, and those of a bucket its worker has
\* started.
Through == Range(ran) \cup Range(callbackC)
Started(c) == Through \cup {worker[d].job : d \in Busy \cap {c}}

\* No job is in two places, and the jobs of a bucket are with its worker.
OnePlace ==
    /\ Taken \in 0 .. Len(bucket) /\ \A k \in DOMAIN jobQueue : jobQueue[k] = Taken + k
    /\ Through \subseteq 1 .. Taken
    /\ \A c \in Busy : worker[c].job \in 1 .. Taken /\ bucket[worker[c].job] = c
    /\ \A c \in Buckets : \A k \in DOMAIN jobChannel[c] :
          jobChannel[c][k] \in 1 .. Taken /\ bucket[jobChannel[c][k]] = c
    /\ Handing => /\ dispatcher.job = Taken /\ Taken \in 1 .. Len(bucket)
                  /\ \A c \in Buckets : Taken \notin Started(c) \cup Range(jobChannel[c])
    /\ \A c \in Busy : worker[c].job \notin Through
    /\ \A c \in Buckets : \A k \in DOMAIN jobChannel[c] : jobChannel[c][k] \notin Started(c)
    /\ \A c \in Buckets : \A k, m \in DOMAIN jobChannel[c] :
          jobChannel[c][k] = jobChannel[c][m] => k = m
    /\ \A k \in DOMAIN callbackC : callbackC[k] \notin Range(ran)
    /\ \A k, m \in DOMAIN callbackC : callbackC[k] = callbackC[m] => k = m

\* The earlier jobs of its bucket are ahead of a job.
InOrder ==
    /\ \A k \in DOMAIN callbackC : \A j \in 1 .. callbackC[k] - 1 :
          bucket[j] = bucket[callbackC[k]] =>
             j \in Range(ran) \/ \E m \in 1 .. k - 1 : callbackC[m] = j
    /\ \A c \in Busy : \A j \in 1 .. worker[c].job - 1 : bucket[j] = c => j \in Through
    /\ \A c \in Buckets : \A k \in DOMAIN jobChannel[c] : \A j \in 1 .. jobChannel[c][k] - 1 :
          bucket[j] = c => j \in Started(c) \/ \E m \in 1 .. k - 1 : jobChannel[c][m] = j
    /\ \A j \in 1 .. Taken : \/ Handing /\ j = Taken
                            \/ j \in Started(bucket[j]) \cup Range(jobChannel[bucket[j]])

BucketInv == TypeOK /\ OnePlace /\ InOrder
=============================================================================
