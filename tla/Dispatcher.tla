----------------------------- MODULE Dispatcher -----------------------------
(***************************************************************************)
(* pkg/worker: the pool that signs and verifies messages off the run loop. *)
(* Exec appends a job to an unbounded list; one goroutine takes jobs from  *)
(* it and hands each to an idle worker; a worker runs the job and queues   *)
(* its callback in a bounded channel that the protocol's AsyncCallback     *)
(* drains on the run loop, where a callback may call Exec again.           *)
(***************************************************************************)
EXTENDS Integers, Sequences, FiniteSets, Functions

CONSTANTS
    Workers,        \* the workers a pool may have
    CallbackCap,    \* the capacity of callbackC
    MaxJobs,        \* bound on the number of jobs submitted
    NoJob, NoWorker

PoolAssumption ==
    /\ Workers # {} /\ IsFiniteSet(Workers) /\ NoWorker \notin Workers
    /\ CallbackCap \in Nat \ {0} /\ MaxJobs \in Nat
    /\ NoJob \notin 1 .. MaxJobs

VARIABLES
    submitted,      \* number of calls of Exec; job j is the j-th
    jobQueue,       \* d.jobQueue
    dispatcher,     \* the dispatch goroutine: [pc, job, worker]
    workerPool,     \* d.workerPool, a channel of idle workers
    worker,         \* [the pool's maxWorkers workers -> [pc, job]]
    callbackC,      \* the channel of callbacks to run
    ran             \* the jobs whose callbacks have run

vars == <<submitted, jobQueue, dispatcher, workerPool, worker, callbackC, ran>>

Jobs == 1 .. MaxJobs

Init ==
    /\ submitted = 0
    /\ jobQueue = << >>
    /\ dispatcher = [pc |-> "front", job |-> NoJob, worker |-> NoWorker]
    /\ workerPool = << >>
    /\ \E pool \in (SUBSET Workers) \ {{}} :
          worker = [w \in pool |-> [pc |-> "register", job |-> NoJob]]
    /\ callbackC = << >>
    /\ ran = << >>

-----------------------------------------------------------------------------
(* The dispatcher *)

\* The body of Exec: enqueue under jobQueueMut and wake the dispatcher.
Submit ==
    /\ submitted < MaxJobs
    /\ submitted' = submitted + 1
    /\ jobQueue' = Append(jobQueue, submitted')
    /\ dispatcher' = IF dispatcher.pc = "waiting" THEN [dispatcher EXCEPT !.pc = "front"]
                     ELSE dispatcher

\* Exec called by a handler of the run loop.
Exec == Submit /\ UNCHANGED <<workerPool, worker, callbackC, ran>>

\* dispatch, on an empty list: jobQueueCond.Wait.
WaitForJob ==
    /\ dispatcher.pc = "front" /\ jobQueue = << >>
    /\ dispatcher' = [dispatcher EXCEPT !.pc = "waiting"]
    /\ UNCHANGED <<submitted, jobQueue, workerPool, worker, callbackC, ran>>

\* dispatch: remove the front element.
TakeJob ==
    /\ dispatcher.pc = "front" /\ jobQueue # << >>
    /\ dispatcher' = [dispatcher EXCEPT !.pc = "obtain", !.job = Head(jobQueue)]
    /\ jobQueue' = Tail(jobQueue)
    /\ UNCHANGED <<submitted, workerPool, worker, callbackC, ran>>

\* jobChannel := <-d.workerPool
ObtainWorker ==
    /\ dispatcher.pc = "obtain" /\ workerPool # << >>
    /\ dispatcher' = [dispatcher EXCEPT !.pc = "hand", !.worker = Head(workerPool)]
    /\ workerPool' = Tail(workerPool)
    /\ UNCHANGED <<submitted, jobQueue, worker, callbackC, ran>>

\* jobChannel <- j, an unbuffered channel: it meets the worker's select.
HandOver ==
    LET w == dispatcher.worker
    IN  /\ dispatcher.pc = "hand"
        /\ worker[w].pc = "select"
        /\ worker' = [worker EXCEPT ![w] = [pc |-> "exec", job |-> dispatcher.job]]
        /\ dispatcher' = [pc |-> "front", job |-> NoJob, worker |-> NoWorker]
        /\ UNCHANGED <<submitted, jobQueue, workerPool, callbackC, ran>>

dispatch == WaitForJob \/ TakeJob \/ ObtainWorker \/ HandOver

-----------------------------------------------------------------------------
(* A worker *)

\* w.workerPool <- w.jobChannel
Register(w) ==
    /\ worker[w].pc = "register" /\ Len(workerPool) < Cardinality(DOMAIN worker)
    /\ workerPool' = Append(workerPool, w)
    /\ worker' = [worker EXCEPT ![w].pc = "select"]
    /\ UNCHANGED <<submitted, jobQueue, dispatcher, callbackC, ran>>

\* result := job.payload.execFunc()
ExecFunc(w) ==
    /\ worker[w].pc = "exec"
    /\ worker' = [worker EXCEPT ![w].pc = "send"]
    /\ UNCHANGED <<submitted, jobQueue, dispatcher, workerPool, callbackC, ran>>

\* job.callbackC <- func() {...}, which blocks while the channel is full.
SendCallback(w) ==
    /\ worker[w].pc = "send" /\ Len(callbackC) < CallbackCap
    /\ callbackC' = Append(callbackC, worker[w].job)
    /\ worker' = [worker EXCEPT ![w] = [pc |-> "register", job |-> NoJob]]
    /\ UNCHANGED <<submitted, jobQueue, dispatcher, workerPool, ran>>

start(w) == Register(w) \/ ExecFunc(w) \/ SendCallback(w)

-----------------------------------------------------------------------------
(* The run loop *)

\* Mutant of RunCallback: a bounded job channel, as in the code that is
\* commented out, blocks Exec inside the callback.
RunCallbackBounded ==
    /\ callbackC # << >>
    /\ ran' = Append(ran, Head(callbackC))
    /\ callbackC' = Tail(callbackC)
    /\ \/ submitted < MaxJobs /\ Len(jobQueue) < CallbackCap /\ Submit
       \/ submitted = MaxJobs /\ UNCHANGED <<submitted, jobQueue, dispatcher>>
    /\ UNCHANGED <<workerPool, worker>>

\* One turn of the loop in AsyncCallback: cb := <-callbackC; cb().
RunCallback ==
    /\ callbackC # << >>
    /\ ran' = Append(ran, Head(callbackC))
    /\ callbackC' = Tail(callbackC)
    /\ Submit \/ UNCHANGED <<submitted, jobQueue, dispatcher>>
    /\ UNCHANGED <<workerPool, worker>>

Next ==
    \/ Exec
    \/ dispatch
    \/ \E w \in DOMAIN worker : start(w)
    \/ RunCallback

-----------------------------------------------------------------------------
TypeOK ==
    /\ submitted \in 0 .. MaxJobs
    /\ jobQueue \in Seq(Jobs) /\ callbackC \in Seq(Jobs) /\ ran \in Seq(Jobs)
    /\ dispatcher \in [pc : {"front", "waiting", "obtain", "hand"},
                       job : Jobs \cup {NoJob}, worker : Workers \cup {NoWorker}]
    /\ DOMAIN worker \subseteq Workers /\ workerPool \in Seq(DOMAIN worker)
    /\ dispatcher.pc = "hand" => dispatcher.worker \in DOMAIN worker
    /\ worker \in [DOMAIN worker -> [pc : {"register", "select", "exec", "send"},
                                     job : Jobs \cup {NoJob}]]

\* What the pool promises is per class of jobs: with one worker all jobs are
\* of one class, with more every job is a class of its own.
Class == [j \in 1 .. submitted |-> IF Cardinality(DOMAIN worker) = 1 THEN 1 ELSE j]

-----------------------------------------------------------------------------
(* The inductive invariant behind the refinement of AsyncJobs *)

\* The jobs taken from the list are those up to this one.
Taken == submitted - Len(jobQueue)

\* The dispatcher has the last of them in hand.
Handing == dispatcher.pc \in {"obtain", "hand"}

Busy == {w \in DOMAIN worker : worker[w].pc \in {"exec", "send"}}

\* The jobs the workers are done with.
Through == Range(ran) \cup Range(callbackC)

\* No job is in two places: the list holds the jobs after Taken in order, and
\* each job before is in one place at most.
OnePlace ==
    /\ Taken \in 0 .. submitted /\ \A k \in DOMAIN jobQueue : jobQueue[k] = Taken + k
    /\ Through \subseteq 1 .. Taken /\ \A w \in Busy : worker[w].job \in 1 .. Taken
    /\ Handing => /\ dispatcher.job = Taken /\ Taken \in 1 .. submitted /\ Taken \notin Through
                  /\ \A w \in Busy : worker[w].job # Taken
    /\ \A w \in Busy : worker[w].job \notin Through
    /\ \A w, v \in Busy : worker[w].job = worker[v].job => w = v
    /\ \A k \in DOMAIN callbackC : callbackC[k] \notin Range(ran)
    /\ \A k, m \in DOMAIN callbackC : callbackC[k] = callbackC[m] => k = m

\* With one worker the jobs before a job are ahead of it.
InOrder ==
    /\ \A k \in DOMAIN callbackC : \A j \in 1 .. callbackC[k] - 1 :
          j \in Range(ran) \/ \E m \in 1 .. k - 1 : callbackC[m] = j
    /\ \A w \in Busy : 1 .. worker[w].job - 1 \subseteq Through
    /\ \A j \in 1 .. Taken : \/ Handing /\ j = Taken
                            \/ j \in Through
                            \/ \E w \in Busy : worker[w].job = j

PoolInv == TypeOK /\ OnePlace /\ (Cardinality(DOMAIN worker) = 1 => InOrder)
=============================================================================
