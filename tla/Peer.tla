-------------------------------- MODULE Peer --------------------------------
(***************************************************************************)
(* The runtime that hosts a protocol at one replica: peer/peer.go,         *)
(* peer/applier.go and pkg/command/tracker.go.  Its threads are the calls  *)
(* of HandleCommand that serve clients, the stream goroutines that call    *)
(* HandleMessage, the run loop, the ticker, the goroutine that applies     *)
(* ordered commands, the one that sends messages, and Stop.                *)
(*                                                                         *)
(* The protocol is the one below p.n: Request emits a message about its    *)
(* command, and stepping a message orders the command it is about (PBFT    *)
(* gives a command that is requested again another index).  A message is   *)
(* therefore the command it is about.  The buffer of ReqBuf is a sequence  *)
(* here; the locks inside it are in that module.                           *)
(***************************************************************************)
EXTENDS Integers, Sequences, SequencesExt

CONSTANTS
    Commands,   \* the commands of this execution
    Local,      \* the ones whose Target is this peer
    SelfSend,   \* the ones whose message the protocol sends to the peer itself
    Calls,      \* calls of HandleCommand
    CmdOf,      \* [Calls -> Commands], the command of a call
    NumPeers,   \* len(p.cfg.Peers), the most batches flushMsgs takes in one go
    MsgCap, ApplyCap, SendCap,  \* the capacities of p.msgs, toApply and toSend
    MayStop,    \* whether Stop is called
    NoCall

ASSUME PeerAssumption ==
    /\ Local \subseteq Commands /\ SelfSend \subseteq Local
    /\ CmdOf \in [Calls -> Commands] /\ NoCall \notin Calls
    /\ NumPeers \in Nat \ {0} /\ MsgCap \in Nat \ {0}
    /\ ApplyCap \in Nat \ {0} /\ SendCap \in Nat \ {0} /\ MayStop \in BOOLEAN

VARIABLES
    call,       \* [Calls -> where the call of HandleCommand is]
    chan,       \* [Calls -> {"empty", "full", "closed"}], its result channel c
    rb,         \* the calls in p.rb
    requests,   \* [Commands -> Calls \cup {NoCall}], Tracker.requests
    responses,  \* the commands in Tracker.responses
    sig,        \* the token in p.sig
    done,       \* p.done
    lock,       \* who holds p.mu between two steps: "free" or "run"
    run,        \* the run loop: [pc, ents]
    ticker,     \* the ticker: "check", "lock" or "exited"
    msgs,       \* p.msgs
    applier,    \* the applying goroutine: [pc, ents]
    toApply,    \* pl.toApply
    sender,     \* the sending goroutine: [pc, msgs]
    toSend,     \* pl.toSend
    out,        \* the protocol's outgoing messages, returned by MakeReady
    ordered,    \* the protocol's ordered commands, returned by MakeReady
    net,        \* messages other peers have for this one
    stop,       \* Stop: [pc, key]
    panicked,   \* a goroutine has panicked, which ends the process
    decided, applied,   \* history: the commands ordered, and those applied
    emitted, sent       \* history: the messages emitted, and those sent

trackerVars == <<chan, requests, responses>>
protocolVars == <<out, ordered, decided, emitted>>
queueVars == <<toApply, toSend>>
stopVars == <<done, stop>>
vars == <<call, chan, rb, requests, responses, sig, done, lock, run, ticker, msgs,
          applier, toApply, sender, toSend, out, ordered, net, stop, panicked,
          decided, applied, emitted, sent>>

Init ==
    /\ call = [q \in Calls |-> "idle"] /\ chan = [q \in Calls |-> "empty"]
    /\ rb = << >> /\ requests = [c \in Commands |-> NoCall] /\ responses = {}
    /\ sig = FALSE /\ done = FALSE /\ lock = "free"
    /\ run = [pc |-> "wait", ents |-> << >>] /\ ticker = "check" /\ msgs = << >>
    /\ applier = [pc |-> "take", ents |-> << >>] /\ toApply = << >>
    /\ sender = [pc |-> "take", msgs |-> << >>] /\ toSend = << >>
    /\ out = << >> /\ ordered = << >> /\ net = Commands \ Local
    /\ stop = [pc |-> "no", key |-> NoCall] /\ panicked = FALSE
    /\ decided = << >> /\ applied = << >> /\ emitted = << >> /\ sent = << >>

-----------------------------------------------------------------------------
(* Clients and streams *)

\* HandleCommand up to p.signal(): the call is buffered and the loop woken.
HandleCommand(q) ==
    /\ call[q] = "idle"
    /\ call' = [call EXCEPT ![q] = "added"]
    /\ rb' = Append(rb, q)
    /\ sig' = TRUE
    /\ UNCHANGED <<trackerVars, stopVars, lock, run, ticker, msgs, applier, queueVars, sender,
                   protocolVars, net, panicked, applied, sent>>

\* if p.stopped() { close(c); return }: closing a channel twice panics.
CheckStopped(q) ==
    /\ call[q] = "added"
    /\ IF done
       THEN /\ call' = [call EXCEPT ![q] = "error"]
            /\ chan' = [chan EXCEPT ![q] = "closed"]
            /\ panicked' = (chan[q] = "closed")
       ELSE /\ call' = [call EXCEPT ![q] = "waiting"]
            /\ UNCHANGED <<chan, panicked>>
    /\ UNCHANGED <<rb, requests, responses, sig, stopVars, lock, run, ticker, msgs, applier,
                   queueVars, sender, protocolVars, net, applied, sent>>

\* case res := <-c: a closed channel yields nil, which MarshallAndSign
\* dereferences.
Reply(q) ==
    /\ call[q] = "waiting" /\ chan[q] # "empty"
    /\ call' = [call EXCEPT ![q] = "answered"]
    /\ panicked' = (chan[q] = "closed")
    /\ UNCHANGED <<trackerVars, rb, sig, stopVars, lock, run, ticker, msgs, applier, queueVars,
                   sender, protocolVars, net, applied, sent>>

\* case <-ctx.Done(): the client gives up or the server closes the connection.
Cancel(q) ==
    /\ call[q] = "waiting"
    /\ call' = [call EXCEPT ![q] = "cancelled"]
    /\ UNCHANGED <<trackerVars, rb, sig, stopVars, lock, run, ticker, msgs, applier, queueVars,
                   sender, protocolVars, net, panicked, applied, sent>>

\* HandleMessage, called by a stream goroutine until t.Close.
HandleMessage(c) ==
    /\ c \in net /\ Len(msgs) < MsgCap
    /\ stop.pc \in {"no", "signal"}
    /\ msgs' = Append(msgs, c)
    /\ net' = net \ {c}
    /\ sig' = TRUE
    /\ UNCHANGED <<call, trackerVars, rb, stopVars, lock, run, ticker, applier, queueVars, sender,
                   protocolVars, panicked, applied, sent>>

-----------------------------------------------------------------------------
(* The tracker *)

\* Mutant of Register: a call for a command that is on its way is answered
\* at once.
RegisterAnswering(tr, q) ==
    LET c == CmdOf[q]
    IN  IF c \notin tr.responses /\ tr.requests[c] = NoCall
        THEN [tr EXCEPT !.requests[c] = q,
                        !.out = IF c \in Local THEN Append(@, c) ELSE @]
        ELSE [tr EXCEPT !.chan[q] = "full"]

\* Mutant of Register: what finished before it was registered is forgotten.
RegisterForgetful(tr, q) ==
    LET c == CmdOf[q]
    IN  IF tr.requests[c] = NoCall
        THEN [tr EXCEPT !.requests[c] = q,
                        !.out = IF c \in Local THEN Append(@, c) ELSE @]
        ELSE tr

\* Tracker.Register for the calls of a batch in turn, and Request for the
\* registered commands of this peer.
Register(tr, q) ==
    LET c == CmdOf[q]
    IN  CASE c \in tr.responses ->
               [tr EXCEPT !.chan[q] = "full", !.panicked = @ \/ tr.chan[q] = "closed"]
          [] c \notin tr.responses /\ tr.requests[c] = NoCall ->
               [tr EXCEPT !.requests[c] = q,
                          !.out = IF c \in Local THEN Append(@, c) ELSE @]
          [] OTHER -> tr

\* flushCmds, called by p.rb.flush.
flushCmds ==
    LET tr == FoldLeft(Register,
                       [chan |-> chan, requests |-> requests, responses |-> responses,
                        out |-> << >>, panicked |-> FALSE], rb)
    IN  /\ chan' = tr.chan /\ requests' = tr.requests /\ responses' = responses
        /\ out' = out \o tr.out /\ emitted' = emitted \o tr.out
        /\ panicked' = tr.panicked
        /\ rb' = << >>

\* Tracker.Finish: sending on a closed channel panics.
Finish(c) ==
    LET q == requests[c]
    IN  IF q # NoCall
        THEN /\ requests' = [requests EXCEPT ![c] = NoCall]
             /\ chan' = [chan EXCEPT ![q] = IF @ = "empty" THEN "full" ELSE @]
             /\ panicked' = (chan[q] = "closed")
             /\ UNCHANGED responses
        ELSE /\ responses' = responses \cup {c}
             /\ UNCHANGED <<requests, chan, panicked>>

-----------------------------------------------------------------------------
(* The run loop *)

\* <-p.sig and the test of p.stopped().
Wake ==
    /\ run.pc = "wait" /\ sig
    /\ sig' = FALSE
    /\ run' = [run EXCEPT !.pc = IF done THEN "last" ELSE "msgs"]
    /\ UNCHANGED <<call, trackerVars, rb, stopVars, lock, ticker, msgs, applier, queueVars, sender,
                   protocolVars, net, panicked, applied, sent>>

\* p.mu.Lock() and flushMsgs: at most NumPeers batches in one go.
flushMsgs ==
    LET k == IF Len(msgs) < NumPeers THEN Len(msgs) ELSE NumPeers
        new == SubSeq(msgs, 1, k)
    IN  /\ run.pc = "msgs" /\ lock = "free"
        /\ lock' = "run"
        /\ run' = [run EXCEPT !.pc = "cmds"]
        /\ msgs' = SubSeq(msgs, k + 1, Len(msgs))
        /\ ordered' = ordered \o new
        /\ decided' = decided \o new
        /\ UNCHANGED <<call, trackerVars, rb, sig, stopVars, ticker, applier, queueVars, sender,
                       out, emitted, net, panicked, applied, sent>>

\* p.rb.flush(p.flushCmdsFn, false)
Flush ==
    /\ run.pc = "cmds"
    /\ flushCmds
    /\ run' = [run EXCEPT !.pc = "ready"]
    /\ UNCHANGED <<call, sig, stopVars, lock, ticker, msgs, applier, queueVars, sender, ordered,
                   decided, net, applied, sent>>

\* Mutant of RunOnce: messages are cleared whether they were sent or not.
RunOnceClearing ==
    /\ run.pc = "ready"
    /\ toSend' = IF out # << >> /\ Len(toSend) < SendCap THEN Append(toSend, out) ELSE toSend
    /\ out' = << >>
    /\ ordered' = << >>
    /\ run' = [pc |-> IF ordered = << >> THEN "relock" ELSE "apply", ents |-> ordered]
    /\ lock' = "free"
    /\ UNCHANGED <<call, trackerVars, rb, sig, stopVars, ticker, msgs, applier, toApply, sender,
                   decided, emitted, net, panicked, applied, sent>>

\* RunOnce up to its Unlock: the messages go to the sender if there is room
\* and stay with the protocol otherwise; the ordered commands are taken over.
RunOnce ==
    LET sends == out # << >> /\ Len(toSend) < SendCap
    IN  /\ run.pc = "ready"
        /\ toSend' = IF sends THEN Append(toSend, out) ELSE toSend
        /\ out' = IF sends THEN << >> ELSE out
        /\ ordered' = << >>
        /\ run' = [pc |-> IF ordered = << >> THEN "relock" ELSE "apply", ents |-> ordered]
        /\ lock' = "free"
        /\ UNCHANGED <<call, trackerVars, rb, sig, stopVars, ticker, msgs, applier, toApply, sender,
                       decided, emitted, net, panicked, applied, sent>>

\* Mutant of maybeApplyAsync: a select with a default, as for the messages.
maybeApplyDropping ==
    /\ run.pc = "apply"
    /\ toApply' = IF Len(toApply) < ApplyCap THEN Append(toApply, run.ents) ELSE toApply
    /\ run' = [pc |-> "relock", ents |-> << >>]
    /\ UNCHANGED <<call, trackerVars, rb, sig, stopVars, lock, ticker, msgs, applier, sender, toSend,
                   protocolVars, net, panicked, applied, sent>>

\* maybeApplyAsync: pl.toApply <- ..., without the lock.
maybeApplyAsync ==
    /\ run.pc = "apply" /\ Len(toApply) < ApplyCap
    /\ toApply' = Append(toApply, run.ents)
    /\ run' = [pc |-> "relock", ents |-> << >>]
    /\ UNCHANGED <<call, trackerVars, rb, sig, stopVars, lock, ticker, msgs, applier, sender, toSend,
                   protocolVars, net, panicked, applied, sent>>

\* The Lock at the end of RunOnce and the loop's Unlock.
Relock ==
    /\ run.pc = "relock"
    /\ lock' = "free"
    /\ run' = [run EXCEPT !.pc = "wait"]
    /\ UNCHANGED <<call, trackerVars, rb, sig, stopVars, ticker, msgs, applier, queueVars, sender,
                   protocolVars, net, panicked, applied, sent>>

\* The last turn after Stop: a forced flush under the lock.
LastFlush ==
    /\ run.pc = "last" /\ lock = "free"
    /\ flushCmds
    /\ run' = [run EXCEPT !.pc = "exited"]
    /\ UNCHANGED <<call, sig, stopVars, lock, ticker, msgs, applier, queueVars, sender, ordered,
                   decided, net, applied, sent>>

Run == Wake \/ flushMsgs \/ Flush \/ RunOnce \/ maybeApplyAsync \/ Relock \/ LastFlush

\* ticker: the loop's test of p.stopped().
TickerCheck ==
    /\ ticker = "check"
    /\ ticker' = IF done THEN "exited" ELSE "lock"
    /\ UNCHANGED <<call, trackerVars, rb, sig, stopVars, lock, run, msgs, applier, queueVars, sender,
                   protocolVars, net, panicked, applied, sent>>

\* A tick: p.n.Tick() under the lock, then p.signal().
Tick ==
    /\ ticker = "lock" /\ lock = "free"
    /\ ticker' = "check"
    /\ sig' = TRUE
    /\ UNCHANGED <<call, trackerVars, rb, stopVars, lock, run, msgs, applier, queueVars, sender,
                   protocolVars, net, panicked, applied, sent>>

-----------------------------------------------------------------------------
(* The applier's goroutines *)

\* The event that makes a goroutine of the applier return.
StopEvent == << >>

\* ev := <-pl.toApply
ApplierTake ==
    /\ applier.pc = "take" /\ toApply # << >>
    /\ applier' = IF Head(toApply) = StopEvent THEN [pc |-> "exited", ents |-> << >>]
                  ELSE [pc |-> "apply", ents |-> Head(toApply)]
    /\ toApply' = Tail(toApply)
    /\ UNCHANGED <<call, trackerVars, rb, sig, stopVars, lock, run, ticker, msgs, sender, toSend,
                   protocolVars, net, panicked, applied, sent>>

\* handleExecutedCmds for one command: execute it, then Finish under the lock;
\* after the last one, notify the run loop.
Apply ==
    LET rest == Tail(applier.ents)
    IN  /\ applier.pc = "apply" /\ lock = "free"
        /\ applied' = Append(applied, Head(applier.ents))
        /\ Finish(Head(applier.ents))
        /\ applier' = [pc |-> IF rest = << >> THEN "take" ELSE "apply", ents |-> rest]
        /\ sig' = (sig \/ rest = << >>)
        /\ UNCHANGED <<call, rb, stopVars, lock, run, ticker, msgs, queueVars, sender,
                       protocolVars, net, sent>>

\* ev := <-pl.toSend
SenderTake ==
    /\ sender.pc = "take" /\ toSend # << >>
    /\ sender' = IF Head(toSend) = StopEvent THEN [pc |-> "exited", msgs |-> << >>]
                 ELSE [pc |-> "send", msgs |-> Head(toSend)]
    /\ toSend' = Tail(toSend)
    /\ UNCHANGED <<call, trackerVars, rb, sig, stopVars, lock, run, ticker, msgs, applier, toApply,
                   protocolVars, net, panicked, applied, sent>>

\* sendMessages: one message to the peer itself, through HandleMessage, or to
\* another peer, which answers it.
SendOne ==
    LET c == Head(sender.msgs)
        rest == Tail(sender.msgs)
    IN  /\ sender.pc = "send"
        /\ IF c \in SelfSend
           THEN Len(msgs) < MsgCap /\ msgs' = Append(msgs, c) /\ sig' = TRUE /\ UNCHANGED net
           ELSE net' = net \cup {c} /\ UNCHANGED <<msgs, sig>>
        /\ sent' = Append(sent, c)
        /\ sender' = [pc |-> IF rest = << >> THEN "take" ELSE "send", msgs |-> rest]
        /\ UNCHANGED <<call, trackerVars, rb, stopVars, lock, run, ticker, applier, queueVars,
                       protocolVars, panicked, applied>>

-----------------------------------------------------------------------------
(* Stop *)

\* atomic.StoreInt32(&p.done, 1); p.signal()
StopSignal ==
    /\ MayStop /\ stop.pc = "no"
    /\ done' = TRUE /\ sig' = TRUE
    /\ stop' = [stop EXCEPT !.pc = "signal"]
    /\ UNCHANGED <<call, trackerVars, rb, lock, run, ticker, msgs, applier, queueVars, sender,
                   protocolVars, net, panicked, applied, sent>>

\* p.t.Close(), which ends the streams.
StopClose ==
    /\ stop.pc = "signal"
    /\ stop' = [stop EXCEPT !.pc = "wait"]
    /\ UNCHANGED <<call, trackerVars, rb, sig, done, lock, run, ticker, msgs, applier, queueVars,
                   sender, protocolVars, net, panicked, applied, sent>>

\* p.wg.Wait() for the run loop and the ticker.
StopWait ==
    /\ stop.pc = "wait" /\ run.pc = "exited" /\ ticker = "exited"
    /\ stop' = [stop EXCEPT !.pc = "finish"]
    /\ UNCHANGED <<call, trackerVars, rb, sig, done, lock, run, ticker, msgs, applier, queueVars,
                   sender, protocolVars, net, panicked, applied, sent>>

\* FinishAll, without the lock: close(c), then delete, for each request.
StopFinishAll ==
    /\ stop.pc = "finish"
    /\ \/ \E c \in Commands :
             /\ stop.key = NoCall /\ requests[c] # NoCall
             /\ panicked' = (chan[requests[c]] = "closed")
             /\ chan' = [chan EXCEPT ![requests[c]] = "closed"]
             /\ stop' = [stop EXCEPT !.key = c]
             /\ UNCHANGED requests
       \/ /\ stop.key # NoCall
          /\ requests' = [requests EXCEPT ![stop.key] = NoCall]
          /\ stop' = [stop EXCEPT !.key = NoCall]
          /\ UNCHANGED <<chan, panicked>>
       \/ /\ stop.key = NoCall /\ \A c \in Commands : requests[c] = NoCall
          /\ stop' = [stop EXCEPT !.pc = "toApply"]
          /\ UNCHANGED <<chan, requests, panicked>>
    /\ UNCHANGED <<call, responses, rb, sig, done, lock, run, ticker, msgs, applier, queueVars,
                   sender, protocolVars, net, applied, sent>>

\* Mutant of StopApplier: the two stop events are swapped.
StopApplierTwice ==
    /\ stop.pc \in {"toApply", "toSend"} /\ Len(toApply) < ApplyCap
    /\ toApply' = Append(toApply, StopEvent)
    /\ stop' = [stop EXCEPT !.pc = IF @ = "toApply" THEN "toSend" ELSE "drain"]
    /\ UNCHANGED <<call, trackerVars, rb, sig, done, lock, run, ticker, msgs, applier, sender,
                   toSend, protocolVars, net, panicked, applied, sent>>

\* pl.Stop: a stop event for each goroutine.
StopApplier ==
    /\ \/ /\ stop.pc = "toApply" /\ Len(toApply) < ApplyCap
          /\ toApply' = Append(toApply, StopEvent)
          /\ stop' = [stop EXCEPT !.pc = "toSend"]
          /\ UNCHANGED toSend
       \/ /\ stop.pc = "toSend" /\ Len(toSend) < SendCap
          /\ toSend' = Append(toSend, StopEvent)
          /\ stop' = [stop EXCEPT !.pc = "drain"]
          /\ UNCHANGED toApply
    /\ UNCHANGED <<call, trackerVars, rb, sig, done, lock, run, ticker, msgs, applier, sender,
                   protocolVars, net, panicked, applied, sent>>

\* <-stoppedC; <-sendStoppedC
StopDrained ==
    /\ stop.pc = "drain" /\ applier.pc = "exited" /\ sender.pc = "exited"
    /\ stop' = [stop EXCEPT !.pc = "returned"]
    /\ UNCHANGED <<call, trackerVars, rb, sig, done, lock, run, ticker, msgs, applier, queueVars,
                   sender, protocolVars, net, panicked, applied, sent>>

Stop == StopSignal \/ StopClose \/ StopWait \/ StopFinishAll \/ StopApplier \/ StopDrained

-----------------------------------------------------------------------------
Next ==
    /\ ~panicked
    /\ \/ \E q \in Calls : HandleCommand(q) \/ CheckStopped(q) \/ Reply(q) \/ Cancel(q)
       \/ \E c \in Commands : HandleMessage(c)
       \/ Run \/ TickerCheck \/ Tick
       \/ ApplierTake \/ Apply \/ SenderTake \/ SendOne
       \/ Stop

Spec == Init /\ [][Next]_vars

\* Every goroutine that can run does run.  The ones that wait for the lock or
\* for room in p.msgs need strong fairness: a Go mutex turns to the longest
\* waiter after 1 ms, and a channel serves its blocked senders first in, first
\* out.  The ticker ticks and the network delivers; no client has to give up.
FairSpec ==
    /\ Spec
    /\ WF_vars(~panicked /\ Run)
    /\ SF_vars(~panicked /\ (TickerCheck \/ Tick))
    /\ SF_vars(~panicked /\ (ApplierTake \/ Apply))
    /\ SF_vars(~panicked /\ (SenderTake \/ SendOne))
    /\ WF_vars(~panicked /\ stop.pc # "no" /\ Stop)
    /\ \A c \in Commands : SF_vars(~panicked /\ HandleMessage(c))
    /\ \A q \in Calls : WF_vars(~panicked /\ (CheckStopped(q) \/ Reply(q)))

-----------------------------------------------------------------------------
(* Properties *)

\* RunOnce, toApply and the applying goroutine hand the ordered commands on
\* without loss, repetition or change of order, although the lock is released
\* in between.
ApplyOrder ==
    applied \o applier.ents \o FlattenSeq(toApply) \o run.ents \o ordered = decided

\* So do trySendMessages, toSend and the sending goroutine with the messages,
\* however often toSend is full.
NoMessageLost ==
    sent \o sender.msgs \o FlattenSeq(toSend) \o out = emitted

\* A client that is given a result has had its command applied here, also
\* when its call repeats one that is on its way or one that is finished.
AnsweredAfterApplied ==
    \A q \in Calls : chan[q] = "full" => Contains(applied, CmdOf[q])

\* Every client of this peer is answered unless the peer is stopped, whatever
\* the capacities: nobody holds the lock while it waits for a queue that only
\* a lock holder empties, no wake-up is lost for good, and a command that is
\* applied before its call is registered is remembered.
EveryCallAnswered == <>[](done \/ \A q \in Calls : call[q] # "waiting")

\* Stop returns, unless a panic ends the process first: the run loop, the
\* ticker and both goroutines of the applier end, and nobody waits for one that
\* has ended.
StopReturns == <>[](stop.pc \in {"no", "returned"} \/ panicked)

\* Stop ends no process by a panic of a goroutine of the peer.
NoPanic == ~panicked

-----------------------------------------------------------------------------
(* The inductive invariant behind ApplyOrder, NoMessageLost and
   AnsweredAfterApplied *)

RunPcs == {"wait", "msgs", "cmds", "ready", "apply", "relock", "last", "exited"}
StopPcs == {"no", "signal", "wait", "finish", "toApply", "toSend", "drain", "returned"}

TypeOK ==
    /\ call \in [Calls -> {"idle", "added", "waiting", "answered", "cancelled", "error"}]
    /\ chan \in [Calls -> {"empty", "full", "closed"}] /\ rb \in Seq(Calls)
    /\ requests \in [Commands -> Calls \cup {NoCall}] /\ responses \subseteq Commands
    /\ sig \in BOOLEAN /\ done \in BOOLEAN /\ lock \in {"free", "run"}
    /\ run \in [pc : RunPcs, ents : Seq(Commands)]
    /\ ticker \in {"check", "lock", "exited"}
    /\ applier \in [pc : {"take", "apply", "exited"}, ents : Seq(Commands)]
    /\ sender \in [pc : {"take", "send", "exited"}, msgs : Seq(Commands)]
    /\ toApply \in Seq(Seq(Commands)) /\ toSend \in Seq(Seq(Commands))
    /\ msgs \in Seq(Commands) /\ net \subseteq Commands
    /\ out \in Seq(Commands) /\ emitted \in Seq(Commands) /\ sent \in Seq(Commands)
    /\ ordered \in Seq(Commands) /\ decided \in Seq(Commands) /\ applied \in Seq(Commands)
    /\ stop \in [pc : StopPcs, key : Commands \cup {NoCall}]
    /\ panicked \in BOOLEAN

\* A goroutine has commands or messages in hand only while it passes them on,
\* and then at least one.
InHand ==
    /\ run.pc # "apply" => run.ents = << >>
    /\ applier.pc = "apply" <=> applier.ents # << >>
    /\ sender.pc = "send" <=> sender.msgs # << >>

\* The tracker has a call registered under the call's own command, and keeps
\* a result only for what has been applied.
Tracked ==
    /\ \A c \in Commands : requests[c] # NoCall => CmdOf[requests[c]] = c
    /\ \A c \in responses : Contains(applied, c)

PeerInv == TypeOK /\ InHand /\ ApplyOrder /\ NoMessageLost /\ Tracked /\ AnsweredAfterApplied
=============================================================================
