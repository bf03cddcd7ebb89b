----------------------------- MODULE PeerProofs -----------------------------
(***************************************************************************)
(* Proofs about Peer: the ordered commands and the messages pass through   *)
(* the run loop, the queues and the applier's goroutines without loss,     *)
(* repetition or change of order, and no client is given a result before   *)
(* its command is applied, for any calls, capacities and whether or not    *)
(* Stop is called.                                                         *)
(***************************************************************************)
EXTENDS Peer, LogLemmas

-----------------------------------------------------------------------------
(* Registering a batch of calls: what FoldLeft(Register, base, s) computes *)

\* f holds the states of the tracker after the calls of s at the indices S.
Registers(f, base, s, n) ==
    f = [S \in SUBSET (1 .. n) |->
            IF S = {} THEN base ELSE Register(f[S \ {Max(S)}], s[Max(S)])]

LEMMA RegistersExists ==
  ASSUME NEW base, NEW s, NEW n \in Nat
  PROVE  \E f : Registers(f, base, s, n)
  <1> DEFINE Bad == {k \in Nat : ~\E f : Registers(f, base, s, k)}
  <1>1. SUFFICES ASSUME Bad # {} PROVE FALSE
    OBVIOUS
  <1>2. PICK k \in Bad : \A m \in Bad : k <= m
    <2>1. Bad \in SUBSET Nat
      OBVIOUS
    <2> HIDE DEF Bad
    <2> QED BY <1>1, <2>1, LeastNumber
  <1>3. CASE k = 0
    <2>1. SUBSET (1 .. 0) = {{}}
      OBVIOUS
    <2>2. Registers([S \in SUBSET (1 .. 0) |-> base], base, s, 0)
      BY <2>1 DEF Registers
    <2> QED BY <1>3, <2>2
  <1>4. CASE k # 0
    <2>1. k - 1 \in Nat /\ k - 1 \notin Bad /\ k \in Nat
      BY <1>2, <1>4
    <2>2. PICK f : Registers(f, base, s, k - 1)
      BY <2>1
    <2> DEFINE g == [S \in SUBSET (1 .. k) |->
                        IF k \in S THEN Register(f[S \ {k}], s[k]) ELSE f[S]]
    <2> HIDE DEF Bad
    <2>3. ASSUME NEW S \in SUBSET (1 .. k)
          PROVE  g[S] = IF S = {} THEN base ELSE Register(g[S \ {Max(S)}], s[Max(S)])
      <3>1. CASE k \in S
        <4>1. Max(S) = k
          BY <2>1, <3>1, MaxIs
        <4>2. S # {} /\ S \ {k} \in SUBSET (1 .. k) /\ k \notin S \ {k}
          BY <3>1
        <4>3. g[S] = Register(f[S \ {k}], s[k]) /\ g[S \ {k}] = f[S \ {k}]
          BY <3>1, <4>2
        <4> HIDE DEF g
        <4> QED BY <4>1, <4>2, <4>3
      <3>2. CASE k \notin S
        <4>1. S \in SUBSET (1 .. (k - 1)) /\ S \ {Max(S)} \in SUBSET (1 .. k) /\ k \notin S \ {Max(S)}
          <5>1. \A x \in S : x \in 1 .. k /\ x # k
            BY <3>2
          <5>2. \A x \in S : x \in 1 .. (k - 1)
            BY <2>1, <5>1
          <5> QED BY <3>2, <5>1, <5>2
        <4>2. f[S] = IF S = {} THEN base ELSE Register(f[S \ {Max(S)}], s[Max(S)])
          BY <2>2, <4>1 DEF Registers
        <4>3. g[S] = f[S] /\ g[S \ {Max(S)}] = f[S \ {Max(S)}]
          BY <3>2, <4>1
        <4> HIDE DEF g
        <4> QED BY <4>2, <4>3
      <3> QED BY <3>1, <3>2
    <2>4. Registers(g, base, s, k)
      <3>1. g = [S \in SUBSET (1 .. k) |-> g[S]]
        OBVIOUS
      <3> HIDE DEF g
      <3> QED BY <2>3, <3>1 DEF Registers
    <2> QED BY <1>2, <2>4 DEF Bad
  <1> QED BY <1>3, <1>4

\* The state of the tracker after a batch.
Registered(base, s) == FoldLeft(Register, base, s)

\* The calls of s are registered one after the other.
LEMMA FoldRegisters ==
  ASSUME NEW base, NEW s \in Seq(Calls)
  PROVE  \E f : /\ f[0] = base /\ Registered(base, s) = f[Len(s)]
                /\ \A k \in 1 .. Len(s) : f[k] = Register(f[k - 1], s[k])
  <1> DEFINE iter == CHOOSE g : g = [S \in SUBSET (DOMAIN s) |->
                        IF S = {} THEN base ELSE Register(g[S \ {Max(S)}], s[Max(S)])]
             n == Len(s)
             f == [k \in 0 .. n |-> iter[1 .. k]]
  <1>1. n \in Nat /\ DOMAIN s = 1 .. n
    BY LenProperties
  <1>2. iter = [S \in SUBSET (DOMAIN s) |->
                   IF S = {} THEN base ELSE Register(iter[S \ {Max(S)}], s[Max(S)])]
    <2>1. \E g : Registers(g, base, s, n)
      BY <1>1, RegistersExists
    <2> QED BY <1>1, <2>1 DEF Registers
  <1>3. Registered(base, s) = iter[DOMAIN s]
    BY Zenon DEF Registered, FoldLeft, MapThenFoldSet
  <1> HIDE DEF iter
  <1>4. f[0] = base
    <2>1. 1 .. 0 = {} /\ 0 \in 0 .. n
      BY <1>1
    <2> QED BY <1>2, <2>1
  <1>5. f[n] = iter[DOMAIN s]
    BY <1>1
  <1>6. ASSUME NEW k \in 1 .. n PROVE f[k] = Register(f[k - 1], s[k])
    <2>1. /\ 1 .. k \in SUBSET (1 .. n) /\ 1 .. k # {} /\ k \in 1 .. k /\ k \in Nat
          /\ (1 .. k) \ {k} = 1 .. (k - 1) /\ k \in 0 .. n /\ k - 1 \in 0 .. n
      <3> HIDE DEF n, f
      <3>1. k \in Nat /\ k \in 1 .. k /\ k \in 0 .. n /\ k - 1 \in 0 .. n
        BY <1>1
      <3>2. \A x \in 1 .. k : x \in 1 .. n
        BY <1>1
      <3>3. (1 .. k) \ {k} = 1 .. (k - 1)
        BY <3>1
      <3> QED BY <3>1, <3>2, <3>3
    <2>2. Max(1 .. k) = k
      BY <2>1, MaxIs
    <2>3. iter[1 .. k] = Register(iter[1 .. (k - 1)], s[k])
      BY <1>1, <1>2, <2>1, <2>2
    <2> QED BY <2>1, <2>3
  <1> HIDE DEF f
  <1> QED BY <1>3, <1>4, <1>5, <1>6

\* What holds of the tracker while a batch is registered, R being the results
\* it keeps and ap the commands applied.
TrackerOK(tr, R, ap) ==
    /\ tr \in [chan : [Calls -> {"empty", "full", "closed"}],
               requests : [Commands -> Calls \cup {NoCall}], responses : SUBSET Commands,
               out : Seq(Commands), panicked : BOOLEAN]
    /\ tr.responses = R
    /\ \A c \in Commands : tr.requests[c] # NoCall => CmdOf[tr.requests[c]] = c
    /\ \A c \in R : Contains(ap, c)
    /\ \A q \in Calls : tr.chan[q] = "full" => Contains(ap, CmdOf[q])

LEMMA RegisterKeeps ==
  ASSUME NEW tr, NEW R, NEW ap, TrackerOK(tr, R, ap), NEW q \in Calls
  PROVE  TrackerOK(Register(tr, q), R, ap)
  <1> DEFINE c == CmdOf[q]
  <1>1. c \in Commands
    BY PeerAssumption
  <1> HIDE DEF c
  <1>2. CASE c \in tr.responses
    <2>1. Register(tr, q) = [tr EXCEPT !.chan[q] = "full", !.panicked = @ \/ tr.chan[q] = "closed"]
      BY <1>2 DEF Register, c
    <2>2. Contains(ap, c)
      BY <1>2 DEF TrackerOK
    <2>3. Register(tr, q) = [chan |-> [tr.chan EXCEPT ![q] = "full"], requests |-> tr.requests,
                             responses |-> tr.responses, out |-> tr.out,
                             panicked |-> tr.panicked \/ tr.chan[q] = "closed"]
      BY <2>1 DEF TrackerOK
    <2> QED BY <2>2, <2>3 DEF TrackerOK, c
  <1>3. CASE c \notin tr.responses /\ tr.requests[c] = NoCall
    <2>1. Register(tr, q) = [tr EXCEPT !.requests[c] = q,
                                       !.out = IF c \in Local THEN Append(@, c) ELSE @]
      BY <1>3 DEF Register, c
    <2>2. Append(tr.out, c) \in Seq(Commands)
      BY <1>1 DEF TrackerOK
    <2>3. Register(tr, q) = [chan |-> tr.chan, requests |-> [tr.requests EXCEPT ![c] = q],
                             responses |-> tr.responses,
                             out |-> IF c \in Local THEN Append(tr.out, c) ELSE tr.out,
                             panicked |-> tr.panicked]
      BY <2>1 DEF TrackerOK
    <2> QED BY <1>1, <2>2, <2>3 DEF TrackerOK, c
  <1>4. CASE c \notin tr.responses /\ tr.requests[c] # NoCall
    <2>1. Register(tr, q) = tr
      BY <1>4 DEF Register, c
    <2> QED BY <2>1
  <1> QED BY <1>2, <1>3, <1>4

LEMMA BatchKeeps ==
  ASSUME NEW base, NEW R, NEW ap, TrackerOK(base, R, ap), NEW s \in Seq(Calls)
  PROVE  TrackerOK(Registered(base, s), R, ap)
  <1>1. PICK f : /\ f[0] = base /\ Registered(base, s) = f[Len(s)]
                 /\ \A k \in 1 .. Len(s) : f[k] = Register(f[k - 1], s[k])
    BY FoldRegisters
  <1>2. Len(s) \in Nat /\ \A k \in 1 .. Len(s) : s[k] \in Calls
    BY LenProperties, ElementOfSeq
  <1> DEFINE Bad == {k \in 0 .. Len(s) : ~TrackerOK(f[k], R, ap)}
  <1>3. SUFFICES ASSUME Bad # {} PROVE FALSE
    BY <1>1, <1>2
  <1>4. PICK k \in Bad : \A m \in Bad : k <= m
    <2>1. Bad \in SUBSET Nat
      BY <1>2
    <2> HIDE DEF Bad
    <2> QED BY <1>3, <2>1, LeastNumber
  <1>5. k # 0
    BY <1>1
  <1>6. k \in 1 .. Len(s) /\ k - 1 \in 0 .. Len(s) /\ k - 1 \notin Bad
    BY <1>2, <1>4, <1>5
  <1>7. TrackerOK(f[k - 1], R, ap) /\ f[k] = Register(f[k - 1], s[k]) /\ s[k] \in Calls
    BY <1>1, <1>2, <1>6
  <1> QED BY <1>7, RegisterKeeps

\* flushCmds leaves the tracker in order and emits what it hands the protocol.
LEMMA FlushEffect ==
  ASSUME TypeOK, Tracked, AnsweredAfterApplied, flushCmds, applied' = applied
  PROVE  /\ chan' \in [Calls -> {"empty", "full", "closed"}] /\ rb' = << >>
         /\ requests' \in [Commands -> Calls \cup {NoCall}] /\ responses' = responses
         /\ panicked' \in BOOLEAN
         /\ \E new \in Seq(Commands) : out' = out \o new /\ emitted' = emitted \o new
         /\ Tracked' /\ AnsweredAfterApplied'
  <1> DEFINE base == [chan |-> chan, requests |-> requests, responses |-> responses,
                      out |-> << >>, panicked |-> FALSE]
             tr == Registered(base, rb)
  <1>1. TrackerOK(base, responses, applied)
    BY DEF TypeOK, Tracked, AnsweredAfterApplied, TrackerOK
  <1>2. rb \in Seq(Calls)
    BY DEF TypeOK
  <1>3. /\ chan' = tr.chan /\ requests' = tr.requests /\ responses' = responses
        /\ out' = out \o tr.out /\ emitted' = emitted \o tr.out
        /\ panicked' = tr.panicked /\ rb' = << >>
    BY Zenon DEF flushCmds, Registered
  <1> HIDE DEF base
  <1>4. TrackerOK(tr, responses, applied)
    BY <1>1, <1>2, BatchKeeps
  <1> HIDE DEF tr
  <1> QED BY <1>3, <1>4 DEF TrackerOK, Tracked, AnsweredAfterApplied

-----------------------------------------------------------------------------
(* Types *)

\* Assigning to a field of a goroutine's state.
LEMMA SetRunPc ==
  ASSUME NEW P, NEW E, NEW v \in [pc : P, ents : E], NEW x \in P
  PROVE  /\ [v EXCEPT !.pc = x] \in [pc : P, ents : E]
         /\ [v EXCEPT !.pc = x].ents = v.ents /\ [v EXCEPT !.pc = x].pc = x
  OBVIOUS

LEMMA SetStop ==
  ASSUME NEW P, NEW K, NEW v \in [pc : P, key : K], NEW x \in P, NEW y \in K
  PROVE  [v EXCEPT !.pc = x] \in [pc : P, key : K] /\ [v EXCEPT !.key = y] \in [pc : P, key : K]
  OBVIOUS

LEMMA TypeInit == Init => TypeOK
  <1> SUFFICES ASSUME Init PROVE TypeOK
    OBVIOUS
  <1>1. << >> \in Seq(Commands) /\ << >> \in Seq(Seq(Commands)) /\ << >> \in Seq(Calls)
    BY EmptySeq
  <1>2. /\ call \in [Calls -> {"idle", "added", "waiting", "answered", "cancelled", "error"}]
        /\ chan \in [Calls -> {"empty", "full", "closed"}]
        /\ requests \in [Commands -> Calls \cup {NoCall}]
    BY DEF Init
  <1>3. run \in [pc : RunPcs, ents : Seq(Commands)] /\ stop \in [pc : StopPcs, key : Commands \cup {NoCall}]
    BY <1>1 DEF Init, RunPcs, StopPcs
  <1>4. /\ applier \in [pc : {"take", "apply", "exited"}, ents : Seq(Commands)]
        /\ sender \in [pc : {"take", "send", "exited"}, msgs : Seq(Commands)]
    BY <1>1 DEF Init
  <1> QED BY <1>1, <1>2, <1>3, <1>4 DEF Init, TypeOK

LEMMA TypeClients ==
  ASSUME TypeOK,
         \/ \E q \in Calls : HandleCommand(q) \/ CheckStopped(q) \/ Reply(q) \/ Cancel(q)
         \/ \E c \in Commands : HandleMessage(c)
         \/ TickerCheck \/ Tick
  PROVE  TypeOK'
  <1> USE DEF trackerVars, protocolVars, queueVars, stopVars
  <1>1. ASSUME NEW q \in Calls, HandleCommand(q) PROVE TypeOK'
    BY <1>1, AppendProperties DEF TypeOK, HandleCommand
  <1>2. ASSUME NEW q \in Calls, CheckStopped(q) PROVE TypeOK'
    <2>1. /\ call' \in [Calls -> {"idle", "added", "waiting", "answered", "cancelled", "error"}]
          /\ chan' \in [Calls -> {"empty", "full", "closed"}] /\ panicked' \in BOOLEAN
      <3>1. CASE done
        BY <1>2, <3>1 DEF TypeOK, CheckStopped
      <3>2. CASE ~done
        BY <1>2, <3>2 DEF TypeOK, CheckStopped
      <3> QED BY <3>1, <3>2
    <2> QED BY <1>2, <2>1 DEF TypeOK, CheckStopped
  <1>3. ASSUME NEW q \in Calls, Reply(q) PROVE TypeOK'
    BY <1>3 DEF TypeOK, Reply
  <1>4. ASSUME NEW q \in Calls, Cancel(q) PROVE TypeOK'
    BY <1>4 DEF TypeOK, Cancel
  <1>5. ASSUME NEW c \in Commands, HandleMessage(c) PROVE TypeOK'
    BY <1>5, AppendProperties DEF TypeOK, HandleMessage
  <1>6. ASSUME TickerCheck PROVE TypeOK'
    BY <1>6 DEF TypeOK, TickerCheck
  <1>7. ASSUME Tick PROVE TypeOK'
    BY <1>7 DEF TypeOK, Tick
  <1> QED BY <1>1, <1>2, <1>3, <1>4, <1>5, <1>6, <1>7

\* flushMsgs cuts p.msgs in two.
LEMMA Cut ==
  ASSUME NEW s \in Seq(Commands), NEW k \in 0 .. Len(s)
  PROVE  SubSeq(s, 1, k) \in Seq(Commands) /\ SubSeq(s, k + 1, Len(s)) \in Seq(Commands)
  <1>1. Len(s) \in Nat /\ \A i \in 1 .. Len(s) : s[i] \in Commands
    BY LenProperties, ElementOfSeq
  <1>2. /\ 1 \in Int /\ k \in Int /\ k + 1 \in Int /\ Len(s) \in Int
        /\ \A i \in 1 .. k : s[i] \in Commands
        /\ \A i \in k + 1 .. Len(s) : s[i] \in Commands
    BY <1>1
  <1> QED BY <1>2, SubSeqProperties

LEMMA TypeRun ==
  ASSUME TypeOK, Tracked, AnsweredAfterApplied, Run
  PROVE  TypeOK'
  <1> USE DEF trackerVars, protocolVars, queueVars, stopVars
  <1>0. /\ [run EXCEPT !.pc = "last"] \in [pc : RunPcs, ents : Seq(Commands)]
        /\ [run EXCEPT !.pc = "msgs"] \in [pc : RunPcs, ents : Seq(Commands)]
        /\ [run EXCEPT !.pc = "cmds"] \in [pc : RunPcs, ents : Seq(Commands)]
        /\ [run EXCEPT !.pc = "ready"] \in [pc : RunPcs, ents : Seq(Commands)]
        /\ [run EXCEPT !.pc = "wait"] \in [pc : RunPcs, ents : Seq(Commands)]
        /\ [run EXCEPT !.pc = "exited"] \in [pc : RunPcs, ents : Seq(Commands)]
    BY SetRunPc DEF TypeOK, RunPcs
  <1>1. CASE Wake
    <2>1. run' = [run EXCEPT !.pc = "last"] \/ run' = [run EXCEPT !.pc = "msgs"]
      BY <1>1 DEF Wake
    <2>2. run' \in [pc : RunPcs, ents : Seq(Commands)]
      BY <1>0, <2>1
    <2> QED BY <1>1, <2>2 DEF TypeOK, Wake
  <1>2. CASE flushMsgs
    <2> DEFINE k == IF Len(msgs) < NumPeers THEN Len(msgs) ELSE NumPeers
               new == SubSeq(msgs, 1, k)
    <2>1. k \in 0 .. Len(msgs) /\ msgs \in Seq(Commands)
      BY PeerAssumption, LenProperties DEF TypeOK
    <2>2. /\ lock' = "run" /\ run' = [run EXCEPT !.pc = "cmds"]
          /\ msgs' = SubSeq(msgs, k + 1, Len(msgs))
          /\ ordered' = ordered \o new /\ decided' = decided \o new
          /\ UNCHANGED <<call, trackerVars, rb, sig, stopVars, ticker, applier, queueVars, sender,
                         out, emitted, net, panicked, applied, sent>>
      BY <1>2 DEF flushMsgs
    <2> HIDE DEF k
    <2>3. new \in Seq(Commands) /\ SubSeq(msgs, k + 1, Len(msgs)) \in Seq(Commands)
      BY <2>1, Cut
    <2> HIDE DEF new
    <2>4. ordered \o new \in Seq(Commands) /\ decided \o new \in Seq(Commands)
      BY <2>3, ConcatProperties DEF TypeOK
    <2> QED BY <1>0, <2>2, <2>3, <2>4 DEF TypeOK
  <1>3. CASE Flush
    <2>1. /\ flushCmds /\ run' = [run EXCEPT !.pc = "ready"]
          /\ UNCHANGED <<call, sig, stopVars, lock, ticker, msgs, applier, queueVars, sender,
                         ordered, decided, net, applied, sent>>
      BY <1>3 DEF Flush
    <2>2. PICK new \in Seq(Commands) : out' = out \o new /\ emitted' = emitted \o new
      BY <2>1, FlushEffect
    <2>3. out' \in Seq(Commands) /\ emitted' \in Seq(Commands)
      BY <2>2, ConcatProperties DEF TypeOK
    <2>4. /\ chan' \in [Calls -> {"empty", "full", "closed"}] /\ rb' = << >>
          /\ requests' \in [Commands -> Calls \cup {NoCall}] /\ responses' = responses
          /\ panicked' \in BOOLEAN
      BY <2>1, FlushEffect
    <2>5. rb' \in Seq(Calls)
      BY <2>4, EmptySeq
    <2> QED BY <1>0, <2>1, <2>3, <2>4, <2>5 DEF TypeOK
  <1>4. CASE RunOnce
    <2>1. << >> \in Seq(Commands) /\ Append(toSend, out) \in Seq(Seq(Commands))
      BY EmptySeq, AppendProperties DEF TypeOK
    <2> QED BY <1>4, <2>1 DEF TypeOK, RunOnce, RunPcs
  <1>5. CASE maybeApplyAsync
    <2>1. << >> \in Seq(Commands) /\ Append(toApply, run.ents) \in Seq(Seq(Commands))
      BY EmptySeq, AppendProperties DEF TypeOK
    <2> QED BY <1>5, <2>1 DEF TypeOK, maybeApplyAsync, RunPcs
  <1>6. CASE Relock
    BY <1>0, <1>6 DEF TypeOK, Relock
  <1>7. CASE LastFlush
    <2>1. /\ flushCmds /\ run' = [run EXCEPT !.pc = "exited"]
          /\ UNCHANGED <<call, sig, stopVars, lock, ticker, msgs, applier, queueVars, sender,
                         ordered, decided, net, applied, sent>>
      BY <1>7 DEF LastFlush
    <2>2. PICK new \in Seq(Commands) : out' = out \o new /\ emitted' = emitted \o new
      BY <2>1, FlushEffect
    <2>3. out' \in Seq(Commands) /\ emitted' \in Seq(Commands)
      BY <2>2, ConcatProperties DEF TypeOK
    <2>4. /\ chan' \in [Calls -> {"empty", "full", "closed"}] /\ rb' = << >>
          /\ requests' \in [Commands -> Calls \cup {NoCall}] /\ responses' = responses
          /\ panicked' \in BOOLEAN
      BY <2>1, FlushEffect
    <2>5. rb' \in Seq(Calls)
      BY <2>4, EmptySeq
    <2> QED BY <1>0, <2>1, <2>3, <2>4, <2>5 DEF TypeOK
  <1> QED BY <1>1, <1>2, <1>3, <1>4, <1>5, <1>6, <1>7 DEF Run

LEMMA TypeApplier ==
  ASSUME TypeOK, InHand, ApplierTake \/ Apply \/ SenderTake \/ SendOne
  PROVE  TypeOK'
  <1> USE DEF trackerVars, protocolVars, queueVars, stopVars
  <1>0. << >> \in Seq(Commands)
    BY EmptySeq
  <1>1. CASE ApplierTake
    <2>1. Head(toApply) \in Seq(Commands) /\ Tail(toApply) \in Seq(Seq(Commands))
      BY <1>1, HeadTailProperties DEF TypeOK, ApplierTake
    <2> QED BY <1>0, <1>1, <2>1 DEF TypeOK, ApplierTake
  <1>2. CASE Apply
    <2>1. /\ Append(applied, Head(applier.ents)) \in Seq(Commands)
          /\ Tail(applier.ents) \in Seq(Commands) /\ Head(applier.ents) \in Commands
      BY <1>2, MoveFirst DEF TypeOK, InHand, Apply
    <2>2. /\ requests' \in [Commands -> Calls \cup {NoCall}] /\ responses' \subseteq Commands
          /\ chan' \in [Calls -> {"empty", "full", "closed"}] /\ panicked' \in BOOLEAN
      <3>1. Finish(Head(applier.ents))
        BY <1>2 DEF Apply
      <3>2. CASE requests[Head(applier.ents)] # NoCall
        BY <2>1, <3>1, <3>2 DEF TypeOK, Finish
      <3>3. CASE requests[Head(applier.ents)] = NoCall
        BY <2>1, <3>1, <3>3 DEF TypeOK, Finish
      <3> QED BY <3>2, <3>3
    <2>3. applier' \in [pc : {"take", "apply", "exited"}, ents : Seq(Commands)] /\ sig' \in BOOLEAN
      BY <1>2, <2>1 DEF Apply
    <2> QED BY <1>2, <2>1, <2>2, <2>3 DEF TypeOK, Apply
  <1>3. CASE SenderTake
    <2>1. Head(toSend) \in Seq(Commands) /\ Tail(toSend) \in Seq(Seq(Commands))
      BY <1>3, HeadTailProperties DEF TypeOK, SenderTake
    <2> QED BY <1>0, <1>3, <2>1 DEF TypeOK, SenderTake
  <1>4. CASE SendOne
    <2>1. /\ Append(sent, Head(sender.msgs)) \in Seq(Commands)
          /\ Tail(sender.msgs) \in Seq(Commands) /\ Head(sender.msgs) \in Commands
      BY <1>4, MoveFirst DEF TypeOK, InHand, SendOne
    <2>2. Append(msgs, Head(sender.msgs)) \in Seq(Commands)
      BY <2>1, AppendProperties DEF TypeOK
    <2>3. msgs' \in Seq(Commands) /\ net' \subseteq Commands /\ sig' \in BOOLEAN
      BY <1>4, <2>1, <2>2 DEF TypeOK, SendOne
    <2>4. sender' \in [pc : {"take", "send", "exited"}, msgs : Seq(Commands)]
      BY <1>4, <2>1 DEF SendOne
    <2> QED BY <1>4, <2>1, <2>3, <2>4 DEF TypeOK, SendOne
  <1> QED BY <1>1, <1>2, <1>3, <1>4

LEMMA TypeStop ==
  ASSUME TypeOK, Stop
  PROVE  TypeOK'
  <1> USE DEF trackerVars, protocolVars, queueVars, stopVars
  <1>0. /\ \A x \in StopPcs : [stop EXCEPT !.pc = x] \in [pc : StopPcs, key : Commands \cup {NoCall}]
        /\ \A y \in Commands \cup {NoCall} :
              [stop EXCEPT !.key = y] \in [pc : StopPcs, key : Commands \cup {NoCall}]
        /\ {"signal", "wait", "finish", "toApply", "toSend", "drain", "returned"} \subseteq StopPcs
    BY SetStop DEF TypeOK, StopPcs
  <1>1. CASE StopSignal
    BY <1>0, <1>1 DEF TypeOK, StopSignal
  <1>2. CASE StopClose
    BY <1>0, <1>2 DEF TypeOK, StopClose
  <1>3. CASE StopWait
    BY <1>0, <1>3 DEF TypeOK, StopWait
  <1>4. CASE StopFinishAll
    <2>1. /\ requests' \in [Commands -> Calls \cup {NoCall}] /\ panicked' \in BOOLEAN
          /\ chan' \in [Calls -> {"empty", "full", "closed"}]
          /\ stop' \in [pc : StopPcs, key : Commands \cup {NoCall}]
      BY <1>0, <1>4 DEF TypeOK, StopFinishAll
    <2> QED BY <1>4, <2>1 DEF TypeOK, StopFinishAll
  <1>5. CASE StopApplier
    <2>1. Append(toApply, << >>) \in Seq(Seq(Commands)) /\ Append(toSend, << >>) \in Seq(Seq(Commands))
      BY EmptySeq, AppendProperties DEF TypeOK
    <2>2. /\ toApply' \in Seq(Seq(Commands)) /\ toSend' \in Seq(Seq(Commands))
          /\ stop' \in [pc : StopPcs, key : Commands \cup {NoCall}]
      BY <1>0, <1>5, <2>1 DEF TypeOK, StopApplier, StopEvent
    <2> QED BY <1>5, <2>2 DEF TypeOK, StopApplier
  <1>6. CASE StopDrained
    BY <1>0, <1>6 DEF TypeOK, StopDrained
  <1> QED BY <1>1, <1>2, <1>3, <1>4, <1>5, <1>6 DEF Stop

LEMMA TypeNext ==
  ASSUME TypeOK, InHand, Tracked, AnsweredAfterApplied, [Next]_vars
  PROVE  TypeOK'
  <1>1. CASE Next
    BY <1>1, TypeClients, TypeRun, TypeApplier, TypeStop DEF Next
  <1>2. CASE UNCHANGED vars
    BY <1>2 DEF vars, TypeOK
  <1> QED BY <1>1, <1>2

-----------------------------------------------------------------------------
(* What the goroutines have in hand *)

\* The steps that touch what the goroutines have in hand, or the queues.
LEMMA StepKinds ==
  ASSUME [Next]_vars
  PROVE  \/ UNCHANGED <<run, applier, sender, toApply, toSend, applied, sent, ordered, decided,
                        out, emitted>>
         \/ Run \/ ApplierTake \/ Apply \/ SenderTake \/ SendOne \/ StopApplier
  <1> USE DEF trackerVars, protocolVars, queueVars, stopVars
  <1>1. ASSUME NEW q \in Calls, HandleCommand(q) \/ CheckStopped(q) \/ Reply(q) \/ Cancel(q)
        PROVE  UNCHANGED <<run, applier, sender, toApply, toSend, applied, sent, ordered, decided,
                           out, emitted>>
    BY <1>1 DEF HandleCommand, CheckStopped, Reply, Cancel
  <1>2. ASSUME NEW c \in Commands, HandleMessage(c)
        PROVE  UNCHANGED <<run, applier, sender, toApply, toSend, applied, sent, ordered, decided,
                           out, emitted>>
    BY <1>2 DEF HandleMessage
  <1>3. ASSUME \/ TickerCheck \/ Tick \/ StopSignal \/ StopClose \/ StopWait \/ StopFinishAll
               \/ StopDrained
        PROVE  UNCHANGED <<run, applier, sender, toApply, toSend, applied, sent, ordered, decided,
                           out, emitted>>
    BY <1>3 DEF TickerCheck, Tick, StopSignal, StopClose, StopWait, StopFinishAll, StopDrained
  <1>4. CASE UNCHANGED vars
    BY <1>4 DEF vars
  <1> QED BY <1>1, <1>2, <1>3, <1>4 DEF Next, Stop

LEMMA InHandNext ==
  ASSUME TypeOK, InHand, [Next]_vars
  PROVE  InHand'
  <1> USE DEF trackerVars, protocolVars, queueVars, stopVars
  <1>1. CASE UNCHANGED <<run, applier, sender, toApply, toSend, applied, sent, ordered, decided,
                         out, emitted>>
    BY <1>1 DEF InHand
  <1>2. CASE Wake \/ flushMsgs \/ Flush \/ Relock \/ LastFlush
    <2>1. \E x \in RunPcs : x # "apply" /\ run.pc # "apply" /\ run' = [run EXCEPT !.pc = x]
      BY <1>2 DEF Wake, flushMsgs, Flush, Relock, LastFlush, RunPcs
    <2>2. run'.pc # "apply" /\ run.pc # "apply" /\ run'.ents = run.ents
      BY <2>1, SetRunPc DEF TypeOK
    <2>3. UNCHANGED <<applier, sender>>
      BY <1>2 DEF Wake, flushMsgs, Flush, Relock, LastFlush
    <2> QED BY <2>2, <2>3 DEF InHand
  <1>3. CASE RunOnce
    BY <1>3 DEF InHand, RunOnce
  <1>4. CASE maybeApplyAsync
    BY <1>4 DEF InHand, maybeApplyAsync
  <1>5. CASE ApplierTake
    BY <1>5 DEF InHand, ApplierTake, StopEvent
  <1>6. CASE Apply
    BY <1>6 DEF InHand, Apply
  <1>7. CASE SenderTake
    BY <1>7 DEF InHand, SenderTake, StopEvent
  <1>8. CASE SendOne
    BY <1>8 DEF InHand, SendOne
  <1>9. CASE StopApplier
    BY <1>9 DEF InHand, StopApplier
  <1> QED BY <1>1, <1>2, <1>3, <1>4, <1>5, <1>6, <1>7, <1>8, <1>9, StepKinds DEF Run

-----------------------------------------------------------------------------
(* ApplyOrder *)

LEMMA ApplyOrderNext ==
  ASSUME TypeOK, InHand, ApplyOrder, [Next]_vars
  PROVE  ApplyOrder'
  <1> USE DEF trackerVars, protocolVars, queueVars, stopVars
  <1> DEFINE F == FlattenSeq(toApply)
  <1>0. /\ applied \in Seq(Commands) /\ applier.ents \in Seq(Commands) /\ F \in Seq(Commands)
        /\ run.ents \in Seq(Commands) /\ ordered \in Seq(Commands)
        /\ Row(applied, applier.ents, F, run.ents, ordered) = decided
    BY FlattenType DEF TypeOK, ApplyOrder, Row, Held
  <1> HIDE DEF F
  <1>1. CASE UNCHANGED <<run, applier, sender, toApply, toSend, applied, sent, ordered, decided,
                         out, emitted>>
    BY <1>1 DEF ApplyOrder
  <1>2. CASE Wake \/ Flush \/ Relock \/ LastFlush
    <2>1. \E x \in RunPcs : run' = [run EXCEPT !.pc = x]
      BY <1>2 DEF Wake, Flush, Relock, LastFlush, RunPcs
    <2>2. run'.ents = run.ents
      BY <2>1, SetRunPc DEF TypeOK
    <2>3. UNCHANGED <<applied, applier, toApply, ordered, decided>>
      BY <1>2 DEF Wake, Flush, Relock, LastFlush
    <2> QED BY <2>2, <2>3 DEF ApplyOrder
  <1>3. CASE flushMsgs
    <2> DEFINE k == IF Len(msgs) < NumPeers THEN Len(msgs) ELSE NumPeers
               new == SubSeq(msgs, 1, k)
    <2>1. k \in 0 .. Len(msgs) /\ msgs \in Seq(Commands)
      BY PeerAssumption, LenProperties DEF TypeOK
    <2>2. /\ run' = [run EXCEPT !.pc = "cmds"]
          /\ ordered' = ordered \o new /\ decided' = decided \o new
          /\ UNCHANGED <<applied, applier, toApply>>
      BY <1>3 DEF flushMsgs
    <2> HIDE DEF k
    <2>3. new \in Seq(Commands)
      BY <2>1, Cut
    <2> HIDE DEF new
    <2>4. run'.ents = run.ents
      BY <2>2, SetRunPc DEF TypeOK, RunPcs
    <2>5. Held(applied, applier.ents, F, run.ents) \in Seq(Commands)
      BY <1>0, RowType DEF Held
    <2>6. Row(applied, applier.ents, F, run.ents, ordered \o new)
             = Row(applied, applier.ents, F, run.ents, ordered) \o new
      <3>1. ordered \in Seq(Commands)
        BY <1>0
      <3> QED BY <2>3, <2>5, <3>1, RowIn
    <2> QED BY <1>0, <2>2, <2>4, <2>6 DEF ApplyOrder, Row, Held, F
  <1>4. CASE RunOnce
    <2>1. run.ents = << >> /\ run'.ents = ordered /\ ordered' = << >>
          /\ UNCHANGED <<applied, applier, toApply, decided>>
      BY <1>4 DEF RunOnce, InHand
    <2>2. Row(applied, applier.ents, F, << >>, ordered) = Row(applied, applier.ents, F, ordered, << >>)
      BY <1>0, RowTaken
    <2> QED BY <1>0, <2>1, <2>2 DEF ApplyOrder, Row, Held, F
  <1>5. CASE maybeApplyAsync
    <2>1. /\ toApply' = Append(toApply, run.ents) /\ run'.ents = << >>
          /\ UNCHANGED <<applied, applier, ordered, decided>>
      BY <1>5 DEF maybeApplyAsync
    <2>2. FlattenSeq(toApply') = F \o run.ents
      <3>1. toApply \in Seq(Seq(Commands)) /\ run.ents \in Seq(Commands)
        BY DEF TypeOK
      <3> QED BY <2>1, <3>1, FlattenAppend DEF F
    <2>3. Row(applied, applier.ents, F \o run.ents, << >>, ordered)
             = Row(applied, applier.ents, F, run.ents, ordered)
      BY <1>0, RowQueued
    <2> QED BY <1>0, <2>1, <2>2, <2>3 DEF ApplyOrder, Row, Held
  <1>6. CASE ApplierTake
    <2>1. /\ toApply # << >> /\ toApply' = Tail(toApply) /\ applier.ents = << >>
          /\ applier'.ents = Head(toApply) /\ UNCHANGED <<applied, run, ordered, decided>>
      BY <1>6 DEF ApplierTake, InHand, StopEvent
    <2>2. Head(toApply) \in Seq(Commands) /\ Tail(toApply) \in Seq(Seq(Commands))
      BY <2>1, HeadTailProperties DEF TypeOK
    <2>3. F = Head(toApply) \o FlattenSeq(toApply') /\ FlattenSeq(toApply') \in Seq(Commands)
      BY <2>1, <2>2, FlattenHead, FlattenType DEF TypeOK, F
    <2>4. Row(applied, Head(toApply), FlattenSeq(toApply'), run.ents, ordered)
             = Row(applied, << >>, Head(toApply) \o FlattenSeq(toApply'), run.ents, ordered)
      BY <1>0, <2>2, <2>3, RowBatch
    <2> QED BY <1>0, <2>1, <2>3, <2>4 DEF ApplyOrder, Row, Held
  <1>7. CASE Apply
    <2>1. /\ applier.ents # << >> /\ applied' = Append(applied, Head(applier.ents))
          /\ applier'.ents = Tail(applier.ents) /\ UNCHANGED <<toApply, run, ordered, decided>>
      BY <1>7 DEF Apply, InHand
    <2>2. Row(Append(applied, Head(applier.ents)), Tail(applier.ents), F, run.ents, ordered)
             = Row(applied, applier.ents, F, run.ents, ordered)
      BY <1>0, <2>1, RowDone
    <2> QED BY <1>0, <2>1, <2>2 DEF ApplyOrder, Row, Held, F
  <1>8. CASE SenderTake \/ SendOne
    BY <1>8 DEF ApplyOrder, SenderTake, SendOne
  <1>9. CASE StopApplier
    <2>1. UNCHANGED <<applied, applier, run, ordered, decided>>
      BY <1>9 DEF StopApplier
    <2>2. toApply' = Append(toApply, << >>) \/ toApply' = toApply
      BY <1>9 DEF StopApplier, StopEvent
    <2>3. FlattenSeq(Append(toApply, << >>)) = F \o << >> /\ F \o << >> = F
      <3>1. toApply \in Seq(Seq(Commands)) /\ << >> \in Seq(Commands)
        BY EmptySeq DEF TypeOK
      <3>2. FlattenSeq(Append(toApply, << >>)) = F \o << >>
        BY <3>1, FlattenAppend DEF F
      <3>3. F \o << >> = F
        BY <1>0, ConcatEmptySeq
      <3> QED BY <3>2, <3>3
    <2> QED BY <1>0, <2>1, <2>2, <2>3 DEF ApplyOrder, Row, Held, F
  <1> QED BY <1>1, <1>2, <1>3, <1>4, <1>5, <1>6, <1>7, <1>8, <1>9, StepKinds DEF Run

-----------------------------------------------------------------------------
(* NoMessageLost *)

LEMMA NoMessageLostNext ==
  ASSUME TypeOK, InHand, Tracked, AnsweredAfterApplied, NoMessageLost, [Next]_vars
  PROVE  NoMessageLost'
  <1> USE DEF trackerVars, protocolVars, queueVars, stopVars
  <1> DEFINE F == FlattenSeq(toSend)
  <1>0. /\ sent \in Seq(Commands) /\ sender.msgs \in Seq(Commands) /\ F \in Seq(Commands)
        /\ out \in Seq(Commands) /\ << >> \in Seq(Commands)
    BY FlattenType, EmptySeq DEF TypeOK
  <1> HIDE DEF F
  <1>b. Row(sent, sender.msgs, F, << >>, out) = emitted
    <2>1. Row(sent, sender.msgs, F, << >>, out) = Short(sent, sender.msgs, F, out)
      BY <1>0, RowShort
    <2> QED BY <2>1 DEF NoMessageLost, Short, F
  <1>d. /\ sent' \in Seq(Commands) /\ sender'.msgs \in Seq(Commands)
        /\ FlattenSeq(toSend') \in Seq(Commands)
    <2>1. TypeOK'
      BY TypeNext
    <2>2. /\ sent' \in Seq(Commands) /\ sender'.msgs \in Seq(Commands)
          /\ toSend' \in Seq(Seq(Commands))
      BY <2>1 DEF TypeOK
    <2> QED BY <2>2, FlattenType
  <1>c. SUFFICES Row(sent', sender'.msgs, FlattenSeq(toSend'), << >>, out') = emitted'
    <2>1. Row(sent', sender'.msgs, FlattenSeq(toSend'), << >>, out')
             = Short(sent', sender'.msgs, FlattenSeq(toSend'), out')
      BY <1>d, RowShort
    <2> QED BY <2>1 DEF NoMessageLost, Short
  <1>1. CASE UNCHANGED <<run, applier, sender, toApply, toSend, applied, sent, ordered, decided,
                         out, emitted>>
    BY <1>1, <1>b, <1>d DEF F
  <1>2. CASE Wake \/ flushMsgs \/ maybeApplyAsync \/ Relock \/ ApplierTake \/ Apply
    <2>1. UNCHANGED <<sent, sender, toSend, out, emitted>>
      BY <1>2 DEF Wake, flushMsgs, maybeApplyAsync, Relock, ApplierTake, Apply
    <2> QED BY <1>b, <1>d, <2>1 DEF F
  <1>3. CASE Flush \/ LastFlush
    <2>1. flushCmds /\ UNCHANGED <<sent, sender, toSend, applied>>
      BY <1>3 DEF Flush, LastFlush
    <2>2. PICK new \in Seq(Commands) : out' = out \o new /\ emitted' = emitted \o new
      BY <2>1, FlushEffect
    <2>3. Held(sent, sender.msgs, F, << >>) \in Seq(Commands)
      BY <1>0, RowType DEF Held
    <2>4. Row(sent, sender.msgs, F, << >>, out \o new) = Row(sent, sender.msgs, F, << >>, out) \o new
      <3>1. out \in Seq(Commands)
        BY <1>0
      <3> QED BY <2>3, <3>1, RowIn
    <2> QED BY <1>b, <1>d, <2>1, <2>2, <2>4 DEF F
  <1>4. CASE RunOnce
    <2>1. UNCHANGED <<sent, sender, emitted>>
      BY <1>4 DEF RunOnce
    <2>2. CASE toSend' = Append(toSend, out) /\ out' = << >>
      <3>1. FlattenSeq(toSend') = F \o out
        <4>1. toSend \in Seq(Seq(Commands)) /\ out \in Seq(Commands)
          BY DEF TypeOK
        <4> QED BY <2>2, <4>1, FlattenAppend DEF F
      <3>2. Row(sent, sender.msgs, F \o out, << >>, << >>) = Row(sent, sender.msgs, F, out, << >>)
        BY <1>0, RowQueued
      <3>3. Row(sent, sender.msgs, F, << >>, out) = Row(sent, sender.msgs, F, out, << >>)
        BY <1>0, RowTaken
      <3> QED BY <1>b, <1>d, <2>1, <2>2, <3>1, <3>2, <3>3
    <2>3. CASE UNCHANGED <<toSend, out>>
      BY <1>b, <1>d, <2>1, <2>3 DEF F
    <2> QED BY <1>4, <2>2, <2>3 DEF RunOnce
  <1>5. CASE SenderTake
    <2>1. /\ toSend # << >> /\ toSend' = Tail(toSend) /\ sender.msgs = << >>
          /\ sender'.msgs = Head(toSend) /\ UNCHANGED <<sent, out, emitted>>
      BY <1>5 DEF SenderTake, InHand, StopEvent
    <2>2. Head(toSend) \in Seq(Commands) /\ Tail(toSend) \in Seq(Seq(Commands))
      BY <2>1, HeadTailProperties DEF TypeOK
    <2>3. F = Head(toSend) \o FlattenSeq(toSend')
      BY <2>1, <2>2, FlattenHead DEF TypeOK, F
    <2>4. Row(sent, Head(toSend), FlattenSeq(toSend'), << >>, out)
             = Row(sent, << >>, Head(toSend) \o FlattenSeq(toSend'), << >>, out)
      BY <1>0, <1>d, <2>2, RowBatch
    <2> QED BY <1>b, <1>d, <2>1, <2>3, <2>4
  <1>6. CASE SendOne
    <2>1. /\ sender.msgs # << >> /\ sent' = Append(sent, Head(sender.msgs))
          /\ sender'.msgs = Tail(sender.msgs) /\ UNCHANGED <<toSend, out, emitted>>
      BY <1>6 DEF SendOne, InHand
    <2>2. Row(Append(sent, Head(sender.msgs)), Tail(sender.msgs), F, << >>, out)
             = Row(sent, sender.msgs, F, << >>, out)
      BY <1>0, <2>1, RowDone
    <2> QED BY <1>b, <1>d, <2>1, <2>2 DEF F
  <1>7. CASE StopApplier
    <2>1. UNCHANGED <<sent, sender, out, emitted>>
      BY <1>7 DEF StopApplier
    <2>2. toSend' = Append(toSend, << >>) \/ toSend' = toSend
      BY <1>7 DEF StopApplier, StopEvent
    <2>3. FlattenSeq(Append(toSend, << >>)) = F \o << >> /\ F \o << >> = F
      <3>1. toSend \in Seq(Seq(Commands)) /\ << >> \in Seq(Commands)
        BY EmptySeq DEF TypeOK
      <3>2. FlattenSeq(Append(toSend, << >>)) = F \o << >>
        BY <3>1, FlattenAppend DEF F
      <3>3. F \o << >> = F
        BY <1>0, ConcatEmptySeq
      <3> QED BY <3>2, <3>3
    <2> QED BY <1>b, <1>d, <2>1, <2>2, <2>3 DEF F
  <1> QED BY <1>1, <1>2, <1>3, <1>4, <1>5, <1>6, <1>7, StepKinds DEF Run

-----------------------------------------------------------------------------
(* AnsweredAfterApplied *)

\* What is applied stays applied.
LEMMA ContainsAppend ==
  ASSUME NEW s \in Seq(Commands), NEW x \in Commands, NEW c, Contains(s, c) \/ c = x
  PROVE  Contains(Append(s, x), c)
  <1>1. /\ Len(s) \in Nat /\ Len(Append(s, x)) = Len(s) + 1 /\ Append(s, x)[Len(s) + 1] = x
        /\ \A i \in 1 .. Len(s) : Append(s, x)[i] = s[i]
    BY LenProperties, AppendProperties
  <1>2. CASE Contains(s, c)
    BY <1>1, <1>2 DEF Contains
  <1>3. CASE c = x
    <2>1. Len(s) + 1 \in 1 .. Len(s) + 1
      BY <1>1
    <2> QED BY <1>1, <1>3, <2>1 DEF Contains
  <1> QED BY <1>2, <1>3

LEMMA AnswersNext ==
  ASSUME TypeOK, InHand, Tracked, AnsweredAfterApplied, [Next]_vars
  PROVE  Tracked' /\ AnsweredAfterApplied'
  <1> USE DEF trackerVars, protocolVars, queueVars, stopVars
  <1>0. CmdOf \in [Calls -> Commands] /\ NoCall \notin Calls
    BY PeerAssumption
  <1>1. CASE UNCHANGED <<requests, responses, applied, chan>>
    BY <1>1 DEF Tracked, AnsweredAfterApplied
  <1>2. ASSUME NEW q \in Calls, CheckStopped(q)
        PROVE  Tracked' /\ AnsweredAfterApplied'
    <2>1. UNCHANGED <<requests, responses, applied>>
      BY <1>2 DEF CheckStopped
    <2>2. chan' = [chan EXCEPT ![q] = "closed"] \/ chan' = chan
      BY <1>2 DEF CheckStopped
    <2>3. \A p \in Calls : chan'[p] = "full" => chan[p] = "full"
      BY <2>2 DEF TypeOK
    <2> QED BY <2>1, <2>3 DEF Tracked, AnsweredAfterApplied
  <1>3. CASE Flush \/ LastFlush
    <2>1. flushCmds /\ applied' = applied
      BY <1>3 DEF Flush, LastFlush
    <2> QED BY <2>1, FlushEffect
  <1>4. CASE Apply
    <2> DEFINE c == Head(applier.ents)
    <2>1. c \in Commands /\ applied' = Append(applied, c) /\ Finish(c)
      BY <1>4, HeadTailProperties DEF TypeOK, InHand, Apply
    <2> HIDE DEF c
    <2>2. \A d : Contains(applied, d) \/ d = c => Contains(applied', d)
      BY <2>1, ContainsAppend DEF TypeOK
    <2>3. CASE requests[c] # NoCall
      <3>1. /\ requests' = [requests EXCEPT ![c] = NoCall] /\ responses' = responses
            /\ requests[c] \in Calls /\ CmdOf[requests[c]] = c
        BY <2>1, <2>3 DEF TypeOK, Tracked, Finish
      <3>2. \A p \in Calls : p # requests[c] => chan'[p] = chan[p]
        BY <2>1, <2>3 DEF TypeOK, Finish
      <3>3. Tracked'
        BY <2>1, <2>2, <3>1 DEF TypeOK, Tracked
      <3>4. AnsweredAfterApplied'
        BY <2>2, <3>1, <3>2 DEF AnsweredAfterApplied
      <3> QED BY <3>3, <3>4
    <2>4. CASE requests[c] = NoCall
      <3>1. responses' = responses \cup {c} /\ UNCHANGED <<requests, chan>>
        BY <2>1, <2>4 DEF Finish
      <3> QED BY <2>2, <3>1 DEF Tracked, AnsweredAfterApplied
    <2> QED BY <2>3, <2>4
  <1>5. CASE StopFinishAll
    <2>1. UNCHANGED <<responses, applied>>
      BY <1>5 DEF StopFinishAll
    <2>2. \A c \in Commands : requests'[c] # NoCall => requests'[c] = requests[c]
      BY <1>5 DEF StopFinishAll, TypeOK
    <2>3. \A p \in Calls : chan'[p] = "full" => chan[p] = "full"
      BY <1>5 DEF StopFinishAll, TypeOK
    <2> QED BY <2>1, <2>2, <2>3 DEF Tracked, AnsweredAfterApplied
  <1>6. ASSUME NEW q \in Calls, HandleCommand(q) \/ Reply(q) \/ Cancel(q)
        PROVE  UNCHANGED <<requests, responses, applied, chan>>
    BY <1>6 DEF HandleCommand, Reply, Cancel
  <1>7. ASSUME NEW c \in Commands, HandleMessage(c)
        PROVE  UNCHANGED <<requests, responses, applied, chan>>
    BY <1>7 DEF HandleMessage
  <1>8. ASSUME \/ Wake \/ flushMsgs \/ RunOnce \/ maybeApplyAsync \/ Relock \/ TickerCheck \/ Tick
        PROVE  UNCHANGED <<requests, responses, applied, chan>>
    BY <1>8 DEF Wake, flushMsgs, RunOnce, maybeApplyAsync, Relock, TickerCheck, Tick
  <1>9. ASSUME \/ ApplierTake \/ SenderTake \/ SendOne \/ StopSignal \/ StopClose \/ StopWait
               \/ StopApplier \/ StopDrained
        PROVE  UNCHANGED <<requests, responses, applied, chan>>
    BY <1>9 DEF ApplierTake, SenderTake, SendOne, StopSignal, StopClose, StopWait, StopApplier,
                StopDrained
  <1>10. CASE UNCHANGED vars
    BY <1>1, <1>10 DEF vars
  <1> QED BY <1>1, <1>2, <1>3, <1>4, <1>5, <1>6, <1>7, <1>8, <1>9, <1>10 DEF Next, Run, Stop

-----------------------------------------------------------------------------
(* The theorems *)

LEMMA PeerInit == Init => PeerInv
  <1> SUFFICES ASSUME Init PROVE PeerInv
    OBVIOUS
  <1>1. TypeOK
    BY TypeInit
  <1>2. FlattenSeq(<< >>) = << >> /\ << >> \o << >> = << >>
    BY EmptySeq, ConcatEmptySeq DEF FlattenSeq
  <1>3. ApplyOrder /\ NoMessageLost
    BY <1>2 DEF Init, ApplyOrder, NoMessageLost
  <1>4. InHand /\ Tracked /\ AnsweredAfterApplied
    BY DEF Init, InHand, Tracked, AnsweredAfterApplied
  <1> QED BY <1>1, <1>3, <1>4 DEF PeerInv

\* Every step of the peer keeps its types, hands what it takes from one queue
\* to the next, and answers only for what is applied.
THEOREM PeerInvariant == Spec => []PeerInv
  <1>1. PeerInv /\ [Next]_vars => PeerInv'
    <2> SUFFICES ASSUME PeerInv, [Next]_vars PROVE PeerInv'
      OBVIOUS
    <2>1. TypeOK /\ InHand /\ ApplyOrder /\ NoMessageLost /\ Tracked /\ AnsweredAfterApplied
      BY DEF PeerInv
    <2>2. TypeOK' /\ InHand' /\ ApplyOrder' /\ NoMessageLost' /\ Tracked' /\ AnsweredAfterApplied'
      BY <2>1, TypeNext, InHandNext, ApplyOrderNext, NoMessageLostNext, AnswersNext
    <2> QED BY <2>2 DEF PeerInv
  <1> QED BY <1>1, PeerInit, PTL DEF Spec

\* The commands are applied in the order they were decided in, without loss or
\* repetition, for any capacities and also while Stop runs.
THEOREM AppliesInOrder == Spec => []ApplyOrder
  <1>1. PeerInv => ApplyOrder
    BY DEF PeerInv
  <1> QED BY <1>1, PeerInvariant, PTL

\* The messages are sent in the order they were emitted in, without loss or
\* repetition, however often toSend is full.
THEOREM SendsAll == Spec => []NoMessageLost
  <1>1. PeerInv => NoMessageLost
    BY DEF PeerInv
  <1> QED BY <1>1, PeerInvariant, PTL

\* No call is given a result before its command is applied, whichever calls
\* repeat it.
THEOREM AnswersAfterApplying == Spec => []AnsweredAfterApplied
  <1>1. PeerInv => AnsweredAfterApplied
    BY DEF PeerInv
  <1> QED BY <1>1, PeerInvariant, PTL
=============================================================================
