--------------------------- MODULE ClusterProofs ---------------------------
(***************************************************************************)
(* Proofs about the protocols with one log (module ClusterProtocols).      *)
(***************************************************************************)
EXTENDS ClusterProtocols, ClusterLemmas

-----------------------------------------------------------------------------
(* SBFT *)

\* An instance of a protocol's module has operators of its own; they are those of Cluster.
LEMMA SBridge ==
  /\ S!Alive = Alive /\ S!Correct = Correct
  /\ \A V : S!Cardinality(V) = Cardinality(V)
  /\ \A to, m : S!sendTo(to, m) = sendTo(to, m)
  /\ \A r, type : S!received(r, type) = received(r, type)
  /\ \A r : S!popped(r) = popped(r)
  /\ \A r, j : S!withJob(r, j) = withJob(r, j)
  /\ \A r, j : S!withoutJob(r, j) = withoutJob(r, j)
  /\ \A r, type : S!pending(r, type) = pending(r, type)
  /\ \A K, i, e : S!put(K, i, e) = put(K, i, e)
  /\ \A i, P : S!loopEnd(i, P) = loopEnd(i, P)
  /\ \A r, i, field, val : S!differs(r, i, field, val) <=> differs(r, i, field, val)
  /\ \A c : S!newCommand(c) <=> newCommand(c)
  /\ \A r, c : S!resultSent(r, c) => resultSent(r, c)
  <1>1. S!Alive = Alive /\ S!Correct = Correct
    BY DEF S!Alive, S!Correct, Alive, Correct
  <1>2. \A V : S!Cardinality(V) = Cardinality(V)
    BY Zenon DEF S!Cardinality, Cardinality
  <1>3. /\ \A to, m : S!sendTo(to, m) = sendTo(to, m)
        /\ \A r, type : S!received(r, type) = received(r, type)
        /\ \A r : S!popped(r) = popped(r)
    BY <1>1 DEF S!sendTo, sendTo, S!received, received, S!popped, popped
  <1>4. /\ \A r, j : S!withJob(r, j) = withJob(r, j)
        /\ \A r, j : S!withoutJob(r, j) = withoutJob(r, j)
        /\ \A r, type : S!pending(r, type) = pending(r, type)
    BY <1>1 DEF S!withJob, withJob, S!withoutJob, withoutJob, S!pending, pending, S!withOne, withOne,
                S!withoutOne, withoutOne
  <1>5. \A K, i, e : S!put(K, i, e) = put(K, i, e)
    BY DEF S!put, put
  <1>6. \A i, P : S!loopEnd(i, P) = loopEnd(i, P)
    BY Zenon DEF S!loopEnd, loopEnd, S!Min, Min
  <1>7. \A r, i, field, val : S!differs(r, i, field, val) <=> differs(r, i, field, val)
    BY DEF S!differs, differs
  <1>8. \A c : S!newCommand(c) <=> newCommand(c)
    BY <1>2 DEF S!newCommand, newCommand
  <1>9. \A r, c : S!resultSent(r, c) => resultSent(r, c)
    BY <1>1 DEF S!resultSent, resultSent, S!Range, Range
  <1> QED BY <1>1, <1>2, <1>3, <1>4, <1>5, <1>6, <1>7, <1>8, <1>9

LEMMA SEnds ==
  ASSUME ClusterInv, NEW r \in Replicas, S!Panic(r) \/ S!Crash(r)
  PROVE  ClusterInv'
  <1>1. S!stop(r)
    BY DEF S!Panic, S!Crash
  <1>2. stop(r)
    BY <1>1 DEF S!stop, stop, S!noJobs, noJobs
  <1> QED BY <1>2, StopStep

LEMMA SExecutes ==
  ASSUME NEW e \in Instances("sbft"), e.status = 3, e.command # Nil
  PROVE  LET e2 == [e EXCEPT !.command = Nil, !.status = 5]
         IN  /\ doneIn("sbft", e) /\ e.command \in Commands
             /\ e2 \in Instances("sbft") /\ Executes("sbft", e, e2)
  <1> DEFINE e2 == [e EXCEPT !.command = Nil, !.status = 5]
  <1>1. e \in [status : Nat, command : Value, hash : Value, signed : BOOLEAN]
    BY DEF Instances
  <1>2. /\ e2 \in [status : Nat, command : Value, hash : Value, signed : BOOLEAN]
        /\ e2.command = Nil /\ e2.hash = e.hash /\ e2.signed = e.signed
    BY <1>1 DEF Value
  <1>3. e.command \in Commands
    BY <1>1 DEF Value
  <1> HIDE DEF e2
  <1>4. doneIn("sbft", e)
    BY DEF doneIn
  <1>5. Executes("sbft", e, e2)
    BY <1>2, <1>4 DEF Executes, hashOf, votedIn
  <1>6. e2 \in Instances("sbft")
    BY <1>2 DEF Instances
  <1> QED BY <1>3, <1>4, <1>5, <1>6 DEF e2

LEMMA SExec ==
  ASSUME Core, Frame, cfg.protocol = "sbft", NEW r, NEW L, LogStep(cfg, log, r, L), LeaderFine(cfg),
         S!exec(r, L)
  PROVE  Core' /\ Keeps(cfg, log, log')
  <1> DEFINE P == {i \in DOMAIN L : S!IsCommitted(L[i]) /\ L[i].command # Nil}
             E == [i \in DOMAIN L |-> [L[i] EXCEPT !.command = Nil, !.status = 5]]
             to == loopEnd(execIdx[r], P)
  <1>1. /\ log' = [log EXCEPT ![r] = Passed(L, E, execIdx[r], to)]
        /\ execIdx' = [execIdx EXCEPT ![r] = to] /\ to = loopEnd(execIdx[r], P)
        /\ executed' = [executed EXCEPT ![r] = @ \o CommandsOf(L, execIdx[r], to)]
    BY SBridge DEF S!exec, S!Executed, Passed, CommandsOf
  <1>2. Passes(cfg, L, P, E)
    <2> SUFFICES ASSUME NEW i \in P
                 PROVE  /\ doneIn("sbft", L[i]) /\ L[i].command \in Commands
                        /\ E[i] \in Instances("sbft") /\ Executes("sbft", L[i], E[i])
      BY DEF Passes
    <2>1. L[i] \in Instances("sbft") /\ L[i].status = 3 /\ L[i].command # Nil
      BY LogType DEF LogStep, S!IsCommitted, S!Committed
    <2>2. E[i] = [L[i] EXCEPT !.command = Nil, !.status = 5]
      OBVIOUS
    <2> HIDE DEF P, E
    <2> QED BY <2>1, <2>2, SExecutes
  <1> HIDE DEF P, E, to
  <1> QED BY <1>1, <1>2, ExecIs

\* The votes that S counts.
LEMMA SVotes ==
  ASSUME Core, cfg.protocol = "sbft"
  PROVE  /\ \A i, c : S!signers(i, c) = Voters(cfg, log, i, c) \cup Liars(cfg)
         /\ \A V : S!Majority(V) <=> Cardinality(V) >= Need(cfg)
         /\ LeaderFine(cfg) /\ cfg.protocol # "mirbft" /\ cfg.protocol # "hybster"
  <1>1. S!Correct = Good(cfg)
    BY SBridge, CoreFacts
  <1>2. \A i, c : S!signers(i, c) = Voters(cfg, log, i, c) \cup Liars(cfg)
    BY <1>1 DEF S!signers, Voters, Liars, votedIn, hashOf
  <1>3. \A V : S!Majority(V) <=> Cardinality(V) >= Need(cfg)
    BY SBridge DEF S!Majority, S!threshold, Need
  <1> QED BY <1>2, <1>3 DEF LeaderFine

LEMMA SRequest ==
  ASSUME ClusterInv, cfg.protocol = "sbft", NEW c \in Commands, S!onRequest(c)
  PROVE  ClusterInv'
  <1> DEFINE e == S!makeInstance(S!Prepared, c, Nil, FALSE)
             i == index[Leader]
             m == [type |-> "Prepare", index |-> i, val |-> c]
  <1>1. Core /\ LeaderFine(cfg) /\ cfg \in Scenarios
    BY SVotes, CoreFacts DEF ClusterInv
  <1>2. /\ Leader \in Alive /\ c \in Commands \ requested /\ requested' = requested \cup {c}
        /\ index' = [index EXCEPT ![Leader] = @ + 1] /\ log' = [log EXCEPT ![Leader] = put(@, i, e)]
        /\ chan' = sendTo(cfg.members, m)
        /\ UNCHANGED <<cfg, jobs, execIdx, executed, results, answered>>
    BY SBridge DEF S!onRequest, newCommand
  <1>3. e \in Instances(cfg.protocol) /\ e.command = c /\ hashOf(cfg.protocol, e) = Nil /\ ~doneIn(cfg.protocol, e)
    BY DEF S!makeInstance, S!Prepared, Instances, Value, hashOf, doneIn
  <1> HIDE DEF e
  <1>4. Proposes(cfg, log, Leader, i, e, c)
    BY <1>1, <1>2, <1>3, LeaderProposes
  <1>5. index' \in [Replicas -> Nat] /\ i \in Nat /\ index'[Leader] = i + 1
    BY <1>1, <1>2, CoreFacts
  <1> HIDE DEF i
  <1>6. Core' /\ Keeps(cfg, log, log') /\ Proposed(cfg, log', i, c)
    <2>1. i = index[Leader]
      BY DEF i
    <2> QED BY <1>1, <1>2, <1>4, <1>5, <2>1, ProposeStep
  <1>7. m \in OkMsgs(cfg, log')
    BY <1>1, <1>5, <1>6, MsgOk
  <1> HIDE DEF m
  <1>8. NetOk(cfg, log', chan', jobs')
    BY <1>2, <1>6, <1>7, NetKept, SendOk
  <1> QED BY <1>2, <1>6, <1>8, HandlerDone

LEMMA SHeld ==
  ASSUME Core, cfg.protocol = "sbft", NEW r \in Good(cfg), NEW i \in Nat, NEW c \in Commands,
         Proposed(cfg, log, i, c), ~differs(r, i, "hash", c)
  PROVE  HeldAs(cfg, log, r, i, c, S!instWith(r, i, c))
  <1> DEFINE fresh == S!makeInstance(S!None, Nil, c, FALSE)
             e == S!instWith(r, i, c)
  <1>1. /\ cfg \in Scenarios /\ cfg.protocol \in Hashed /\ log \in [Replicas -> Logs(cfg.protocol)]
        /\ EntriesOk(cfg, log)
    BY CoreFacts DEF Core, LogsOk, Hashed
  <1>2. i \in DOMAIN log[r] => log[r][i].hash \in {Nil, c}
    BY DEF differs
  <1>3. /\ fresh \in Instances(cfg.protocol) /\ fresh.hash = c /\ fresh.command = Nil
        /\ ~votedIn(cfg.protocol, fresh) /\ ~doneIn(cfg.protocol, fresh)
    BY DEF S!makeInstance, S!None, Instances, Value, votedIn, doneIn
  <1>4. e = IF i \in DOMAIN log[r] THEN [log[r][i] EXCEPT !.hash = c] ELSE fresh
    BY DEF S!instWith
  <1> HIDE DEF e, fresh
  <1>5. HeldAs(cfg, log, r, i, c, e)
    BY <1>1, <1>2, <1>3, <1>4, HeldOk
  <1> QED BY <1>5 DEF e

LEMMA SPrepare ==
  ASSUME ClusterInv, cfg.protocol = "sbft", NEW r \in cfg.members, S!onPrepare(r)
  PROVE  ClusterInv'
  <1>1. /\ Core /\ LeaderFine(cfg) /\ cfg \in Scenarios /\ r \in Replicas /\ NetOk(cfg, log, chan, jobs)
        /\ cfg.protocol \in Hashed
    BY SVotes, CoreFacts, ScenarioFacts DEF ClusterInv, Hashed
  <1>2. PICK m \in received(r, "Prepare") :
           \/ S!Panic(r)
           \/ LET inst == [S!instWith(r, m.index, m.val) EXCEPT !.command = m.val]
              IN  /\ ~differs(r, m.index, "hash", m.val)
                  /\ IF S!IsCommitted(inst) THEN S!exec(r, put(log[r], m.index, inst))
                     ELSE /\ log' = [log EXCEPT ![r] = put(@, m.index, S!makeInstance(1, m.val, m.val, TRUE))]
                          /\ UNCHANGED <<execIdx, executed>>
                  /\ chan' = popped(r)
                  /\ UNCHANGED <<cfg, requested, index, jobs, results, answered>>
    BY SBridge DEF S!onPrepare, S!Prepared
  <1> DEFINE i == m.index
             c == m.val
             d == S!instWith(r, i, c)
             inst == [d EXCEPT !.command = c]
             new == S!makeInstance(1, c, c, TRUE)
  <1>3. r \in Alive /\ m \in OkMsgs(cfg, log)
    BY <1>1, <1>2, ReceivedOk
  <1>4. i \in Nat /\ c \in Commands /\ Proposed(cfg, log, i, c) /\ r \in Good(cfg)
    BY <1>1, <1>3, MsgFacts, CoreFacts DEF Alive
  <1>5. CASE S!Panic(r)
    BY <1>1, <1>5, SEnds
  <1>6. ASSUME ~S!Panic(r)
        PROVE  /\ ~differs(r, i, "hash", c) /\ chan' = popped(r)
               /\ UNCHANGED <<cfg, requested, index, jobs, results, answered>>
               /\ \/ S!IsCommitted(inst) /\ S!exec(r, put(log[r], i, inst))
                  \/ /\ log' = [log EXCEPT ![r] = put(log[r], i, new)]
                     /\ UNCHANGED <<execIdx, executed>>
    BY <1>2, <1>6
  <1>7. ASSUME ~S!Panic(r) PROVE Core' /\ Keeps(cfg, log, log')
    <2>1. Frame
      BY <1>1, <1>6, <1>7, SameFrame
    <2>2. HeldAs(cfg, log, r, i, c, d)
      <3> HIDE DEF i, c
      <3> QED BY <1>1, <1>4, <1>6, <1>7, SHeld
    <2>3. d \in [status : Nat, command : Value, hash : Value, signed : BOOLEAN] /\ d.hash = c
      BY <2>2 DEF HeldAs, Instances
    <2>4. CASE S!IsCommitted(inst) /\ S!exec(r, put(log[r], i, inst))
      <3> HIDE DEF d, c, i
      <3>1. /\ inst \in [status : Nat, command : Value, hash : Value, signed : BOOLEAN]
            /\ inst.hash = c /\ inst.command = c /\ inst.signed = d.signed /\ inst.status = d.status
        BY <1>4, <2>3 DEF Value
      <3>2. /\ inst \in Instances(cfg.protocol) /\ (votedIn(cfg.protocol, d) => votedIn(cfg.protocol, inst))
            /\ doneIn(cfg.protocol, inst) => doneIn(cfg.protocol, d)
        BY <3>1 DEF Instances, votedIn, doneIn
      <3> HIDE DEF inst
      <3>3. LogStep(cfg, log, r, put(log[r], i, inst))
        BY <1>1, <1>4, <2>2, <3>1, <3>2, HeldBinds
      <3> QED BY <1>1, <2>1, <2>4, <3>3, SExec
    <2>5. CASE log' = [log EXCEPT ![r] = put(log[r], i, new)] /\ UNCHANGED <<execIdx, executed>>
      <3> HIDE DEF d, c, i
      <3>1. /\ new \in Instances(cfg.protocol) /\ new.hash = c /\ new.command = c
            /\ votedIn(cfg.protocol, new) /\ ~doneIn(cfg.protocol, new)
        BY <1>4 DEF S!makeInstance, Instances, Value, votedIn, doneIn
      <3> HIDE DEF new
      <3>2. LogStep(cfg, log, r, put(log[r], i, new))
        BY <1>1, <1>4, <2>2, <3>1, HeldBinds
      <3> QED BY <1>1, <2>1, <2>5, <3>2, StoreStep
    <2> QED BY <1>6, <1>7, <2>4, <2>5
  <1>8. ASSUME ~S!Panic(r) PROVE NetOk(cfg, log', chan', jobs')
    <2>1. NetOk(cfg, log', chan, jobs)
      BY <1>7, <1>8, NetKept
    <2>2. NetOk(cfg, log', popped(r), jobs)
      BY <1>1, <1>2, <2>1, ReceivedOk
    <2> QED BY <1>6, <1>8, <2>2
  <1>9. ASSUME ~S!Panic(r) PROVE cfg' = cfg /\ cfg.protocol # "hybster"
    BY <1>6, <1>9
  <1> QED BY <1>5, <1>7, <1>8, <1>9, HandlerDone

LEMMA SSignShare ==
  ASSUME ClusterInv, cfg.protocol = "sbft", NEW i \in Nat, S!onSignShare(i)
  PROVE  ClusterInv'
  <1>1. /\ Core /\ LeaderFine(cfg) /\ cfg \in Scenarios /\ Leader \in Replicas
        /\ NetOk(cfg, log, chan, jobs) /\ cfg.protocol \in Hashed /\ EntriesOk(cfg, log)
        /\ log \in [Replicas -> Logs(cfg.protocol)]
    BY SVotes, CoreFacts DEF ClusterInv, Hashed, Core, LogsOk
  <1>2. PICK c \in Commands :
           /\ Leader \in Alive /\ i \in DOMAIN log[Leader] /\ S!Majority(S!signers(i, c))
           /\ \/ S!Panic(Leader)
              \/ /\ ~differs(Leader, i, "hash", c)
                 /\ log' = [log EXCEPT ![Leader][i] = [S!instWith(Leader, i, c) EXCEPT !.status = 2]]
                 /\ jobs' = withJob(Leader, [type |-> "Aggregate", index |-> i, hash |-> c])
                 /\ UNCHANGED <<cfg, requested, index, chan, execIdx, executed, results, answered>>
    BY SBridge DEF S!onSignShare, S!sharedBy, S!SignShared
  <1> DEFINE d == S!instWith(Leader, i, c)
             e == [d EXCEPT !.status = 2]
             j == [type |-> "Aggregate", index |-> i, hash |-> c]
  <1>3. Cert(cfg, log, i, c)
    <2>1. S!signers(i, c) \subseteq Voters(cfg, log, i, c) \cup Liars(cfg)
      BY <1>1, SVotes
    <2>2. Cardinality(S!signers(i, c)) >= Need(cfg)
      BY <1>1, <1>2, SVotes
    <2> QED BY <1>1, <2>1, <2>2, CertOf
  <1>4. Leader \in Good(cfg) /\ Proposed(cfg, log, i, c)
    BY <1>1, <1>2, <1>3, CertIsProposed, CoreFacts DEF Alive
  <1>5. CASE S!Panic(Leader)
    BY <1>1, <1>5, SEnds
  <1>6. CASE /\ ~differs(Leader, i, "hash", c) /\ log' = [log EXCEPT ![Leader][i] = e]
             /\ jobs' = withJob(Leader, j)
             /\ UNCHANGED <<cfg, requested, index, chan, execIdx, executed, results, answered>>
    <2>1. Frame
      BY <1>1, <1>6, SameFrame
    <2>2. HeldAs(cfg, log, Leader, i, c, d)
      BY <1>1, <1>4, <1>6, SHeld
    <2>3. d \in [status : Nat, command : Value, hash : Value, signed : BOOLEAN] /\ d.hash = c
          /\ d.command \in {Nil, c}
      BY <2>2 DEF HeldAs, Instances
    <2> HIDE DEF d
    <2>4. /\ e \in [status : Nat, command : Value, hash : Value, signed : BOOLEAN]
          /\ e.hash = c /\ e.command = d.command /\ e.signed = d.signed /\ e.status = 2
      BY <2>3
    <2>5. /\ e \in Instances(cfg.protocol) /\ (votedIn(cfg.protocol, d) => votedIn(cfg.protocol, e))
          /\ ~doneIn(cfg.protocol, e)
      BY <2>4 DEF Instances, votedIn, doneIn
    <2> HIDE DEF e
    <2>6. LogStep(cfg, log, Leader, put(log[Leader], i, e))
      BY <1>1, <1>4, <2>2, <2>3, <2>4, <2>5, HeldBinds
    <2>7. log' = [log EXCEPT ![Leader] = put(log[Leader], i, e)]
      <3>1. Over(log[Leader], i, e) = put(log[Leader], i, e)
        BY <1>1, <1>2, PutOver
      <3> QED BY <1>1, <1>6, <3>1 DEF Over
    <2>8. Core' /\ Keeps(cfg, log, log')
      BY <1>1, <1>6, <2>1, <2>6, <2>7, StoreStep
    <2>9. NetOk(cfg, log', chan, jobs)
      BY <2>8, NetKept
    <2>10. j \in OkJobs(cfg, log', Leader)
      <3>1. i \in DOMAIN log'[Leader] /\ log'[Leader][i] = e
        BY <1>1, <2>7 DEF put
      <3>2. hashOf(cfg.protocol, e) = c /\ c # Nil
        BY <1>1, <2>4, CoreFacts DEF hashOf
      <3>3. Cert(cfg, log', i, c)
        BY <1>1, <1>3, <2>8, <3>2, CertMore DEF Keeps
      <3> QED BY <3>1, <3>2, <3>3, AggregateOk
    <2> HIDE DEF j
    <2>11. NetOk(cfg, log', chan', jobs')
      BY <1>1, <1>6, <2>9, <2>10, WithJobOk
    <2> QED BY <1>1, <1>6, <2>8, <2>11, HandlerDone
  <1> QED BY <1>2, <1>5, <1>6

\* The instance whose callback comes back is committed, and exec runs.
LEMMA SCommits ==
  ASSUME ClusterInv, Frame, cfg.protocol = "sbft", NEW r \in Good(cfg), NEW i \in DOMAIN log[r],
         log[r][i].hash # Nil, Cert(cfg, log, i, log[r][i].hash),
         S!exec(r, [log[r] EXCEPT ![i].status = S!Committed])
  PROVE  Core' /\ Keeps(cfg, log, log')
  <1> DEFINE d == log[r][i]
             c == d.hash
             e == [d EXCEPT !.status = 3]
  <1>1. /\ Core /\ LeaderFine(cfg) /\ cfg \in Scenarios /\ r \in Replicas /\ cfg.protocol \in Hashed
        /\ EntriesOk(cfg, log) /\ log \in [Replicas -> Logs(cfg.protocol)] /\ log[r] \in Logs(cfg.protocol)
    BY SVotes, CoreFacts, ScenarioFacts DEF ClusterInv, Hashed, Core, LogsOk
  <1>2. d \in [status : Nat, command : Value, hash : Value, signed : BOOLEAN] /\ i \in Nat
    BY <1>1, LogType DEF Instances
  <1>3. c \in Commands /\ c # Nil /\ Cert(cfg, log, i, c)
    BY <1>2 DEF Value
  <1>4. Proposed(cfg, log, i, c)
    <2> HIDE DEF c
    <2> QED BY <1>1, <1>3, CertIsProposed
  <1>5. d.command \in {Nil, c}
    <2>1. hashOf(cfg.protocol, log[r][i]) \in {Nil, c} /\ cfg.protocol # "mirbft"
      BY DEF hashOf
    <2> HIDE DEF c
    <2> QED BY <1>1, <1>3, <1>4, <2>1, HeldAgrees
  <1>6. S!exec(r, put(log[r], i, e))
    <2>1. Over(log[r], i, e) = [log[r] EXCEPT ![i].status = S!Committed]
      BY DEF Over, S!Committed
    <2>2. Over(log[r], i, e) = put(log[r], i, e)
      <3> HIDE DEF e
      <3> QED BY <1>1, PutOver
    <2> QED BY <2>1, <2>2
  <1>7. c = d.hash
    OBVIOUS
  <1> HIDE DEF c
  <1>8. /\ e \in [status : Nat, command : Value, hash : Value, signed : BOOLEAN]
        /\ e.hash = c /\ e.command = d.command /\ e.signed = d.signed
    <2> HIDE DEF d
    <2> QED BY <1>2, <1>7
  <1>9. Binds(cfg, log, r, i, c, e)
    <2> HIDE DEF e
    <2> QED BY <1>2, <1>3, <1>4, <1>5, <1>7, <1>8 DEF Binds, Instances, hashOf, votedIn
  <1>10. LogStep(cfg, log, r, put(log[r], i, e))
    <2> HIDE DEF e
    <2>1. Cert(cfg, [log EXCEPT ![r] = put(log[r], i, e)], i, c)
      BY <1>1, <1>3, <1>9, BindCert
    <2> QED BY <1>1, <1>9, <2>1, BindStep
  <1> HIDE DEF e
  <1> QED BY <1>1, <1>6, <1>10, SExec

LEMMA SAggregated ==
  ASSUME ClusterInv, cfg.protocol = "sbft", S!Aggregated
  PROVE  ClusterInv'
  <1>1. /\ Core /\ LeaderFine(cfg) /\ cfg \in Scenarios /\ Leader \in Replicas
        /\ NetOk(cfg, log, chan, jobs) /\ EntriesOk(cfg, log)
    BY SVotes, CoreFacts DEF ClusterInv, Core, LogsOk
  <1>2. PICK j \in pending(Leader, "Aggregate") :
           /\ jobs' = withoutJob(Leader, j)
           /\ chan' = sendTo(cfg.members \ {Leader}, [type |-> "Commit", index |-> j.index, val |-> j.hash])
           /\ S!exec(Leader, [log[Leader] EXCEPT ![j.index].status = S!Committed])
           /\ UNCHANGED <<cfg, requested, index, results, answered>>
    BY SBridge DEF S!Aggregated
  <1> DEFINE i == j.index
             c == j.hash
             m == [type |-> "Commit", index |-> i, val |-> c]
  <1>3. Leader \in Alive /\ j \in OkJobs(cfg, log, Leader) /\ j.type = "Aggregate"
    BY <1>1, <1>2, PendingOk
  <1>4. /\ i \in Nat /\ i \in DOMAIN log[Leader] /\ c \in Commands /\ hashOf(cfg.protocol, log[Leader][i]) = c
        /\ Cert(cfg, log, i, c)
    BY <1>3, JobFacts
  <1>5. log[Leader][i].hash = c /\ c # Nil /\ Leader \in Good(cfg)
    BY <1>1, <1>3, <1>4, CoreFacts DEF hashOf, Alive
  <1>6. Frame
    BY <1>1, <1>2, SameFrame
  <1>7. Core' /\ Keeps(cfg, log, log')
    <2> HIDE DEF i, c
    <2>1. S!exec(Leader, [log[Leader] EXCEPT ![i].status = S!Committed])
      BY <1>2 DEF i
    <2> QED BY <1>4, <1>5, <1>6, <2>1, SCommits
  <1>8. m \in OkMsgs(cfg, log')
    <2> HIDE DEF i, c
    <2>1. Proposed(cfg, log, i, c)
      BY <1>1, <1>4, CertIsProposed
    <2>2. Proposed(cfg, log', i, c) /\ Cert(cfg, log', i, c)
      BY <1>1, <1>4, <1>5, <1>7, <2>1, CertMore DEF Keeps
    <2> QED BY <1>1, <1>4, <2>2, MsgOk
  <1> HIDE DEF m
  <1>9. NetOk(cfg, log', chan, jobs)
    BY <1>7, NetKept
  <1>10. NetOk(cfg, log', chan, jobs')
    BY <1>1, <1>2, <1>9, WithoutJobOk
  <1>11. NetOk(cfg, log', chan', jobs')
    BY <1>2, <1>8, <1>10, SendOk DEF m
  <1> QED BY <1>2, <1>7, <1>11, HandlerDone

LEMMA SVerified ==
  ASSUME ClusterInv, cfg.protocol = "sbft", NEW r \in cfg.members, S!Verified(r)
  PROVE  ClusterInv'
  <1>1. Core /\ cfg \in Scenarios /\ r \in Replicas /\ NetOk(cfg, log, chan, jobs)
    BY CoreFacts, ScenarioFacts DEF ClusterInv
  <1>2. PICK j \in pending(r, "Verify") :
           /\ jobs' = withoutJob(r, j)
           /\ S!exec(r, [log[r] EXCEPT ![j.index].status = S!Committed])
           /\ UNCHANGED <<cfg, requested, index, chan, results, answered>>
    BY SBridge DEF S!Verified
  <1> DEFINE i == j.index
  <1>3. r \in Alive /\ j \in OkJobs(cfg, log, r) /\ j.type = "Verify"
    BY <1>1, <1>2, PendingOk
  <1>4. /\ i \in DOMAIN log[r] /\ log[r][i].hash # Nil /\ Cert(cfg, log, i, log[r][i].hash)
        /\ r \in Good(cfg)
    <2>1. hashOf(cfg.protocol, log[r][i]) = log[r][i].hash
      BY DEF hashOf
    <2>2. i \in DOMAIN log[r] /\ log[r][i].hash # Nil /\ Cert(cfg, log, i, log[r][i].hash)
      BY <1>3, <2>1, JobFacts
    <2> QED BY <1>1, <1>3, <2>2, CoreFacts DEF Alive
  <1>5. Frame
    BY <1>1, <1>2, SameFrame
  <1>6. Core' /\ Keeps(cfg, log, log')
    <2> HIDE DEF i
    <2>1. S!exec(r, [log[r] EXCEPT ![i].status = S!Committed])
      BY <1>2 DEF i
    <2> QED BY <1>4, <1>5, <2>1, SCommits
  <1>7. NetOk(cfg, log', chan, jobs)
    BY <1>6, NetKept
  <1>8. NetOk(cfg, log', chan', jobs')
    BY <1>1, <1>2, <1>7, WithoutJobOk
  <1> QED BY <1>2, <1>6, <1>8, HandlerDone

LEMMA SCommit ==
  ASSUME ClusterInv, cfg.protocol = "sbft", NEW r \in cfg.members, S!onCommit(r)
  PROVE  ClusterInv'
  <1>1. /\ Core /\ LeaderFine(cfg) /\ cfg \in Scenarios /\ r \in Replicas /\ NetOk(cfg, log, chan, jobs)
        /\ cfg.protocol \in Hashed /\ log \in [Replicas -> Logs(cfg.protocol)]
    BY SVotes, CoreFacts, ScenarioFacts DEF ClusterInv, Hashed
  <1>2. PICK m \in received(r, "Commit") :
           \/ S!Panic(r)
           \/ LET d == S!instWith(r, m.index, m.val)
                  L == put(log[r], m.index, d)
              IN  /\ ~differs(r, m.index, "hash", m.val)
                  /\ \/ S!exec(r, L) /\ UNCHANGED jobs
                     \/ /\ log' = [log EXCEPT ![r] = L]
                        /\ jobs' = withJob(r, [type |-> "Verify", index |-> m.index])
                        /\ UNCHANGED <<execIdx, executed>>
                  /\ chan' = popped(r)
                  /\ UNCHANGED <<cfg, requested, index, results, answered>>
    BY SBridge DEF S!onCommit
  <1> DEFINE i == m.index
             c == m.val
             d == S!instWith(r, i, c)
             L == put(log[r], i, d)
             j == [type |-> "Verify", index |-> i]
  <1>3. r \in Alive /\ m \in OkMsgs(cfg, log) /\ m.type = "Commit"
    BY <1>1, <1>2, ReceivedOk
  <1>4. i \in Nat /\ c \in Commands /\ Proposed(cfg, log, i, c) /\ Cert(cfg, log, i, c)
    BY <1>3, MsgFacts
  <1>5. r \in Good(cfg) /\ c # Nil
    BY <1>1, <1>3, <1>4, CoreFacts DEF Alive
  <1>6. CASE S!Panic(r)
    BY <1>1, <1>6, SEnds
  <1>7. CASE /\ ~differs(r, i, "hash", c) /\ chan' = popped(r)
             /\ UNCHANGED <<cfg, requested, index, results, answered>>
             /\ \/ S!exec(r, L) /\ UNCHANGED jobs
                \/ /\ log' = [log EXCEPT ![r] = L]
                   /\ jobs' = withJob(r, j) /\ UNCHANGED <<execIdx, executed>>
    <2> HIDE DEF i, c
    <2>1. Frame
      BY <1>1, <1>7, SameFrame
    <2>2. HeldAs(cfg, log, r, i, c, d)
      BY <1>1, <1>4, <1>5, <1>7, SHeld
    <2>3. d \in Instances(cfg.protocol) /\ d.hash = c /\ d.command \in {Nil, c}
      BY <2>2 DEF HeldAs
    <2> HIDE DEF d
    <2>4. LogStep(cfg, log, r, L)
      BY <1>1, <1>4, <1>5, <2>2, <2>3, HeldBinds
    <2>5. Core' /\ Keeps(cfg, log, log')
      <3> HIDE DEF L
      <3> QED BY <1>1, <1>7, <2>1, <2>4, SExec, StoreStep
    <2>6. NetOk(cfg, log', chan, jobs)
      BY <2>5, NetKept
    <2>7. NetOk(cfg, log', chan', jobs)
      BY <1>1, <1>2, <1>7, <2>6, ReceivedOk
    <2>8. ASSUME log' = [log EXCEPT ![r] = L] PROVE j \in OkJobs(cfg, log', r)
      <3>1. i \in DOMAIN log'[r] /\ log'[r][i] = d
        BY <1>1, <2>8 DEF put
      <3>2. hashOf(cfg.protocol, d) = c
        BY <2>3 DEF hashOf
      <3>3. Cert(cfg, log', i, c)
        BY <1>1, <1>4, <1>5, <2>5, CertMore DEF Keeps
      <3> QED BY <1>4, <1>5, <3>1, <3>2, <3>3, VerifyOk
    <2> HIDE DEF j, L
    <2>9. NetOk(cfg, log', chan', jobs')
      BY <1>1, <1>7, <2>7, <2>8, WithJobOk
    <2> QED BY <1>7, <2>5, <2>9, HandlerDone
  <1> QED BY <1>2, <1>6, <1>7

LEMMA SResult ==
  ASSUME ClusterInv, cfg.protocol = "sbft", NEW r \in cfg.members, NEW c \in Commands, S!stepResult(r, c)
  PROVE  ClusterInv'
  <1>1. /\ resultSent(r, c) /\ results' = [results EXCEPT ![c] = @ \cup {r}]
        /\ answered' = [answered EXCEPT ![c] = IF Cardinality(results[c]) + 1 > cfg.f THEN @ + 1 ELSE @]
        /\ UNCHANGED <<cfg, requested, index, log, chan, jobs, execIdx, executed>>
    BY SBridge DEF S!stepResult
  <1>2. Core /\ NetOk(cfg, log, chan, jobs) /\ answered \in [Commands -> Nat]
    BY DEF ClusterInv, Core, AnswersOk
  <1>3. answered[c] + 1 \in Nat
    BY <1>2
  <1>4. Core'
    BY <1>1, <1>2, <1>3, ResultStep
  <1> QED BY <1>1, <1>2, <1>4, HandlerDone

\* A faulty leader may propose anything, and commit what has a quorum.
LEMMA SFaulty ==
  ASSUME ClusterInv, cfg.protocol = "sbft", NEW r, NEW i \in Nat, NEW c \in Commands,
         S!FaultyPrepare(r, i, c) \/ S!FaultyCommit(r, i, c)
  PROVE  ClusterInv'
  <1>1. /\ Core /\ LeaderFine(cfg) /\ cfg \in Scenarios /\ NetOk(cfg, log, chan, jobs)
        /\ requested \subseteq Commands /\ index \in [Replicas -> Nat] /\ Leader \in Replicas
    BY SVotes, CoreFacts DEF ClusterInv
  <1>2. PICK type \in {"Prepare", "Commit"} :
           /\ Leader \in cfg.faulty /\ requested' \in {requested, requested \cup {c}}
           /\ type = "Commit" => S!Majority(S!signers(i, c))
           /\ chan' = sendTo({r}, [type |-> type, index |-> i, val |-> c])
           /\ UNCHANGED <<cfg, index, log, jobs, execIdx, executed, results, answered>>
    BY SBridge DEF S!FaultyPrepare, S!FaultyCommit
  <1>3. Frame
    BY <1>1, <1>2 DEF Frame
  <1>4. Core'
    BY <1>1, <1>2, <1>3, StillStep
  <1>5. Proposed(cfg, log, i, c)
    BY <1>2 DEF Proposed, Proposer, Good
  <1>6. type = "Commit" => Cert(cfg, log, i, c)
    BY <1>1, <1>2, SVotes DEF Cert
  <1> DEFINE m == [type |-> type, index |-> i, val |-> c]
  <1>7. m \in OkMsgs(cfg, log)
    BY <1>1, <1>2, <1>5, <1>6, MsgOk
  <1> HIDE DEF m
  <1>8. NetOk(cfg, log', chan', jobs')
    BY <1>1, <1>2, <1>7, SendOk DEF m
  <1> QED BY <1>2, <1>4, <1>8, HandlerDone

LEMMA SNext ==
  ASSUME ClusterInv, cfg.protocol = "sbft", S!Next
  PROVE  ClusterInv'
  <1>1. cfg.members \subseteq Replicas /\ 0 .. MaxIndex - 1 \subseteq Nat
    BY CoreFacts, ScenarioFacts DEF ClusterInv
  <1>2. ASSUME S!FaultyVote PROVE ClusterInv'
    BY <1>2, SEnds, ClusterAssumption DEF S!FaultyVote
  <1> QED BY <1>1, <1>2, SRequest, SResult, SPrepare, SCommit, SVerified, SEnds, SSignShare, SAggregated, SFaulty
          DEF S!Next

-----------------------------------------------------------------------------
(* Linear Hybster *)

LEMMA LHBridge ==
  /\ LH!Alive = Alive /\ LH!Correct = Correct
  /\ \A V : LH!Cardinality(V) = Cardinality(V)
  /\ \A to, m : LH!sendTo(to, m) = sendTo(to, m)
  /\ \A r, type : LH!received(r, type) = received(r, type)
  /\ \A r : LH!popped(r) = popped(r)
  /\ \A r, j : LH!withJob(r, j) = withJob(r, j)
  /\ \A r, j : LH!withoutJob(r, j) = withoutJob(r, j)
  /\ \A r, type : LH!pending(r, type) = pending(r, type)
  /\ \A K, i, e : LH!put(K, i, e) = put(K, i, e)
  /\ \A i, P : LH!loopEnd(i, P) = loopEnd(i, P)
  /\ \A r, i, field, val : LH!differs(r, i, field, val) <=> differs(r, i, field, val)
  /\ \A c : LH!newCommand(c) <=> newCommand(c)
  /\ \A r, c : LH!resultSent(r, c) => resultSent(r, c)
  <1>1. LH!Alive = Alive /\ LH!Correct = Correct
    BY DEF LH!Alive, LH!Correct, Alive, Correct
  <1>2. \A V : LH!Cardinality(V) = Cardinality(V)
    BY Zenon DEF LH!Cardinality, Cardinality
  <1>3. /\ \A to, m : LH!sendTo(to, m) = sendTo(to, m)
        /\ \A r, type : LH!received(r, type) = received(r, type)
        /\ \A r : LH!popped(r) = popped(r)
    BY <1>1 DEF LH!sendTo, sendTo, LH!received, received, LH!popped, popped
  <1>4. /\ \A r, j : LH!withJob(r, j) = withJob(r, j)
        /\ \A r, j : LH!withoutJob(r, j) = withoutJob(r, j)
        /\ \A r, type : LH!pending(r, type) = pending(r, type)
    BY <1>1 DEF LH!withJob, withJob, LH!withoutJob, withoutJob, LH!pending, pending, LH!withOne, withOne,
                LH!withoutOne, withoutOne
  <1>5. \A K, i, e : LH!put(K, i, e) = put(K, i, e)
    BY DEF LH!put, put
  <1>6. \A i, P : LH!loopEnd(i, P) = loopEnd(i, P)
    BY Zenon DEF LH!loopEnd, loopEnd, LH!Min, Min
  <1>7. \A r, i, field, val : LH!differs(r, i, field, val) <=> differs(r, i, field, val)
    BY DEF LH!differs, differs
  <1>8. \A c : LH!newCommand(c) <=> newCommand(c)
    BY <1>2 DEF LH!newCommand, newCommand
  <1>9. \A r, c : LH!resultSent(r, c) => resultSent(r, c)
    BY <1>1 DEF LH!resultSent, resultSent, LH!Range, Range
  <1> QED BY <1>1, <1>2, <1>3, <1>4, <1>5, <1>6, <1>7, <1>8, <1>9

LEMMA LHEnds ==
  ASSUME ClusterInv, NEW r \in Replicas, LH!Panic(r) \/ LH!Crash(r)
  PROVE  ClusterInv'
  <1>1. LH!stop(r)
    BY DEF LH!Panic, LH!Crash
  <1>2. stop(r)
    BY <1>1 DEF LH!stop, stop, LH!noJobs, noJobs
  <1> QED BY <1>2, StopStep

LEMMA LHExecutes ==
  ASSUME NEW e \in Instances("linhybster"), e.status = 3, e.command # Nil
  PROVE  LET e2 == [e EXCEPT !.command = Nil, !.status = 5]
         IN  /\ doneIn("linhybster", e) /\ e.command \in Commands
             /\ e2 \in Instances("linhybster") /\ Executes("linhybster", e, e2)
  <1> DEFINE e2 == [e EXCEPT !.command = Nil, !.status = 5]
  <1>1. e \in [status : Nat, command : Value, hash : Value, signed : BOOLEAN]
    BY DEF Instances
  <1>2. /\ e2 \in [status : Nat, command : Value, hash : Value, signed : BOOLEAN]
        /\ e2.command = Nil /\ e2.hash = e.hash /\ e2.signed = e.signed
    BY <1>1 DEF Value
  <1>3. e.command \in Commands
    BY <1>1 DEF Value
  <1> HIDE DEF e2
  <1>4. doneIn("linhybster", e)
    BY DEF doneIn
  <1>5. Executes("linhybster", e, e2)
    BY <1>2, <1>4 DEF Executes, hashOf, votedIn
  <1>6. e2 \in Instances("linhybster")
    BY <1>2 DEF Instances
  <1> QED BY <1>3, <1>4, <1>5, <1>6 DEF e2

LEMMA LHExec ==
  ASSUME Core, Frame, cfg.protocol = "linhybster", NEW r, NEW L, LogStep(cfg, log, r, L), LeaderFine(cfg),
         LH!exec(r, L)
  PROVE  Core' /\ Keeps(cfg, log, log')
  <1> DEFINE P == {i \in DOMAIN L : LH!IsCommitted(L[i]) /\ L[i].command # Nil}
             E == [i \in DOMAIN L |-> [L[i] EXCEPT !.command = Nil, !.status = 5]]
             to == loopEnd(execIdx[r], P)
  <1>1. /\ log' = [log EXCEPT ![r] = Passed(L, E, execIdx[r], to)]
        /\ execIdx' = [execIdx EXCEPT ![r] = to] /\ to = loopEnd(execIdx[r], P)
        /\ executed' = [executed EXCEPT ![r] = @ \o CommandsOf(L, execIdx[r], to)]
    BY LHBridge DEF LH!exec, LH!Executed, Passed, CommandsOf
  <1>2. Passes(cfg, L, P, E)
    <2> SUFFICES ASSUME NEW i \in P
                 PROVE  /\ doneIn("linhybster", L[i]) /\ L[i].command \in Commands
                        /\ E[i] \in Instances("linhybster") /\ Executes("linhybster", L[i], E[i])
      BY DEF Passes
    <2>1. L[i] \in Instances("linhybster") /\ L[i].status = 3 /\ L[i].command # Nil
      BY LogType DEF LogStep, LH!IsCommitted, LH!Committed
    <2>2. E[i] = [L[i] EXCEPT !.command = Nil, !.status = 5]
      OBVIOUS
    <2> HIDE DEF P, E
    <2> QED BY <2>1, <2>2, LHExecutes
  <1> HIDE DEF P, E, to
  <1> QED BY <1>1, <1>2, ExecIs

\* The votes that LH counts.
LEMMA LHVotes ==
  ASSUME Core, cfg.protocol = "linhybster"
  PROVE  /\ \A i, c : LH!signers(i, c) = Voters(cfg, log, i, c) \cup Liars(cfg)
         /\ \A V : LH!Majority(V) <=> Cardinality(V) >= Need(cfg)
  <1>1. LH!Correct = Good(cfg)
    BY LHBridge, CoreFacts
  <1>2. \A i, c : LH!signers(i, c) = Voters(cfg, log, i, c) \cup Liars(cfg)
    BY <1>1 DEF LH!signers, Voters, Liars, votedIn, hashOf
  <1>3. \A V : LH!Majority(V) <=> Cardinality(V) >= Need(cfg)
    BY LHBridge DEF LH!Majority, LH!threshold, Need
  <1> QED BY <1>2, <1>3

LEMMA LHRequest ==
  ASSUME ClusterInv, cfg.protocol = "linhybster", NEW c \in Commands, LH!onRequest(c)
  PROVE  ClusterInv'
  <1> DEFINE e == LH!makeInstance(LH!Prepared, c, Nil, FALSE)
             i == index[Leader]
             m == [type |-> "Prepare", index |-> i, val |-> c]
  <1>1. Core /\ cfg \in Scenarios
    BY CoreFacts DEF ClusterInv
  <1>2. /\ Leader \in Alive /\ c \in Commands \ requested /\ requested' = requested \cup {c}
        /\ index' = [index EXCEPT ![Leader] = @ + 1] /\ log' = [log EXCEPT ![Leader] = put(@, i, e)]
        /\ chan' = sendTo(cfg.members, m)
        /\ UNCHANGED <<cfg, jobs, execIdx, executed, results, answered>>
    BY LHBridge DEF LH!onRequest, newCommand
  <1>3. e \in Instances(cfg.protocol) /\ e.command = c /\ hashOf(cfg.protocol, e) = Nil /\ ~doneIn(cfg.protocol, e)
    BY DEF LH!makeInstance, LH!Prepared, Instances, Value, hashOf, doneIn
  <1> HIDE DEF e
  <1>4. Proposes(cfg, log, Leader, i, e, c) /\ LeaderFine(cfg)
    BY <1>1, <1>2, <1>3, LeaderProposes
  <1>5. index' \in [Replicas -> Nat] /\ i \in Nat /\ index'[Leader] = i + 1
    BY <1>1, <1>2, CoreFacts
  <1> HIDE DEF i
  <1>6. Core' /\ Keeps(cfg, log, log') /\ Proposed(cfg, log', i, c)
    <2>1. i = index[Leader]
      BY DEF i
    <2> QED BY <1>1, <1>2, <1>4, <1>5, <2>1, ProposeStep
  <1>7. m \in OkMsgs(cfg, log')
    BY <1>1, <1>4, <1>5, <1>6, MsgOk
  <1> HIDE DEF m
  <1>8. NetOk(cfg, log', chan', jobs')
    BY <1>2, <1>6, <1>7, NetKept, SendOk
  <1> QED BY <1>2, <1>6, <1>8, HandlerDone

LEMMA LHHeld ==
  ASSUME Core, cfg.protocol = "linhybster", NEW r \in Good(cfg), NEW i \in Nat, NEW c \in Commands,
         Proposed(cfg, log, i, c), ~differs(r, i, "hash", c)
  PROVE  HeldAs(cfg, log, r, i, c, LH!instWith(r, i, c))
  <1> DEFINE fresh == LH!makeInstance(LH!None, Nil, c, FALSE)
             e == LH!instWith(r, i, c)
  <1>1. /\ cfg \in Scenarios /\ cfg.protocol \in Hashed /\ log \in [Replicas -> Logs(cfg.protocol)]
        /\ EntriesOk(cfg, log)
    BY CoreFacts DEF Core, LogsOk, Hashed
  <1>2. i \in DOMAIN log[r] => log[r][i].hash \in {Nil, c}
    BY DEF differs
  <1>3. /\ fresh \in Instances(cfg.protocol) /\ fresh.hash = c /\ fresh.command = Nil
        /\ ~votedIn(cfg.protocol, fresh) /\ ~doneIn(cfg.protocol, fresh)
    BY DEF LH!makeInstance, LH!None, Instances, Value, votedIn, doneIn
  <1>4. e = IF i \in DOMAIN log[r] THEN [log[r][i] EXCEPT !.hash = c] ELSE fresh
    BY DEF LH!instWith
  <1> HIDE DEF e, fresh
  <1>5. HeldAs(cfg, log, r, i, c, e)
    BY <1>1, <1>2, <1>3, <1>4, HeldOk
  <1> QED BY <1>5 DEF e

LEMMA LHPrepare ==
  ASSUME ClusterInv, cfg.protocol = "linhybster", NEW r \in cfg.members, LH!onPrepare(r)
  PROVE  ClusterInv'
  <1>1. /\ Core /\ cfg \in Scenarios /\ r \in Replicas /\ NetOk(cfg, log, chan, jobs)
        /\ cfg.protocol \in Hashed
    BY CoreFacts, ScenarioFacts DEF ClusterInv, Hashed
  <1>2. PICK m \in received(r, "Prepare") :
           \/ LH!Panic(r)
           \/ /\ ~differs(r, m.index, "hash", m.val)
              /\ log' = [log EXCEPT ![r] = put(@, m.index, LH!makeInstance(1, m.val, m.val, TRUE))]
              /\ chan' = popped(r)
              /\ UNCHANGED <<cfg, requested, index, jobs, execIdx, executed, results, answered>>
    BY LHBridge DEF LH!onPrepare, LH!Prepared
  <1> DEFINE i == m.index
             c == m.val
             d == LH!instWith(r, i, c)
             new == LH!makeInstance(1, c, c, TRUE)
  <1>3. r \in Alive /\ m \in OkMsgs(cfg, log)
    BY <1>1, <1>2, ReceivedOk
  <1>4. i \in Nat /\ c \in Commands /\ Proposed(cfg, log, i, c) /\ r \in Good(cfg) /\ LeaderFine(cfg)
    BY <1>1, <1>3, MsgFacts, CoreFacts DEF Alive
  <1>5. CASE LH!Panic(r)
    BY <1>1, <1>5, LHEnds
  <1>6. CASE /\ ~differs(r, i, "hash", c) /\ log' = [log EXCEPT ![r] = put(log[r], i, new)]
             /\ chan' = popped(r)
             /\ UNCHANGED <<cfg, requested, index, jobs, execIdx, executed, results, answered>>
    <2>1. Frame
      BY <1>1, <1>6, SameFrame
    <2> HIDE DEF c, i
    <2>2. HeldAs(cfg, log, r, i, c, d)
      BY <1>1, <1>4, <1>6, LHHeld
    <2> HIDE DEF d
    <2>3. /\ new \in Instances(cfg.protocol) /\ new.hash = c /\ new.command = c
          /\ votedIn(cfg.protocol, new) /\ ~doneIn(cfg.protocol, new)
      BY <1>4 DEF LH!makeInstance, Instances, Value, votedIn, doneIn
    <2> HIDE DEF new
    <2>4. LogStep(cfg, log, r, put(log[r], i, new))
      BY <1>1, <1>4, <2>2, <2>3, HeldBinds
    <2>5. Core' /\ Keeps(cfg, log, log')
      BY <1>1, <1>4, <1>6, <2>1, <2>4, StoreStep
    <2>6. NetOk(cfg, log', chan, jobs)
      BY <2>5, NetKept
    <2>7. NetOk(cfg, log', chan', jobs')
      BY <1>1, <1>2, <1>6, <2>6, ReceivedOk
    <2> QED BY <1>6, <2>5, <2>7, HandlerDone
  <1> QED BY <1>2, <1>5, <1>6

LEMMA LHSignShare ==
  ASSUME ClusterInv, cfg.protocol = "linhybster", NEW i \in Nat, LH!onSignShare(i)
  PROVE  ClusterInv'
  <1>1. /\ Core /\ cfg \in Scenarios /\ Leader \in Replicas
        /\ NetOk(cfg, log, chan, jobs) /\ cfg.protocol \in Hashed /\ EntriesOk(cfg, log)
        /\ log \in [Replicas -> Logs(cfg.protocol)]
    BY CoreFacts DEF ClusterInv, Hashed, Core, LogsOk
  <1>2. PICK c \in Commands :
           /\ Leader \in Alive /\ i \in DOMAIN log[Leader] /\ LH!Majority(LH!signers(i, c))
           /\ \/ LH!Panic(Leader)
              \/ /\ ~differs(Leader, i, "hash", c)
                 /\ log' = [log EXCEPT ![Leader][i] = [LH!instWith(Leader, i, c) EXCEPT !.status = 2]]
                 /\ jobs' = withJob(Leader, [type |-> "Aggregate", index |-> i, hash |-> c])
                 /\ UNCHANGED <<cfg, requested, index, chan, execIdx, executed, results, answered>>
    BY LHBridge DEF LH!onSignShare, LH!sharedBy, LH!SignShared
  <1> DEFINE d == LH!instWith(Leader, i, c)
             e == [d EXCEPT !.status = 2]
             j == [type |-> "Aggregate", index |-> i, hash |-> c]
  <1>3. Cert(cfg, log, i, c)
    <2>1. LH!signers(i, c) \subseteq Voters(cfg, log, i, c) \cup Liars(cfg)
      BY <1>1, LHVotes
    <2>2. Cardinality(LH!signers(i, c)) >= Need(cfg)
      BY <1>1, <1>2, LHVotes
    <2> QED BY <1>1, <2>1, <2>2, CertOf
  <1>4. Leader \in Good(cfg) /\ Proposed(cfg, log, i, c) /\ LeaderFine(cfg)
    BY <1>1, <1>2, <1>3, CertIsProposed, CoreFacts DEF Alive, LeaderFine
  <1>5. CASE LH!Panic(Leader)
    BY <1>1, <1>5, LHEnds
  <1>6. CASE /\ ~differs(Leader, i, "hash", c) /\ log' = [log EXCEPT ![Leader][i] = e]
             /\ jobs' = withJob(Leader, j)
             /\ UNCHANGED <<cfg, requested, index, chan, execIdx, executed, results, answered>>
    <2>1. Frame
      BY <1>1, <1>6, SameFrame
    <2>2. HeldAs(cfg, log, Leader, i, c, d)
      BY <1>1, <1>4, <1>6, LHHeld
    <2>3. d \in [status : Nat, command : Value, hash : Value, signed : BOOLEAN] /\ d.hash = c
          /\ d.command \in {Nil, c}
      BY <2>2 DEF HeldAs, Instances
    <2> HIDE DEF d
    <2>4. /\ e \in [status : Nat, command : Value, hash : Value, signed : BOOLEAN]
          /\ e.hash = c /\ e.command = d.command /\ e.signed = d.signed /\ e.status = 2
      BY <2>3
    <2>5. /\ e \in Instances(cfg.protocol) /\ (votedIn(cfg.protocol, d) => votedIn(cfg.protocol, e))
          /\ ~doneIn(cfg.protocol, e)
      BY <2>4 DEF Instances, votedIn, doneIn
    <2> HIDE DEF e
    <2>6. LogStep(cfg, log, Leader, put(log[Leader], i, e))
      BY <1>1, <1>4, <2>2, <2>3, <2>4, <2>5, HeldBinds
    <2>7. log' = [log EXCEPT ![Leader] = put(log[Leader], i, e)]
      <3>1. Over(log[Leader], i, e) = put(log[Leader], i, e)
        BY <1>1, <1>2, PutOver
      <3> QED BY <1>1, <1>6, <3>1 DEF Over
    <2>8. Core' /\ Keeps(cfg, log, log')
      BY <1>1, <1>4, <1>6, <2>1, <2>6, <2>7, StoreStep
    <2>9. NetOk(cfg, log', chan, jobs)
      BY <2>8, NetKept
    <2>10. j \in OkJobs(cfg, log', Leader)
      <3>1. i \in DOMAIN log'[Leader] /\ log'[Leader][i] = e
        BY <1>1, <2>7 DEF put
      <3>2. hashOf(cfg.protocol, e) = c /\ c # Nil
        BY <1>1, <2>4, CoreFacts DEF hashOf
      <3>3. Cert(cfg, log', i, c)
        BY <1>1, <1>3, <2>8, <3>2, CertMore DEF Keeps
      <3> QED BY <3>1, <3>2, <3>3, AggregateOk
    <2> HIDE DEF j
    <2>11. NetOk(cfg, log', chan', jobs')
      BY <1>1, <1>6, <2>9, <2>10, WithJobOk
    <2> QED BY <1>1, <1>6, <2>8, <2>11, HandlerDone
  <1> QED BY <1>2, <1>5, <1>6

\* The instance whose callback comes back is committed, and exec runs.
LEMMA LHCommits ==
  ASSUME ClusterInv, Frame, cfg.protocol = "linhybster", NEW r \in Good(cfg), NEW i \in DOMAIN log[r],
         log[r][i].hash # Nil, Cert(cfg, log, i, log[r][i].hash),
         LH!exec(r, [log[r] EXCEPT ![i].status = LH!Committed])
  PROVE  Core' /\ Keeps(cfg, log, log')
  <1> DEFINE d == log[r][i]
             c == d.hash
             e == [d EXCEPT !.status = 3]
  <1>1. /\ Core /\ cfg \in Scenarios /\ r \in Replicas /\ cfg.protocol \in Hashed
        /\ EntriesOk(cfg, log) /\ log \in [Replicas -> Logs(cfg.protocol)] /\ log[r] \in Logs(cfg.protocol)
    BY CoreFacts, ScenarioFacts DEF ClusterInv, Hashed, Core, LogsOk
  <1>0. LeaderFine(cfg)
    BY <1>1, FineOf
  <1>2. d \in [status : Nat, command : Value, hash : Value, signed : BOOLEAN] /\ i \in Nat
    BY <1>1, LogType DEF Instances
  <1>3. c \in Commands /\ c # Nil /\ Cert(cfg, log, i, c)
    BY <1>2 DEF Value
  <1>4. Proposed(cfg, log, i, c)
    <2> HIDE DEF c
    <2> QED BY <1>1, <1>3, CertIsProposed
  <1>5. d.command \in {Nil, c}
    <2>1. hashOf(cfg.protocol, log[r][i]) \in {Nil, c} /\ cfg.protocol # "mirbft"
      BY DEF hashOf
    <2> HIDE DEF c
    <2> QED BY <1>1, <1>3, <1>4, <2>1, HeldAgrees
  <1>6. LH!exec(r, put(log[r], i, e))
    <2>1. Over(log[r], i, e) = [log[r] EXCEPT ![i].status = LH!Committed]
      BY DEF Over, LH!Committed
    <2>2. Over(log[r], i, e) = put(log[r], i, e)
      <3> HIDE DEF e
      <3> QED BY <1>1, PutOver
    <2> QED BY <2>1, <2>2
  <1>7. c = d.hash
    OBVIOUS
  <1> HIDE DEF c
  <1>8. /\ e \in [status : Nat, command : Value, hash : Value, signed : BOOLEAN]
        /\ e.hash = c /\ e.command = d.command /\ e.signed = d.signed
    <2> HIDE DEF d
    <2> QED BY <1>2, <1>7
  <1>9. Binds(cfg, log, r, i, c, e)
    <2> HIDE DEF e
    <2> QED BY <1>2, <1>3, <1>4, <1>5, <1>7, <1>8 DEF Binds, Instances, hashOf, votedIn
  <1>10. LogStep(cfg, log, r, put(log[r], i, e))
    <2> HIDE DEF e
    <2>1. Cert(cfg, [log EXCEPT ![r] = put(log[r], i, e)], i, c)
      BY <1>1, <1>3, <1>9, BindCert
    <2> QED BY <1>1, <1>9, <2>1, BindStep
  <1> HIDE DEF e
  <1> QED BY <1>0, <1>1, <1>6, <1>10, LHExec

LEMMA LHAggregated ==
  ASSUME ClusterInv, cfg.protocol = "linhybster", LH!Aggregated
  PROVE  ClusterInv'
  <1>1. /\ Core /\ cfg \in Scenarios /\ Leader \in Replicas
        /\ NetOk(cfg, log, chan, jobs) /\ EntriesOk(cfg, log)
    BY CoreFacts DEF ClusterInv, Core, LogsOk
  <1>2. PICK j \in pending(Leader, "Aggregate") :
           /\ jobs' = withoutJob(Leader, j)
           /\ chan' = sendTo(cfg.members \ {Leader}, [type |-> "Commit", index |-> j.index, val |-> j.hash])
           /\ LH!exec(Leader, [log[Leader] EXCEPT ![j.index].status = LH!Committed])
           /\ UNCHANGED <<cfg, requested, index, results, answered>>
    BY LHBridge DEF LH!Aggregated
  <1> DEFINE i == j.index
             c == j.hash
             m == [type |-> "Commit", index |-> i, val |-> c]
  <1>3. Leader \in Alive /\ j \in OkJobs(cfg, log, Leader) /\ j.type = "Aggregate"
    BY <1>1, <1>2, PendingOk
  <1>4. /\ i \in Nat /\ i \in DOMAIN log[Leader] /\ c \in Commands /\ hashOf(cfg.protocol, log[Leader][i]) = c
        /\ Cert(cfg, log, i, c)
    BY <1>3, JobFacts
  <1>5. log[Leader][i].hash = c /\ c # Nil /\ Leader \in Good(cfg) /\ LeaderFine(cfg)
    BY <1>1, <1>3, <1>4, CoreFacts DEF hashOf, Alive, LeaderFine
  <1>6. Frame
    BY <1>1, <1>2, SameFrame
  <1>7. Core' /\ Keeps(cfg, log, log')
    <2> HIDE DEF i, c
    <2>1. LH!exec(Leader, [log[Leader] EXCEPT ![i].status = LH!Committed])
      BY <1>2 DEF i
    <2> QED BY <1>4, <1>5, <1>6, <2>1, LHCommits
  <1>8. m \in OkMsgs(cfg, log')
    <2> HIDE DEF i, c
    <2>1. Proposed(cfg, log, i, c)
      BY <1>1, <1>4, CertIsProposed
    <2>2. Proposed(cfg, log', i, c) /\ Cert(cfg, log', i, c)
      BY <1>1, <1>4, <1>5, <1>7, <2>1, CertMore DEF Keeps
    <2> QED BY <1>1, <1>4, <1>5, <2>2, MsgOk
  <1> HIDE DEF m
  <1>9. NetOk(cfg, log', chan, jobs)
    BY <1>7, NetKept
  <1>10. NetOk(cfg, log', chan, jobs')
    BY <1>1, <1>2, <1>9, WithoutJobOk
  <1>11. NetOk(cfg, log', chan', jobs')
    BY <1>2, <1>8, <1>10, SendOk DEF m
  <1> QED BY <1>2, <1>7, <1>11, HandlerDone

LEMMA LHVerified ==
  ASSUME ClusterInv, cfg.protocol = "linhybster", NEW r \in cfg.members, LH!Verified(r)
  PROVE  ClusterInv'
  <1>1. Core /\ cfg \in Scenarios /\ r \in Replicas /\ NetOk(cfg, log, chan, jobs)
    BY CoreFacts, ScenarioFacts DEF ClusterInv
  <1>2. PICK j \in pending(r, "Verify") :
           /\ jobs' = withoutJob(r, j)
           /\ LH!exec(r, [log[r] EXCEPT ![j.index].status = LH!Committed])
           /\ UNCHANGED <<cfg, requested, index, chan, results, answered>>
    BY LHBridge DEF LH!Verified
  <1> DEFINE i == j.index
  <1>3. r \in Alive /\ j \in OkJobs(cfg, log, r) /\ j.type = "Verify"
    BY <1>1, <1>2, PendingOk
  <1>4. /\ i \in DOMAIN log[r] /\ log[r][i].hash # Nil /\ Cert(cfg, log, i, log[r][i].hash)
        /\ r \in Good(cfg)
    <2>1. hashOf(cfg.protocol, log[r][i]) = log[r][i].hash
      BY DEF hashOf
    <2>2. i \in DOMAIN log[r] /\ log[r][i].hash # Nil /\ Cert(cfg, log, i, log[r][i].hash)
      BY <1>3, <2>1, JobFacts
    <2> QED BY <1>1, <1>3, <2>2, CoreFacts DEF Alive
  <1>5. Frame
    BY <1>1, <1>2, SameFrame
  <1>6. Core' /\ Keeps(cfg, log, log')
    <2> HIDE DEF i
    <2>1. LH!exec(r, [log[r] EXCEPT ![i].status = LH!Committed])
      BY <1>2 DEF i
    <2> QED BY <1>4, <1>5, <2>1, LHCommits
  <1>7. NetOk(cfg, log', chan, jobs)
    BY <1>6, NetKept
  <1>8. NetOk(cfg, log', chan', jobs')
    BY <1>1, <1>2, <1>7, WithoutJobOk
  <1> QED BY <1>2, <1>6, <1>8, HandlerDone

LEMMA LHCommit ==
  ASSUME ClusterInv, cfg.protocol = "linhybster", NEW r \in cfg.members, LH!onCommit(r)
  PROVE  ClusterInv'
  <1>1. /\ Core /\ cfg \in Scenarios /\ r \in Replicas /\ NetOk(cfg, log, chan, jobs)
        /\ cfg.protocol \in Hashed /\ log \in [Replicas -> Logs(cfg.protocol)]
    BY CoreFacts, ScenarioFacts DEF ClusterInv, Hashed
  <1>2. PICK m \in received(r, "Commit") :
           \/ LH!Panic(r)
           \/ LET d == LH!instWith(r, m.index, m.val)
                  L == put(log[r], m.index, d)
              IN  /\ ~differs(r, m.index, "hash", m.val)
                  /\ log' = [log EXCEPT ![r] = L]
                  /\ jobs' = jobs \/ jobs' = withJob(r, [type |-> "Verify", index |-> m.index])
                  /\ chan' = popped(r)
                  /\ UNCHANGED <<cfg, requested, index, execIdx, executed, results, answered>>
    BY LHBridge DEF LH!onCommit
  <1> DEFINE i == m.index
             c == m.val
             d == LH!instWith(r, i, c)
             L == put(log[r], i, d)
             j == [type |-> "Verify", index |-> i]
  <1>3. r \in Alive /\ m \in OkMsgs(cfg, log) /\ m.type = "Commit"
    BY <1>1, <1>2, ReceivedOk
  <1>4. i \in Nat /\ c \in Commands /\ Proposed(cfg, log, i, c) /\ Cert(cfg, log, i, c) /\ LeaderFine(cfg)
    BY <1>3, MsgFacts
  <1>5. r \in Good(cfg) /\ c # Nil
    BY <1>1, <1>3, <1>4, CoreFacts DEF Alive
  <1>6. CASE LH!Panic(r)
    BY <1>1, <1>6, LHEnds
  <1>7. CASE /\ ~differs(r, i, "hash", c) /\ chan' = popped(r)
             /\ UNCHANGED <<cfg, requested, index, execIdx, executed, results, answered>>
             /\ log' = [log EXCEPT ![r] = L] /\ (jobs' = jobs \/ jobs' = withJob(r, j))
    <2> HIDE DEF i, c
    <2>1. Frame
      BY <1>1, <1>7, SameFrame
    <2>2. HeldAs(cfg, log, r, i, c, d)
      BY <1>1, <1>4, <1>5, <1>7, LHHeld
    <2>3. d \in Instances(cfg.protocol) /\ d.hash = c /\ d.command \in {Nil, c}
      BY <2>2 DEF HeldAs
    <2> HIDE DEF d
    <2>4. LogStep(cfg, log, r, L)
      BY <1>1, <1>4, <1>5, <2>2, <2>3, HeldBinds
    <2>5. Core' /\ Keeps(cfg, log, log')
      <3> HIDE DEF L
      <3> QED BY <1>1, <1>4, <1>7, <2>1, <2>4, StoreStep
    <2>6. NetOk(cfg, log', chan, jobs)
      BY <2>5, NetKept
    <2>7. NetOk(cfg, log', chan', jobs)
      BY <1>1, <1>2, <1>7, <2>6, ReceivedOk
    <2>8. j \in OkJobs(cfg, log', r)
      <3>1. i \in DOMAIN log'[r] /\ log'[r][i] = d
        BY <1>1, <1>7 DEF put
      <3>2. hashOf(cfg.protocol, d) = c
        BY <2>3 DEF hashOf
      <3>3. Cert(cfg, log', i, c)
        BY <1>1, <1>4, <1>5, <2>5, CertMore DEF Keeps
      <3> QED BY <1>4, <1>5, <3>1, <3>2, <3>3, VerifyOk
    <2> HIDE DEF j, L
    <2>9. NetOk(cfg, log', chan', jobs')
      BY <1>1, <1>7, <2>7, <2>8, WithJobOk
    <2> QED BY <1>7, <2>5, <2>9, HandlerDone
  <1> QED BY <1>2, <1>6, <1>7

LEMMA LHResult ==
  ASSUME ClusterInv, cfg.protocol = "linhybster", NEW r \in cfg.members, NEW c \in Commands, LH!stepResult(r, c)
  PROVE  ClusterInv'
  <1>1. /\ resultSent(r, c) /\ results' = [results EXCEPT ![c] = @ \cup {r}]
        /\ answered' = [answered EXCEPT ![c] = IF Cardinality(results[c]) + 1 > cfg.f THEN 1 ELSE @]
        /\ UNCHANGED <<cfg, requested, index, log, chan, jobs, execIdx, executed>>
    BY LHBridge DEF LH!stepResult
  <1>2. Core /\ NetOk(cfg, log, chan, jobs)
    BY DEF ClusterInv
  <1>3. 1 \in Nat
    OBVIOUS
  <1>4. Core'
    BY <1>1, <1>2, <1>3, ResultStep
  <1> QED BY <1>1, <1>2, <1>4, HandlerDone

LEMMA LHNext ==
  ASSUME ClusterInv, cfg.protocol = "linhybster", LH!Next
  PROVE  ClusterInv'
  <1>1. cfg.members \subseteq Replicas /\ 0 .. MaxIndex - 1 \subseteq Nat
    BY CoreFacts, ScenarioFacts DEF ClusterInv
  <1>2. ASSUME LH!FaultyVote PROVE ClusterInv'
    BY <1>2, LHEnds, ClusterAssumption DEF LH!FaultyVote
  <1> QED BY <1>1, <1>2, LHRequest, LHResult, LHPrepare, LHCommit, LHVerified, LHEnds, LHSignShare, LHAggregated
          DEF LH!Next

-----------------------------------------------------------------------------
(* SBFT's slow path *)

LEMMA SLBridge ==
  /\ SL!Alive = Alive /\ SL!Correct = Correct
  /\ \A V : SL!Cardinality(V) = Cardinality(V)
  /\ \A to, m : SL!sendTo(to, m) = sendTo(to, m)
  /\ \A r, type : SL!received(r, type) = received(r, type)
  /\ \A r : SL!popped(r) = popped(r)
  /\ \A r, j : SL!withJob(r, j) = withJob(r, j)
  /\ \A r, j : SL!withoutJob(r, j) = withoutJob(r, j)
  /\ \A r, type : SL!pending(r, type) = pending(r, type)
  /\ \A K, i, e : SL!put(K, i, e) = put(K, i, e)
  /\ \A i, P : SL!loopEnd(i, P) = loopEnd(i, P)
  /\ \A r, i, field, val : SL!differs(r, i, field, val) <=> differs(r, i, field, val)
  /\ \A c : SL!newCommand(c) <=> newCommand(c)
  /\ \A r, c : SL!resultSent(r, c) => resultSent(r, c)
  <1>1. SL!Alive = Alive /\ SL!Correct = Correct
    BY DEF SL!Alive, SL!Correct, Alive, Correct
  <1>2. \A V : SL!Cardinality(V) = Cardinality(V)
    BY Zenon DEF SL!Cardinality, Cardinality
  <1>3. /\ \A to, m : SL!sendTo(to, m) = sendTo(to, m)
        /\ \A r, type : SL!received(r, type) = received(r, type)
        /\ \A r : SL!popped(r) = popped(r)
    BY <1>1 DEF SL!sendTo, sendTo, SL!received, received, SL!popped, popped
  <1>4. /\ \A r, j : SL!withJob(r, j) = withJob(r, j)
        /\ \A r, j : SL!withoutJob(r, j) = withoutJob(r, j)
        /\ \A r, type : SL!pending(r, type) = pending(r, type)
    BY <1>1 DEF SL!withJob, withJob, SL!withoutJob, withoutJob, SL!pending, pending, SL!withOne, withOne,
                SL!withoutOne, withoutOne
  <1>5. \A K, i, e : SL!put(K, i, e) = put(K, i, e)
    BY DEF SL!put, put
  <1>6. \A i, P : SL!loopEnd(i, P) = loopEnd(i, P)
    BY Zenon DEF SL!loopEnd, loopEnd, SL!Min, Min
  <1>7. \A r, i, field, val : SL!differs(r, i, field, val) <=> differs(r, i, field, val)
    BY DEF SL!differs, differs
  <1>8. \A c : SL!newCommand(c) <=> newCommand(c)
    BY <1>2 DEF SL!newCommand, newCommand
  <1>9. \A r, c : SL!resultSent(r, c) => resultSent(r, c)
    BY <1>1 DEF SL!resultSent, resultSent, SL!Range, Range
  <1> QED BY <1>1, <1>2, <1>3, <1>4, <1>5, <1>6, <1>7, <1>8, <1>9

LEMMA SLEnds ==
  ASSUME ClusterInv, NEW r \in Replicas, SL!Panic(r) \/ SL!Crash(r)
  PROVE  ClusterInv'
  <1>1. SL!stop(r)
    BY DEF SL!Panic, SL!Crash
  <1>2. stop(r)
    BY <1>1 DEF SL!stop, stop, SL!noJobs, noJobs
  <1> QED BY <1>2, StopStep

LEMMA SLExecutes ==
  ASSUME NEW e \in Instances("sbftslow"), e.status = 5, e.command # Nil
  PROVE  LET e2 == [e EXCEPT !.status = 7]
         IN  /\ doneIn("sbftslow", e) /\ e.command \in Commands
             /\ e2 \in Instances("sbftslow") /\ Executes("sbftslow", e, e2)
  <1> DEFINE e2 == [e EXCEPT !.status = 7]
  <1>1. e \in [status : Nat, command : Value, hash : Value, signed : BOOLEAN, cSigned : BOOLEAN]
    BY DEF Instances
  <1>2. /\ e2 \in [status : Nat, command : Value, hash : Value, signed : BOOLEAN, cSigned : BOOLEAN]
        /\ e2.command = e.command /\ e2.hash = e.hash /\ e2.cSigned = e.cSigned
    BY <1>1 DEF Value
  <1>3. e.command \in Commands
    BY <1>1 DEF Value
  <1> HIDE DEF e2
  <1>4. doneIn("sbftslow", e)
    BY DEF doneIn
  <1>5. Executes("sbftslow", e, e2)
    BY <1>2, <1>4 DEF Executes, hashOf, votedIn
  <1>6. e2 \in Instances("sbftslow")
    BY <1>2 DEF Instances
  <1> QED BY <1>3, <1>4, <1>5, <1>6 DEF e2

LEMMA SLExec ==
  ASSUME Core, Frame, cfg.protocol = "sbftslow", NEW r, NEW L, LogStep(cfg, log, r, L), LeaderFine(cfg),
         SL!exec(r, L)
  PROVE  Core' /\ Keeps(cfg, log, log')
  <1> DEFINE P == {i \in DOMAIN L : SL!IsCommitted(L[i]) /\ L[i].command # Nil}
             E == [i \in DOMAIN L |-> [L[i] EXCEPT !.status = 7]]
             to == loopEnd(execIdx[r], P)
  <1>1. /\ log' = [log EXCEPT ![r] = Passed(L, E, execIdx[r], to)]
        /\ execIdx' = [execIdx EXCEPT ![r] = to] /\ to = loopEnd(execIdx[r], P)
        /\ executed' = [executed EXCEPT ![r] = @ \o CommandsOf(L, execIdx[r], to)]
    BY SLBridge DEF SL!exec, SL!Executed, Passed, CommandsOf
  <1>2. Passes(cfg, L, P, E)
    <2> SUFFICES ASSUME NEW i \in P
                 PROVE  /\ doneIn("sbftslow", L[i]) /\ L[i].command \in Commands
                        /\ E[i] \in Instances("sbftslow") /\ Executes("sbftslow", L[i], E[i])
      BY DEF Passes
    <2>1. L[i] \in Instances("sbftslow") /\ L[i].status = 5 /\ L[i].command # Nil
      BY LogType DEF LogStep, SL!IsCommitted, SL!Committed
    <2>2. E[i] = [L[i] EXCEPT !.status = 7]
      OBVIOUS
    <2> HIDE DEF P, E
    <2> QED BY <2>1, <2>2, SLExecutes
  <1> HIDE DEF P, E, to
  <1> QED BY <1>1, <1>2, ExecIs

\* The votes that SL counts: the second ones.
LEMMA SLVotes ==
  ASSUME Core, cfg.protocol = "sbftslow"
  PROVE  /\ \A i, c : SL!signers("cSigned", i, c) = Voters(cfg, log, i, c) \cup Liars(cfg)
         /\ \A V : SL!Majority(V) <=> Cardinality(V) >= Need(cfg)
         /\ LeaderFine(cfg) /\ cfg.protocol # "mirbft" /\ cfg.protocol # "hybster"
  <1>1. SL!Correct = Good(cfg)
    BY SLBridge, CoreFacts
  <1>2. \A i, c : SL!signers("cSigned", i, c) = Voters(cfg, log, i, c) \cup Liars(cfg)
    BY <1>1 DEF SL!signers, Voters, Liars, votedIn, hashOf
  <1>3. \A V : SL!Majority(V) <=> Cardinality(V) >= Need(cfg)
    BY SLBridge DEF SL!Majority, SL!threshold, Need
  <1> QED BY <1>2, <1>3 DEF LeaderFine

\* A quorum of either vote has a correct member, so that its command has been proposed.
LEMMA SLBacked ==
  ASSUME Core, cfg.protocol = "sbftslow", NEW field, NEW i, NEW c \in Commands,
         SL!Majority(SL!signers(field, i, c))
  PROVE  Proposed(cfg, log, i, c)
  <1>1. cfg \in Scenarios /\ EntriesOk(cfg, log) /\ Need(cfg) \in Nat /\ Need(cfg) > 0 /\ Nil \notin Commands
    <2>1. cfg \in Scenarios /\ EntriesOk(cfg, log) /\ Nil \notin Commands
      BY CoreFacts DEF Core, LogsOk
    <2>2. cfg.f \in Nat /\ cfg.c \in Nat
      BY <2>1, ScenarioFacts
    <2> QED BY <2>1, <2>2 DEF Need
  <1>2. SL!signers(field, i, c) \ cfg.faulty # {}
    <2> DEFINE V == SL!signers(field, i, c)
    <2>1. Cardinality(V) >= Need(cfg) /\ Cardinality(Liars(cfg)) < Need(cfg) /\ Liars(cfg) = cfg.faulty
      BY <1>1, SLVotes, ScenarioFacts DEF Liars
    <2>2. IsFiniteSet(Liars(cfg))
      BY <1>1, ScenarioFacts, FS_Subset
    <2> HIDE DEF V
    <2>3. ASSUME V \subseteq Liars(cfg) PROVE FALSE
      <3>1. /\ Cardinality(V) <= Cardinality(Liars(cfg)) /\ Cardinality(V) \in Nat
            /\ Cardinality(Liars(cfg)) \in Nat
        BY <2>2, <2>3, FS_Subset, FS_CardinalityType
      <3> QED BY <1>1, <2>1, <3>1
    <2> QED BY <2>1, <2>3 DEF V
  <1>3. PICK q \in SL!Correct : i \in DOMAIN log[q] /\ log[q][i].hash = c
    BY <1>2 DEF SL!signers
  <1>4. q \in Good(cfg) /\ hashOf(cfg.protocol, log[q][i]) = c
    BY <1>3, SLBridge, CoreFacts DEF hashOf
  <1>5. Entry(cfg, log, q, i, log[q][i])
    BY <1>1, <1>3, <1>4 DEF EntriesOk
  <1> QED BY <1>1, <1>4, <1>5 DEF Entry

LEMMA SLRequest ==
  ASSUME ClusterInv, cfg.protocol = "sbftslow", NEW c \in Commands, SL!onRequest(c)
  PROVE  ClusterInv'
  <1> DEFINE e == SL!makeInstance(SL!Preprepared, c, Nil)
             i == index[Leader]
             m == [type |-> "Preprepare", index |-> i, val |-> c]
  <1>1. Core /\ LeaderFine(cfg) /\ cfg \in Scenarios
    BY SLVotes, CoreFacts DEF ClusterInv
  <1>2. /\ Leader \in Alive /\ c \in Commands \ requested /\ requested' = requested \cup {c}
        /\ index' = [index EXCEPT ![Leader] = @ + 1] /\ log' = [log EXCEPT ![Leader] = put(@, i, e)]
        /\ chan' = sendTo(cfg.members, m)
        /\ UNCHANGED <<cfg, jobs, execIdx, executed, results, answered>>
    BY SLBridge DEF SL!onRequest, newCommand
  <1>3. e \in Instances(cfg.protocol) /\ e.command = c /\ hashOf(cfg.protocol, e) = Nil /\ ~doneIn(cfg.protocol, e)
    BY DEF SL!makeInstance, SL!Preprepared, Instances, Value, hashOf, doneIn
  <1> HIDE DEF e
  <1>4. Proposes(cfg, log, Leader, i, e, c)
    BY <1>1, <1>2, <1>3, LeaderProposes
  <1>5. index' \in [Replicas -> Nat] /\ i \in Nat /\ index'[Leader] = i + 1
    BY <1>1, <1>2, CoreFacts
  <1> HIDE DEF i
  <1>6. Core' /\ Keeps(cfg, log, log') /\ Proposed(cfg, log', i, c)
    <2>1. i = index[Leader]
      BY DEF i
    <2> QED BY <1>1, <1>2, <1>4, <1>5, <2>1, ProposeStep
  <1>7. m \in OkMsgs(cfg, log')
    BY <1>1, <1>5, <1>6, MsgOk
  <1> HIDE DEF m
  <1>8. NetOk(cfg, log', chan', jobs')
    BY <1>2, <1>6, <1>7, NetKept, SendOk
  <1> QED BY <1>2, <1>6, <1>8, HandlerDone

LEMMA SLHeld ==
  ASSUME Core, cfg.protocol = "sbftslow", NEW r \in Good(cfg), NEW i \in Nat, NEW c \in Commands,
         Proposed(cfg, log, i, c), ~differs(r, i, "hash", c)
  PROVE  HeldAs(cfg, log, r, i, c, SL!instWith(r, i, c))
  <1> DEFINE fresh == SL!makeInstance(SL!None, Nil, c)
             e == SL!instWith(r, i, c)
  <1>1. /\ cfg \in Scenarios /\ cfg.protocol \in Hashed /\ log \in [Replicas -> Logs(cfg.protocol)]
        /\ EntriesOk(cfg, log)
    BY CoreFacts DEF Core, LogsOk, Hashed
  <1>2. i \in DOMAIN log[r] => log[r][i].hash \in {Nil, c}
    BY DEF differs
  <1>3. /\ fresh \in Instances(cfg.protocol) /\ fresh.hash = c /\ fresh.command = Nil
        /\ ~votedIn(cfg.protocol, fresh) /\ ~doneIn(cfg.protocol, fresh)
    BY DEF SL!makeInstance, SL!None, Instances, Value, votedIn, doneIn
  <1>4. e = IF i \in DOMAIN log[r] THEN [log[r][i] EXCEPT !.hash = c] ELSE fresh
    BY DEF SL!instWith
  <1> HIDE DEF e, fresh
  <1>5. HeldAs(cfg, log, r, i, c, e)
    BY <1>1, <1>2, <1>3, <1>4, HeldOk
  <1> QED BY <1>5 DEF e

LEMMA SLPreprepare ==
  ASSUME ClusterInv, cfg.protocol = "sbftslow", NEW r \in cfg.members, SL!onPreprepare(r)
  PROVE  ClusterInv'
  <1>1. /\ Core /\ LeaderFine(cfg) /\ cfg \in Scenarios /\ r \in Replicas /\ NetOk(cfg, log, chan, jobs)
        /\ cfg.protocol \in Hashed
    BY SLVotes, CoreFacts, ScenarioFacts DEF ClusterInv, Hashed
  <1>2. PICK m \in received(r, "Preprepare") :
           \/ SL!Panic(r)
           \/ LET inst == [SL!instWith(r, m.index, m.val) EXCEPT !.command = m.val]
              IN  /\ ~differs(r, m.index, "hash", m.val)
                  /\ IF SL!IsCommitted(inst) THEN SL!exec(r, put(log[r], m.index, inst))
                     ELSE /\ log' = [log EXCEPT ![r] = put(@, m.index,
                                             IF inst.status > 1 THEN inst
                                             ELSE [inst EXCEPT !.status = 1, !.signed = TRUE])]
                          /\ UNCHANGED <<execIdx, executed>>
                  /\ chan' = popped(r)
                  /\ UNCHANGED <<cfg, requested, index, jobs, results, answered>>
    BY SLBridge DEF SL!onPreprepare, SL!Preprepared
  <1> DEFINE i == m.index
             c == m.val
             d == SL!instWith(r, i, c)
             inst == [d EXCEPT !.command = c]
             new == IF inst.status > 1 THEN inst ELSE [inst EXCEPT !.status = 1, !.signed = TRUE]
  <1>3. r \in Alive /\ m \in OkMsgs(cfg, log)
    BY <1>1, <1>2, ReceivedOk
  <1>4. i \in Nat /\ c \in Commands /\ Proposed(cfg, log, i, c) /\ r \in Good(cfg)
    BY <1>1, <1>3, MsgFacts, CoreFacts DEF Alive
  <1>5. CASE SL!Panic(r)
    BY <1>1, <1>5, SLEnds
  <1>6. ASSUME ~SL!Panic(r)
        PROVE  /\ ~differs(r, i, "hash", c) /\ chan' = popped(r)
               /\ UNCHANGED <<cfg, requested, index, jobs, results, answered>>
               /\ \/ SL!IsCommitted(inst) /\ SL!exec(r, put(log[r], i, inst))
                  \/ /\ log' = [log EXCEPT ![r] = put(log[r], i, new)]
                     /\ UNCHANGED <<execIdx, executed>>
    BY <1>2, <1>6
  <1>7. ASSUME ~SL!Panic(r) PROVE Core' /\ Keeps(cfg, log, log')
    <2>1. Frame
      BY <1>1, <1>6, <1>7, SameFrame
    <2>2. HeldAs(cfg, log, r, i, c, d)
      <3> HIDE DEF i, c
      <3> QED BY <1>1, <1>4, <1>6, <1>7, SLHeld
    <2>3. d \in [status : Nat, command : Value, hash : Value, signed : BOOLEAN, cSigned : BOOLEAN] /\ d.hash = c
      BY <2>2 DEF HeldAs, Instances
    <2> HIDE DEF d, c, i
    <2>31. /\ inst \in [status : Nat, command : Value, hash : Value, signed : BOOLEAN, cSigned : BOOLEAN]
           /\ inst.hash = c /\ inst.command = c /\ inst.cSigned = d.cSigned /\ inst.status = d.status
      BY <1>4, <2>3 DEF Value
    <2>4. CASE SL!IsCommitted(inst) /\ SL!exec(r, put(log[r], i, inst))
      <3>1. /\ inst \in Instances(cfg.protocol) /\ (votedIn(cfg.protocol, d) => votedIn(cfg.protocol, inst))
            /\ doneIn(cfg.protocol, inst) => doneIn(cfg.protocol, d)
        BY <2>31 DEF Instances, votedIn, doneIn
      <3> HIDE DEF inst
      <3>2. LogStep(cfg, log, r, put(log[r], i, inst))
        BY <1>1, <1>4, <2>2, <2>31, <3>1, HeldBinds
      <3> QED BY <1>1, <2>1, <2>4, <3>2, SLExec
    <2>5. CASE log' = [log EXCEPT ![r] = put(log[r], i, new)] /\ UNCHANGED <<execIdx, executed>>
      <3> HIDE DEF inst
      <3>1. /\ new \in [status : Nat, command : Value, hash : Value, signed : BOOLEAN, cSigned : BOOLEAN]
            /\ new.hash = c /\ new.command = c /\ new.cSigned = d.cSigned
            /\ new.status >= 5 => d.status >= 5
        <4>1. CASE inst.status > 1
          <5>1. new = inst
            BY <4>1
          <5> HIDE DEF new
          <5> QED BY <2>31, <5>1
        <4>2. CASE ~(inst.status > 1)
          <5>1. new = [inst EXCEPT !.status = 1, !.signed = TRUE]
            BY <4>2
          <5> HIDE DEF new
          <5>2. new \in [status : Nat, command : Value, hash : Value, signed : BOOLEAN, cSigned : BOOLEAN]
            BY <2>31, <5>1
          <5>3. new.hash = inst.hash /\ new.command = inst.command /\ new.cSigned = inst.cSigned
            BY <2>31, <5>1
          <5>4. new.status = 1
            BY <2>31, <5>1
          <5> QED BY <2>31, <5>2, <5>3, <5>4
        <4> QED BY <4>1, <4>2
      <3> HIDE DEF new
      <3>2. /\ new \in Instances(cfg.protocol) /\ (votedIn(cfg.protocol, d) => votedIn(cfg.protocol, new))
            /\ doneIn(cfg.protocol, new) => doneIn(cfg.protocol, d)
        BY <3>1 DEF Instances, votedIn, doneIn
      <3>3. LogStep(cfg, log, r, put(log[r], i, new))
        BY <1>1, <1>4, <2>2, <3>1, <3>2, HeldBinds
      <3> QED BY <1>1, <2>1, <2>5, <3>3, StoreStep
    <2> QED BY <1>6, <1>7, <2>4, <2>5
  <1>8. ASSUME ~SL!Panic(r) PROVE NetOk(cfg, log', chan', jobs')
    <2>1. NetOk(cfg, log', chan, jobs)
      BY <1>7, <1>8, NetKept
    <2>2. NetOk(cfg, log', popped(r), jobs)
      BY <1>1, <1>2, <2>1, ReceivedOk
    <2> QED BY <1>6, <1>8, <2>2
  <1>9. ASSUME ~SL!Panic(r) PROVE cfg' = cfg /\ cfg.protocol # "hybster"
    BY <1>6, <1>9
  <1> QED BY <1>5, <1>7, <1>8, <1>9, HandlerDone

LEMMA SLPrepare ==
  ASSUME ClusterInv, cfg.protocol = "sbftslow", NEW r \in cfg.members, SL!onPrepare(r)
  PROVE  ClusterInv'
  <1>1. /\ Core /\ LeaderFine(cfg) /\ cfg \in Scenarios /\ r \in Replicas /\ NetOk(cfg, log, chan, jobs)
        /\ cfg.protocol \in Hashed
    BY SLVotes, CoreFacts, ScenarioFacts DEF ClusterInv, Hashed
  <1>2. PICK m \in received(r, "Prepare") :
           \/ SL!Panic(r)
           \/ LET d == SL!instWith(r, m.index, m.val)
              IN  /\ ~differs(r, m.index, "hash", m.val)
                  /\ log' = [log EXCEPT ![r] = put(@, m.index, IF d.status > 3 THEN d
                                                               ELSE [d EXCEPT !.status = 3, !.cSigned = TRUE])]
                  /\ chan' = popped(r)
                  /\ UNCHANGED <<cfg, requested, index, jobs, execIdx, executed, results, answered>>
    BY SLBridge DEF SL!onPrepare, SL!Prepared
  <1> DEFINE i == m.index
             c == m.val
             d == SL!instWith(r, i, c)
             new == IF d.status > 3 THEN d ELSE [d EXCEPT !.status = 3, !.cSigned = TRUE]
  <1>3. r \in Alive /\ m \in OkMsgs(cfg, log)
    BY <1>1, <1>2, ReceivedOk
  <1>4. i \in Nat /\ c \in Commands /\ Proposed(cfg, log, i, c) /\ r \in Good(cfg)
    BY <1>1, <1>3, MsgFacts, CoreFacts DEF Alive
  <1>5. CASE SL!Panic(r)
    BY <1>1, <1>5, SLEnds
  <1>6. CASE /\ ~differs(r, i, "hash", c) /\ log' = [log EXCEPT ![r] = put(log[r], i, new)]
             /\ chan' = popped(r)
             /\ UNCHANGED <<cfg, requested, index, jobs, execIdx, executed, results, answered>>
    <2>1. Frame
      BY <1>1, <1>6, SameFrame
    <2> HIDE DEF c, i
    <2>2. HeldAs(cfg, log, r, i, c, d)
      BY <1>1, <1>4, <1>6, SLHeld
    <2>3. d \in [status : Nat, command : Value, hash : Value, signed : BOOLEAN, cSigned : BOOLEAN] /\ d.hash = c
          /\ d.command \in {Nil, c}
      BY <2>2 DEF HeldAs, Instances
    <2> HIDE DEF d
    <2>4. /\ new \in [status : Nat, command : Value, hash : Value, signed : BOOLEAN, cSigned : BOOLEAN]
          /\ new.hash = c /\ new.command = d.command /\ (d.cSigned => new.cSigned)
          /\ new.status >= 5 => d.status >= 5
      <3>1. CASE d.status > 3
        <4>1. new = d
          BY <3>1
        <4> HIDE DEF new
        <4> QED BY <2>3, <4>1
      <3>2. CASE ~(d.status > 3)
        <4>1. new = [d EXCEPT !.status = 3, !.cSigned = TRUE]
          BY <3>2
        <4> HIDE DEF new
        <4>2. new \in [status : Nat, command : Value, hash : Value, signed : BOOLEAN, cSigned : BOOLEAN]
          BY <2>3, <4>1
        <4>3. new.hash = d.hash /\ new.command = d.command
          BY <2>3, <4>1
        <4>4. new.status = 3 /\ new.cSigned = TRUE
          BY <2>3, <4>1
        <4> QED BY <2>3, <4>2, <4>3, <4>4
      <3> QED BY <3>1, <3>2
    <2> HIDE DEF new
    <2>5. /\ new \in Instances(cfg.protocol) /\ (votedIn(cfg.protocol, d) => votedIn(cfg.protocol, new))
          /\ doneIn(cfg.protocol, new) => doneIn(cfg.protocol, d)
      BY <2>4 DEF Instances, votedIn, doneIn
    <2>6. LogStep(cfg, log, r, put(log[r], i, new))
      BY <1>1, <1>4, <2>2, <2>3, <2>4, <2>5, HeldBinds
    <2>7. Core' /\ Keeps(cfg, log, log')
      BY <1>1, <1>6, <2>1, <2>6, StoreStep
    <2>8. NetOk(cfg, log', chan, jobs)
      BY <2>7, NetKept
    <2>9. NetOk(cfg, log', chan', jobs')
      BY <1>1, <1>2, <1>6, <2>8, ReceivedOk
    <2> QED BY <1>6, <2>7, <2>9, HandlerDone
  <1> QED BY <1>2, <1>5, <1>6

LEMMA SLAggregate ==
  ASSUME ClusterInv, cfg.protocol = "sbftslow", NEW i \in Nat,
         NEW field, NEW status \in {2, 4}, NEW job \in {"Aggregate", "AggregateSlow"},
         job = "AggregateSlow" => field = "cSigned", SL!aggregate(i, field, status, job)
  PROVE  ClusterInv'
  <1>1. /\ Core /\ LeaderFine(cfg) /\ cfg \in Scenarios /\ Leader \in Replicas
        /\ NetOk(cfg, log, chan, jobs) /\ cfg.protocol \in Hashed /\ EntriesOk(cfg, log)
        /\ log \in [Replicas -> Logs(cfg.protocol)]
    BY SLVotes, CoreFacts DEF ClusterInv, Hashed, Core, LogsOk
  <1>2. PICK c \in Commands :
           /\ Leader \in Alive /\ i \in DOMAIN log[Leader] /\ SL!Majority(SL!signers(field, i, c))
           /\ \/ SL!Panic(Leader)
              \/ /\ ~differs(Leader, i, "hash", c)
                 /\ log' = [log EXCEPT ![Leader][i] = [SL!instWith(Leader, i, c) EXCEPT !.status = status]]
                 /\ jobs' = withJob(Leader, [type |-> job, index |-> i, hash |-> c])
                 /\ UNCHANGED <<cfg, requested, index, chan, execIdx, executed, results, answered>>
    BY SLBridge DEF SL!aggregate, SL!sharedBy
  <1> DEFINE d == SL!instWith(Leader, i, c)
             e == [d EXCEPT !.status = status]
             j == [type |-> job, index |-> i, hash |-> c]
  <1>3. ASSUME job = "AggregateSlow" PROVE Cert(cfg, log, i, c)
    <2>1. SL!signers(field, i, c) \subseteq Voters(cfg, log, i, c) \cup Liars(cfg)
      BY <1>1, <1>3, SLVotes
    <2>2. Cardinality(SL!signers(field, i, c)) >= Need(cfg)
      BY <1>1, <1>2, SLVotes
    <2> QED BY <1>1, <2>1, <2>2, CertOf
  <1>4. Leader \in Good(cfg) /\ Proposed(cfg, log, i, c)
    BY <1>1, <1>2, SLBacked, CoreFacts DEF Alive
  <1>5. CASE SL!Panic(Leader)
    BY <1>1, <1>5, SLEnds
  <1>6. CASE /\ ~differs(Leader, i, "hash", c) /\ log' = [log EXCEPT ![Leader][i] = e]
             /\ jobs' = withJob(Leader, j)
             /\ UNCHANGED <<cfg, requested, index, chan, execIdx, executed, results, answered>>
    <2>1. Frame
      BY <1>1, <1>6, SameFrame
    <2>2. HeldAs(cfg, log, Leader, i, c, d)
      BY <1>1, <1>4, <1>6, SLHeld
    <2>3. d \in [status : Nat, command : Value, hash : Value, signed : BOOLEAN, cSigned : BOOLEAN] /\ d.hash = c
          /\ d.command \in {Nil, c}
      BY <2>2 DEF HeldAs, Instances
    <2> HIDE DEF d
    <2>4. /\ e \in [status : Nat, command : Value, hash : Value, signed : BOOLEAN, cSigned : BOOLEAN]
          /\ e.hash = c /\ e.command = d.command /\ e.cSigned = d.cSigned /\ e.status = status
      BY <2>3
    <2>5. /\ e \in Instances(cfg.protocol) /\ (votedIn(cfg.protocol, d) => votedIn(cfg.protocol, e))
          /\ ~doneIn(cfg.protocol, e)
      BY <2>4 DEF Instances, votedIn, doneIn
    <2> HIDE DEF e
    <2>6. LogStep(cfg, log, Leader, put(log[Leader], i, e))
      BY <1>1, <1>4, <2>2, <2>3, <2>4, <2>5, HeldBinds
    <2>7. log' = [log EXCEPT ![Leader] = put(log[Leader], i, e)]
      <3>1. Over(log[Leader], i, e) = put(log[Leader], i, e)
        BY <1>1, <1>2, PutOver
      <3> QED BY <1>1, <1>6, <3>1 DEF Over
    <2>8. Core' /\ Keeps(cfg, log, log')
      BY <1>1, <1>6, <2>1, <2>6, <2>7, StoreStep
    <2>9. NetOk(cfg, log', chan, jobs)
      BY <2>8, NetKept
    <2>10. j \in OkJobs(cfg, log', Leader)
      <3>1. i \in DOMAIN log'[Leader] /\ log'[Leader][i] = e
        BY <1>1, <2>7 DEF put
      <3>2. hashOf(cfg.protocol, e) = c /\ c # Nil
        BY <1>1, <2>4, CoreFacts DEF hashOf
      <3>3. job = "AggregateSlow" => Cert(cfg, log', i, c)
        BY <1>1, <1>3, <2>8, <3>2, CertMore DEF Keeps
      <3> QED BY <3>1, <3>2, <3>3, AggregateOk
    <2> HIDE DEF j
    <2>11. NetOk(cfg, log', chan', jobs')
      BY <1>1, <1>6, <2>9, <2>10, WithJobOk
    <2> QED BY <1>1, <1>6, <2>8, <2>11, HandlerDone
  <1> QED BY <1>2, <1>5, <1>6

\* The instance whose callback comes back is committed, and exec runs.
LEMMA SLCommits ==
  ASSUME ClusterInv, Frame, cfg.protocol = "sbftslow", NEW r \in Good(cfg), NEW i \in DOMAIN log[r],
         log[r][i].hash # Nil, Cert(cfg, log, i, log[r][i].hash),
         SL!exec(r, [log[r] EXCEPT ![i].status = SL!Committed])
  PROVE  Core' /\ Keeps(cfg, log, log')
  <1> DEFINE d == log[r][i]
             c == d.hash
             e == [d EXCEPT !.status = 5]
  <1>1. /\ Core /\ LeaderFine(cfg) /\ cfg \in Scenarios /\ r \in Replicas /\ cfg.protocol \in Hashed
        /\ EntriesOk(cfg, log) /\ log \in [Replicas -> Logs(cfg.protocol)] /\ log[r] \in Logs(cfg.protocol)
    BY SLVotes, CoreFacts, ScenarioFacts DEF ClusterInv, Hashed, Core, LogsOk
  <1>2. d \in [status : Nat, command : Value, hash : Value, signed : BOOLEAN, cSigned : BOOLEAN] /\ i \in Nat
    BY <1>1, LogType DEF Instances
  <1>3. c \in Commands /\ c # Nil /\ Cert(cfg, log, i, c)
    BY <1>2 DEF Value
  <1>4. Proposed(cfg, log, i, c)
    <2> HIDE DEF c
    <2> QED BY <1>1, <1>3, CertIsProposed
  <1>5. d.command \in {Nil, c}
    <2>1. hashOf(cfg.protocol, log[r][i]) \in {Nil, c} /\ cfg.protocol # "mirbft"
      BY DEF hashOf
    <2> HIDE DEF c
    <2> QED BY <1>1, <1>3, <1>4, <2>1, HeldAgrees
  <1>6. SL!exec(r, put(log[r], i, e))
    <2>1. Over(log[r], i, e) = [log[r] EXCEPT ![i].status = SL!Committed]
      BY DEF Over, SL!Committed
    <2>2. Over(log[r], i, e) = put(log[r], i, e)
      <3> HIDE DEF e
      <3> QED BY <1>1, PutOver
    <2> QED BY <2>1, <2>2
  <1>7. c = d.hash
    OBVIOUS
  <1> HIDE DEF c
  <1>8. /\ e \in [status : Nat, command : Value, hash : Value, signed : BOOLEAN, cSigned : BOOLEAN]
        /\ e.hash = c /\ e.command = d.command /\ e.cSigned = d.cSigned
    <2> HIDE DEF d
    <2> QED BY <1>2, <1>7
  <1>9. Binds(cfg, log, r, i, c, e)
    <2> HIDE DEF e
    <2> QED BY <1>2, <1>3, <1>4, <1>5, <1>7, <1>8 DEF Binds, Instances, hashOf, votedIn
  <1>10. LogStep(cfg, log, r, put(log[r], i, e))
    <2> HIDE DEF e
    <2>1. Cert(cfg, [log EXCEPT ![r] = put(log[r], i, e)], i, c)
      BY <1>1, <1>3, <1>9, BindCert
    <2> QED BY <1>1, <1>9, <2>1, BindStep
  <1> HIDE DEF e
  <1> QED BY <1>1, <1>6, <1>10, SLExec

LEMMA SLAggregatedSlow ==
  ASSUME ClusterInv, cfg.protocol = "sbftslow", SL!AggregatedSlow
  PROVE  ClusterInv'
  <1>1. /\ Core /\ LeaderFine(cfg) /\ cfg \in Scenarios /\ Leader \in Replicas
        /\ NetOk(cfg, log, chan, jobs) /\ EntriesOk(cfg, log)
    BY SLVotes, CoreFacts DEF ClusterInv, Core, LogsOk
  <1>2. PICK j \in pending(Leader, "AggregateSlow") :
           /\ jobs' = withoutJob(Leader, j)
           /\ chan' = sendTo(cfg.members \ {Leader}, [type |-> "CommitSlow", index |-> j.index, val |-> j.hash])
           /\ SL!exec(Leader, [log[Leader] EXCEPT ![j.index].status = SL!Committed])
           /\ UNCHANGED <<cfg, requested, index, results, answered>>
    BY SLBridge DEF SL!AggregatedSlow
  <1> DEFINE i == j.index
             c == j.hash
             m == [type |-> "CommitSlow", index |-> i, val |-> c]
  <1>3. Leader \in Alive /\ j \in OkJobs(cfg, log, Leader) /\ j.type = "AggregateSlow"
    BY <1>1, <1>2, PendingOk
  <1>4. /\ i \in Nat /\ i \in DOMAIN log[Leader] /\ c \in Commands /\ hashOf(cfg.protocol, log[Leader][i]) = c
        /\ Cert(cfg, log, i, c)
    BY <1>3, JobFacts
  <1>5. log[Leader][i].hash = c /\ c # Nil /\ Leader \in Good(cfg)
    BY <1>1, <1>3, <1>4, CoreFacts DEF hashOf, Alive
  <1>6. Frame
    BY <1>1, <1>2, SameFrame
  <1>7. Core' /\ Keeps(cfg, log, log')
    <2> HIDE DEF i, c
    <2>1. SL!exec(Leader, [log[Leader] EXCEPT ![i].status = SL!Committed])
      BY <1>2 DEF i
    <2> QED BY <1>4, <1>5, <1>6, <2>1, SLCommits
  <1>8. m \in OkMsgs(cfg, log')
    <2> HIDE DEF i, c
    <2>1. Proposed(cfg, log, i, c)
      BY <1>1, <1>4, CertIsProposed
    <2>2. Proposed(cfg, log', i, c) /\ Cert(cfg, log', i, c)
      BY <1>1, <1>4, <1>5, <1>7, <2>1, CertMore DEF Keeps
    <2> QED BY <1>1, <1>4, <2>2, MsgOk
  <1> HIDE DEF m
  <1>9. NetOk(cfg, log', chan, jobs)
    BY <1>7, NetKept
  <1>10. NetOk(cfg, log', chan, jobs')
    BY <1>1, <1>2, <1>9, WithoutJobOk
  <1>11. NetOk(cfg, log', chan', jobs')
    BY <1>2, <1>8, <1>10, SendOk DEF m
  <1> QED BY <1>2, <1>7, <1>11, HandlerDone

LEMMA SLAggregated ==
  ASSUME ClusterInv, cfg.protocol = "sbftslow", SL!Aggregated
  PROVE  ClusterInv'
  <1>1. /\ Core /\ LeaderFine(cfg) /\ cfg \in Scenarios /\ Leader \in Replicas
        /\ NetOk(cfg, log, chan, jobs) /\ EntriesOk(cfg, log)
    BY SLVotes, CoreFacts DEF ClusterInv, Core, LogsOk
  <1>2. PICK j \in pending(Leader, "Aggregate") :
           /\ jobs' = withoutJob(Leader, j)
           /\ chan' = sendTo(cfg.members, [type |-> "Prepare", index |-> j.index, val |-> j.hash])
           /\ UNCHANGED <<cfg, requested, index, log, execIdx, executed, results, answered>>
    BY SLBridge DEF SL!Aggregated
  <1> DEFINE i == j.index
             c == j.hash
             m == [type |-> "Prepare", index |-> i, val |-> c]
  <1>3. Leader \in Alive /\ j \in OkJobs(cfg, log, Leader) /\ j.type = "Aggregate"
    BY <1>1, <1>2, PendingOk
  <1>4. i \in Nat /\ i \in DOMAIN log[Leader] /\ c \in Commands /\ hashOf(cfg.protocol, log[Leader][i]) = c
    BY <1>3, JobFacts
  <1>5. c # Nil /\ Leader \in Good(cfg)
    BY <1>1, <1>3, <1>4, CoreFacts DEF Alive
  <1>6. Core'
    BY <1>1, <1>2, SameFrame, StillStep
  <1>7. m \in OkMsgs(cfg, log)
    <2> HIDE DEF i, c
    <2>1. Entry(cfg, log, Leader, i, log[Leader][i])
      BY <1>1, <1>4, <1>5 DEF EntriesOk
    <2>2. Proposed(cfg, log, i, c)
      BY <1>4, <1>5, <2>1 DEF Entry
    <2> QED BY <1>1, <1>4, <2>2, MsgOk
  <1> HIDE DEF m
  <1>8. NetOk(cfg, log, chan, jobs')
    BY <1>1, <1>2, WithoutJobOk
  <1>9. NetOk(cfg, log, chan', jobs')
    BY <1>2, <1>7, <1>8, SendOk DEF m
  <1> QED BY <1>2, <1>6, <1>9, HandlerDone

LEMMA SLVerified ==
  ASSUME ClusterInv, cfg.protocol = "sbftslow", NEW r \in cfg.members, SL!Verified(r)
  PROVE  ClusterInv'
  <1>1. Core /\ cfg \in Scenarios /\ r \in Replicas /\ NetOk(cfg, log, chan, jobs)
    BY CoreFacts, ScenarioFacts DEF ClusterInv
  <1>2. PICK j \in pending(r, "Verify") :
           /\ jobs' = withoutJob(r, j)
           /\ SL!exec(r, [log[r] EXCEPT ![j.index].status = SL!Committed])
           /\ UNCHANGED <<cfg, requested, index, chan, results, answered>>
    BY SLBridge DEF SL!Verified
  <1> DEFINE i == j.index
  <1>3. r \in Alive /\ j \in OkJobs(cfg, log, r) /\ j.type = "Verify"
    BY <1>1, <1>2, PendingOk
  <1>4. /\ i \in DOMAIN log[r] /\ log[r][i].hash # Nil /\ Cert(cfg, log, i, log[r][i].hash)
        /\ r \in Good(cfg)
    <2>1. hashOf(cfg.protocol, log[r][i]) = log[r][i].hash
      BY DEF hashOf
    <2>2. i \in DOMAIN log[r] /\ log[r][i].hash # Nil /\ Cert(cfg, log, i, log[r][i].hash)
      BY <1>3, <2>1, JobFacts
    <2> QED BY <1>1, <1>3, <2>2, CoreFacts DEF Alive
  <1>5. Frame
    BY <1>1, <1>2, SameFrame
  <1>6. Core' /\ Keeps(cfg, log, log')
    <2> HIDE DEF i
    <2>1. SL!exec(r, [log[r] EXCEPT ![i].status = SL!Committed])
      BY <1>2 DEF i
    <2> QED BY <1>4, <1>5, <2>1, SLCommits
  <1>7. NetOk(cfg, log', chan, jobs)
    BY <1>6, NetKept
  <1>8. NetOk(cfg, log', chan', jobs')
    BY <1>1, <1>2, <1>7, WithoutJobOk
  <1> QED BY <1>2, <1>6, <1>8, HandlerDone

LEMMA SLCommit ==
  ASSUME ClusterInv, cfg.protocol = "sbftslow", NEW r \in cfg.members, SL!onCommit(r)
  PROVE  ClusterInv'
  <1>1. /\ Core /\ cfg \in Scenarios /\ r \in Replicas /\ NetOk(cfg, log, chan, jobs)
        /\ cfg.protocol \in Hashed /\ log \in [Replicas -> Logs(cfg.protocol)]
    BY CoreFacts, ScenarioFacts DEF ClusterInv, Hashed
  <1>2. PICK m \in received(r, "CommitSlow") :
           \/ SL!Panic(r)
           \/ LET d == SL!instWith(r, m.index, m.val)
                  L == put(log[r], m.index, d)
              IN  /\ ~differs(r, m.index, "hash", m.val)
                  /\ log' = [log EXCEPT ![r] = L]
                  /\ jobs' = jobs \/ jobs' = withJob(r, [type |-> "Verify", index |-> m.index])
                  /\ chan' = popped(r)
                  /\ UNCHANGED <<cfg, requested, index, execIdx, executed, results, answered>>
    BY SLBridge DEF SL!onCommit
  <1> DEFINE i == m.index
             c == m.val
             d == SL!instWith(r, i, c)
             L == put(log[r], i, d)
             j == [type |-> "Verify", index |-> i]
  <1>3. r \in Alive /\ m \in OkMsgs(cfg, log) /\ m.type = "CommitSlow"
    BY <1>1, <1>2, ReceivedOk
  <1>4. i \in Nat /\ c \in Commands /\ Proposed(cfg, log, i, c) /\ Cert(cfg, log, i, c) /\ LeaderFine(cfg)
    BY <1>3, MsgFacts
  <1>5. r \in Good(cfg) /\ c # Nil
    BY <1>1, <1>3, <1>4, CoreFacts DEF Alive
  <1>6. CASE SL!Panic(r)
    BY <1>1, <1>6, SLEnds
  <1>7. CASE /\ ~differs(r, i, "hash", c) /\ chan' = popped(r)
             /\ UNCHANGED <<cfg, requested, index, execIdx, executed, results, answered>>
             /\ log' = [log EXCEPT ![r] = L] /\ (jobs' = jobs \/ jobs' = withJob(r, j))
    <2> HIDE DEF i, c
    <2>1. Frame
      BY <1>1, <1>7, SameFrame
    <2>2. HeldAs(cfg, log, r, i, c, d)
      BY <1>1, <1>4, <1>5, <1>7, SLHeld
    <2>3. d \in Instances(cfg.protocol) /\ d.hash = c /\ d.command \in {Nil, c}
      BY <2>2 DEF HeldAs
    <2> HIDE DEF d
    <2>4. LogStep(cfg, log, r, L)
      BY <1>1, <1>4, <1>5, <2>2, <2>3, HeldBinds
    <2>5. Core' /\ Keeps(cfg, log, log')
      <3> HIDE DEF L
      <3> QED BY <1>1, <1>4, <1>7, <2>1, <2>4, StoreStep
    <2>6. NetOk(cfg, log', chan, jobs)
      BY <2>5, NetKept
    <2>7. NetOk(cfg, log', chan', jobs)
      BY <1>1, <1>2, <1>7, <2>6, ReceivedOk
    <2>8. j \in OkJobs(cfg, log', r)
      <3>1. i \in DOMAIN log'[r] /\ log'[r][i] = d
        BY <1>1, <1>7 DEF put
      <3>2. hashOf(cfg.protocol, d) = c
        BY <2>3 DEF hashOf
      <3>3. Cert(cfg, log', i, c)
        BY <1>1, <1>4, <1>5, <2>5, CertMore DEF Keeps
      <3> QED BY <1>4, <1>5, <3>1, <3>2, <3>3, VerifyOk
    <2> HIDE DEF j, L
    <2>9. NetOk(cfg, log', chan', jobs')
      BY <1>1, <1>7, <2>7, <2>8, WithJobOk
    <2> QED BY <1>7, <2>5, <2>9, HandlerDone
  <1> QED BY <1>2, <1>6, <1>7

LEMMA SLResult ==
  ASSUME ClusterInv, cfg.protocol = "sbftslow", NEW r \in cfg.members, NEW c \in Commands, SL!stepResult(r, c)
  PROVE  ClusterInv'
  <1>1. /\ resultSent(r, c) /\ results' = [results EXCEPT ![c] = @ \cup {r}]
        /\ answered' = [answered EXCEPT ![c] = IF Cardinality(results[c]) + 1 > cfg.f THEN @ + 1 ELSE @]
        /\ UNCHANGED <<cfg, requested, index, log, chan, jobs, execIdx, executed>>
    BY SLBridge DEF SL!stepResult
  <1>2. Core /\ NetOk(cfg, log, chan, jobs) /\ answered \in [Commands -> Nat]
    BY DEF ClusterInv, Core, AnswersOk
  <1>3. answered[c] + 1 \in Nat
    BY <1>2
  <1>4. Core'
    BY <1>1, <1>2, <1>3, ResultStep
  <1> QED BY <1>1, <1>2, <1>4, HandlerDone

\* A faulty leader may propose anything, and certify what has a quorum.
LEMMA SLFaulty ==
  ASSUME ClusterInv, cfg.protocol = "sbftslow", NEW r, NEW i \in Nat, NEW c \in Commands,
         SL!FaultyPreprepare(r, i, c) \/ SL!FaultyCertificate(r, i, c)
  PROVE  ClusterInv'
  <1>1. /\ Core /\ LeaderFine(cfg) /\ cfg \in Scenarios /\ NetOk(cfg, log, chan, jobs)
        /\ requested \subseteq Commands /\ index \in [Replicas -> Nat] /\ Leader \in Replicas
    BY SLVotes, CoreFacts DEF ClusterInv
  <1>2. PICK type \in {"Preprepare", "Prepare", "CommitSlow"} :
           /\ Leader \in cfg.faulty /\ requested' \in {requested, requested \cup {c}}
           /\ type = "CommitSlow" => SL!Majority(SL!signers("cSigned", i, c))
           /\ chan' = sendTo({r}, [type |-> type, index |-> i, val |-> c])
           /\ UNCHANGED <<cfg, index, log, jobs, execIdx, executed, results, answered>>
    BY SLBridge DEF SL!FaultyPreprepare, SL!FaultyCertificate, SL!faultySends
  <1>3. Frame
    BY <1>1, <1>2 DEF Frame
  <1>4. Core'
    BY <1>1, <1>2, <1>3, StillStep
  <1>5. Proposed(cfg, log, i, c)
    BY <1>2 DEF Proposed, Proposer, Good
  <1>6. type = "CommitSlow" => Cert(cfg, log, i, c)
    BY <1>1, <1>2, SLVotes DEF Cert
  <1> DEFINE m == [type |-> type, index |-> i, val |-> c]
  <1>7. m \in OkMsgs(cfg, log)
    BY <1>1, <1>2, <1>5, <1>6, MsgOk
  <1> HIDE DEF m
  <1>8. NetOk(cfg, log', chan', jobs')
    BY <1>1, <1>2, <1>7, SendOk DEF m
  <1> QED BY <1>2, <1>4, <1>8, HandlerDone

LEMMA SLNext ==
  ASSUME ClusterInv, cfg.protocol = "sbftslow", SL!Next
  PROVE  ClusterInv'
  <1>1. cfg.members \subseteq Replicas /\ 0 .. MaxIndex - 1 \subseteq Nat
    BY CoreFacts, ScenarioFacts DEF ClusterInv
  <1>3. ASSUME SL!FaultyVote PROVE ClusterInv'
    BY <1>3, SLEnds, ClusterAssumption DEF SL!FaultyVote
  <1>2. ASSUME NEW i \in 0 .. MaxIndex - 1, SL!onSignShare(i) \/ SL!onCommitSig(i) PROVE ClusterInv'
    <2>1. i \in Nat
      BY <1>1
    <2>2. CASE SL!onSignShare(i)
      <3>1. SL!aggregate(i, "signed", 2, "Aggregate")
        BY <2>2 DEF SL!onSignShare, SL!SignShared
      <3> QED BY <2>1, <3>1, SLAggregate
    <2>3. CASE SL!onCommitSig(i)
      <3>1. SL!aggregate(i, "cSigned", 4, "AggregateSlow")
        BY <2>3 DEF SL!onCommitSig, SL!CommitSigShared
      <3> QED BY <2>1, <3>1, SLAggregate
    <2> QED BY <1>2, <2>2, <2>3
  <1> QED BY <1>1, <1>2, <1>3, SLRequest, SLResult, SLPreprepare, SLPrepare, SLCommit, SLVerified, SLEnds,
             SLAggregated, SLAggregatedSlow, SLFaulty
          DEF SL!Next

-----------------------------------------------------------------------------
(* MinBFT *)

LEMMA MBBridge ==
  /\ MB!Alive = Alive /\ MB!Correct = Correct
  /\ \A V : MB!Cardinality(V) = Cardinality(V)
  /\ \A to, m : MB!sendTo(to, m) = sendTo(to, m)
  /\ \A r, type : MB!received(r, type) = received(r, type)
  /\ \A r : MB!popped(r) = popped(r)
  /\ \A r, j : MB!withJob(r, j) = withJob(r, j)
  /\ \A r, j : MB!withoutJob(r, j) = withoutJob(r, j)
  /\ \A r, type : MB!pending(r, type) = pending(r, type)
  /\ \A K, i, e : MB!put(K, i, e) = put(K, i, e)
  /\ \A i, P : MB!loopEnd(i, P) = loopEnd(i, P)
  /\ \A r, i, field, val : MB!differs(r, i, field, val) <=> differs(r, i, field, val)
  /\ \A c : MB!newCommand(c) <=> newCommand(c)
  /\ \A r, c : MB!resultSent(r, c) => resultSent(r, c)
  <1>1. MB!Alive = Alive /\ MB!Correct = Correct
    BY DEF MB!Alive, MB!Correct, Alive, Correct
  <1>2. \A V : MB!Cardinality(V) = Cardinality(V)
    BY Zenon DEF MB!Cardinality, Cardinality
  <1>3. /\ \A to, m : MB!sendTo(to, m) = sendTo(to, m)
        /\ \A r, type : MB!received(r, type) = received(r, type)
        /\ \A r : MB!popped(r) = popped(r)
    BY <1>1 DEF MB!sendTo, sendTo, MB!received, received, MB!popped, popped
  <1>4. /\ \A r, j : MB!withJob(r, j) = withJob(r, j)
        /\ \A r, j : MB!withoutJob(r, j) = withoutJob(r, j)
        /\ \A r, type : MB!pending(r, type) = pending(r, type)
    BY <1>1 DEF MB!withJob, withJob, MB!withoutJob, withoutJob, MB!pending, pending, MB!withOne, withOne,
                MB!withoutOne, withoutOne
  <1>5. \A K, i, e : MB!put(K, i, e) = put(K, i, e)
    BY DEF MB!put, put
  <1>6. \A i, P : MB!loopEnd(i, P) = loopEnd(i, P)
    BY Zenon DEF MB!loopEnd, loopEnd, MB!Min, Min
  <1>7. \A r, i, field, val : MB!differs(r, i, field, val) <=> differs(r, i, field, val)
    BY DEF MB!differs, differs
  <1>8. \A c : MB!newCommand(c) <=> newCommand(c)
    BY <1>2 DEF MB!newCommand, newCommand
  <1>9. \A r, c : MB!resultSent(r, c) => resultSent(r, c)
    BY <1>1 DEF MB!resultSent, resultSent, MB!Range, Range
  <1> QED BY <1>1, <1>2, <1>3, <1>4, <1>5, <1>6, <1>7, <1>8, <1>9

LEMMA MBEnds ==
  ASSUME ClusterInv, NEW r \in Replicas, MB!Panic(r) \/ MB!Crash(r)
  PROVE  ClusterInv'
  <1>1. MB!stop(r)
    BY DEF MB!Panic, MB!Crash
  <1>2. stop(r)
    BY <1>1 DEF MB!stop, stop, MB!noJobs, noJobs
  <1> QED BY <1>2, StopStep

LEMMA MBExecutes ==
  ASSUME NEW e \in Instances("minbft"), e.commit
  PROVE  LET e2 == [e EXCEPT !.executed = TRUE]
         IN  /\ doneIn("minbft", e) /\ e.command \in Commands
             /\ e2 \in Instances("minbft") /\ Executes("minbft", e, e2)
  <1> DEFINE e2 == [e EXCEPT !.executed = TRUE]
  <1>1. e \in [command : Commands, prepared : BOOLEAN, commit : BOOLEAN, executed : BOOLEAN]
    BY DEF Instances
  <1>2. /\ e2 \in [command : Commands, prepared : BOOLEAN, commit : BOOLEAN, executed : BOOLEAN]
        /\ e2.command = e.command /\ e2.prepared = e.prepared
    BY <1>1
  <1>3. e.command \in Commands
    BY <1>1
  <1> HIDE DEF e2
  <1>4. doneIn("minbft", e)
    BY DEF doneIn
  <1>5. Executes("minbft", e, e2)
    BY <1>2, <1>4 DEF Executes, hashOf, votedIn
  <1>6. e2 \in Instances("minbft")
    BY <1>2 DEF Instances
  <1> QED BY <1>3, <1>4, <1>5, <1>6 DEF e2

LEMMA MBExec ==
  ASSUME Core, Frame, cfg.protocol = "minbft", NEW r, NEW L, LogStep(cfg, log, r, L), LeaderFine(cfg),
         MB!exec(r, L)
  PROVE  Core' /\ Keeps(cfg, log, log')
  <1> DEFINE P == {i \in DOMAIN L : L[i].commit}
             E == [i \in DOMAIN L |-> [L[i] EXCEPT !.executed = TRUE]]
             to == loopEnd(execIdx[r], P)
  <1>1. /\ log' = [log EXCEPT ![r] = Passed(L, E, execIdx[r], to)]
        /\ execIdx' = [execIdx EXCEPT ![r] = to] /\ to = loopEnd(execIdx[r], P)
        /\ executed' = [executed EXCEPT ![r] = @ \o CommandsOf(L, execIdx[r], to)]
    BY MBBridge DEF MB!exec, Passed, CommandsOf
  <1>2. Passes(cfg, L, P, E)
    <2> SUFFICES ASSUME NEW i \in P
                 PROVE  /\ doneIn("minbft", L[i]) /\ L[i].command \in Commands
                        /\ E[i] \in Instances("minbft") /\ Executes("minbft", L[i], E[i])
      BY DEF Passes
    <2>1. L[i] \in Instances("minbft") /\ L[i].commit
      BY LogType DEF LogStep
    <2>2. E[i] = [L[i] EXCEPT !.executed = TRUE]
      OBVIOUS
    <2> HIDE DEF P, E
    <2> QED BY <2>1, <2>2, MBExecutes
  <1> HIDE DEF P, E, to
  <1> QED BY <1>1, <1>2, ExecIs

\* The votes that MinBFT counts: with a correct leader all are for its command.
LEMMA MBVotes ==
  ASSUME Core, cfg.protocol = "minbft", Leader \in Good(cfg),
         NEW i \in Nat, NEW c \in Commands, Proposed(cfg, log, i, c)
  PROVE  MB!voters(i) = Voters(cfg, log, i, c)
  <1>1. /\ cfg \in Scenarios /\ Good(cfg) \subseteq Replicas /\ log \in [Replicas -> Logs(cfg.protocol)]
        /\ EntriesOk(cfg, log) /\ Nil \notin Commands
    BY CoreFacts, ScenarioFacts DEF Core, LogsOk
  <1>2. ASSUME NEW q \in Good(cfg), i \in DOMAIN log[q] PROVE log[q][i].command = c
    <2>1. log[q] \in Logs("minbft")
      BY <1>1
    <2>2. log[q][i] \in Instances("minbft")
      BY <1>2, <2>1, LogType
    <2>3. log[q][i].command \in Commands
      BY <2>2 DEF Instances
    <2>4. Entry(cfg, log, q, i, log[q][i])
      BY <1>1, <1>2 DEF EntriesOk
    <2>5. Proposed(cfg, log, i, log[q][i].command)
      BY <1>1, <2>3, <2>4 DEF Entry
    <2>6. Proposer(cfg, i) \in Good(cfg)
      BY DEF Proposer
    <2> QED BY <2>5, <2>6, SameProposal
  <1>3. MB!Correct = Good(cfg)
    BY MBBridge, CoreFacts
  <1> QED BY <1>2, <1>3 DEF MB!voters, Voters, votedIn, hashOf

LEMMA MBRequest ==
  ASSUME ClusterInv, cfg.protocol = "minbft", NEW c \in Commands, MB!onRequest(c)
  PROVE  ClusterInv'
  <1> DEFINE e == MB!makeInstance(c)
             i == index[Leader]
             m == [type |-> "Prepare", index |-> i, val |-> c]
  <1>1. Core /\ cfg \in Scenarios
    BY CoreFacts DEF ClusterInv
  <1>2. /\ Leader \in Alive /\ c \in Commands \ requested /\ requested' = requested \cup {c}
        /\ index' = [index EXCEPT ![Leader] = @ + 1] /\ log' = [log EXCEPT ![Leader] = put(@, i, e)]
        /\ chan' = sendTo(cfg.members \ {Leader}, m)
        /\ UNCHANGED <<cfg, jobs, execIdx, executed, results, answered>>
    BY MBBridge DEF MB!onRequest, newCommand
  <1>3. /\ e \in Instances(cfg.protocol) /\ e.command = c /\ hashOf(cfg.protocol, e) = c
        /\ ~doneIn(cfg.protocol, e) /\ votedIn(cfg.protocol, e)
    BY DEF MB!makeInstance, Instances, hashOf, doneIn, votedIn
  <1> HIDE DEF e
  <1>4. Proposes(cfg, log, Leader, i, e, c) /\ LeaderFine(cfg)
    BY <1>1, <1>2, <1>3, LeaderProposes
  <1>5. index' \in [Replicas -> Nat] /\ i \in Nat /\ index'[Leader] = i + 1
    BY <1>1, <1>2, CoreFacts
  <1> HIDE DEF i
  <1>6. Core' /\ Keeps(cfg, log, log') /\ Proposed(cfg, log', i, c)
    <2>1. i = index[Leader]
      BY DEF i
    <2> QED BY <1>1, <1>2, <1>4, <1>5, <2>1, ProposeStep
  <1>7. Leader \in Voters(cfg, log', i, c)
    <2>1. Leader \in Good(cfg) /\ log'[Leader] = put(log[Leader], i, e)
      BY <1>1, <1>2, CoreFacts DEF Alive
    <2>2. i \in DOMAIN log'[Leader] /\ log'[Leader][i] = e
      BY <2>1 DEF put
    <2> QED BY <1>3, <2>1, <2>2 DEF Voters
  <1>8. m \in OkMsgs(cfg, log')
    BY <1>4, <1>5, <1>6, <1>7, MsgOk
  <1> HIDE DEF m
  <1>9. NetOk(cfg, log', chan', jobs')
    BY <1>2, <1>6, <1>8, NetKept, SendOk
  <1> QED BY <1>2, <1>6, <1>9, HandlerDone

\* The end of onPrepare and onCommit, for instance e of r with command c.
LEMMA MBTally ==
  ASSUME Core, Frame, cfg.protocol = "minbft", LeaderFine(cfg), NEW r \in Good(cfg), NEW i \in Nat,
         NEW c \in Commands, Proposed(cfg, log, i, c),
         NEW e \in Instances("minbft"), e.command = c, ~e.commit,
         i \in DOMAIN log[r] /\ log[r][i].prepared => e.prepared,
         NEW votes, votes \subseteq Voters(cfg, log, i, c) \cup {r},
         MB!tally(r, i, put(log[r], i, e), votes)
  PROVE  Core' /\ Keeps(cfg, log, log')
  <1> DEFINE e2 == [e EXCEPT !.commit = TRUE]
             L == put(log[r], i, e)
             L2 == put(log[r], i, e2)
             lg2 == [log EXCEPT ![r] = L2]
  <1>1. /\ cfg \in Scenarios /\ log \in [Replicas -> Logs(cfg.protocol)] /\ EntriesOk(cfg, log)
        /\ cfg.f \in Nat /\ Nil \notin Commands
    BY CoreFacts, ScenarioFacts DEF Core, LogsOk
  <1>2. e \in [command : Commands, prepared : BOOLEAN, commit : BOOLEAN, executed : BOOLEAN]
    BY DEF Instances
  <1>3. /\ e2 \in [command : Commands, prepared : BOOLEAN, commit : BOOLEAN, executed : BOOLEAN]
        /\ e2.command = c /\ e2.prepared = e.prepared
    BY <1>2
  <1>4. i \in DOMAIN log[r] => log[r][i].command = c
    <2> SUFFICES ASSUME i \in DOMAIN log[r] PROVE log[r][i].command = c
      OBVIOUS
    <2>1. log[r] \in Logs("minbft")
      BY <1>1, ScenarioFacts
    <2>2. log[r][i] \in Instances("minbft")
      BY <2>1, LogType
    <2>3. log[r][i].command \in Commands
      BY <2>2 DEF Instances
    <2>4. Entry(cfg, log, r, i, log[r][i])
      BY <1>1 DEF EntriesOk
    <2>5. Proposed(cfg, log, i, log[r][i].command)
      BY <1>1, <2>3, <2>4 DEF Entry
    <2>6. Proposer(cfg, i) \in Good(cfg)
      BY DEF Proposer, LeaderFine
    <2> QED BY <2>5, <2>6, SameProposal
  <1>5. L = put(log[r], i, e) /\ L[i] = e
    BY DEF put
  <1>6. Over(L, i, e2) = L2
    BY PutTwice
  <1> HIDE DEF e2
  <1>7. Binds(cfg, log, r, i, c, e) /\ Binds(cfg, log, r, i, c, e2)
    <2>1. e \in Instances(cfg.protocol) /\ e2 \in Instances(cfg.protocol)
      BY <1>3 DEF Instances
    <2>2. \A x : (hashOf(cfg.protocol, x) = x.command) /\ (votedIn(cfg.protocol, x) = x.prepared)
      BY DEF hashOf, votedIn
    <2> QED BY <1>3, <1>4, <2>1, <2>2 DEF Binds
  <1>8. LogStep(cfg, log, r, L)
    <2>1. ~doneIn(cfg.protocol, e)
      BY DEF doneIn
    <2> QED BY <1>1, <1>7, <2>1, BindStep
  <1>9. CASE log' = [log EXCEPT ![r] = L] /\ UNCHANGED <<execIdx, executed>>
    <2> HIDE DEF L
    <2> QED BY <1>8, <1>9, StoreStep
  <1>10. CASE e.prepared /\ Cardinality(votes) > cfg.f /\ MB!exec(r, [L EXCEPT ![i].commit = TRUE])
    <2>1. votedIn(cfg.protocol, e2)
      BY <1>3, <1>10 DEF votedIn
    <2>2. Voters(cfg, log, i, c) \cup {r} \subseteq Voters(cfg, lg2, i, c)
      BY <1>1, <1>7, <2>1, BindVote
    <2>3. Cert(cfg, lg2, i, c)
      <3>1. votes \subseteq Voters(cfg, lg2, i, c) \cup Liars(cfg)
        BY <2>2
      <3>2. Cardinality(votes) \in Nat
        <4>1. votes \subseteq Replicas /\ IsFiniteSet(Replicas)
          <5>1. Good(cfg) \subseteq Replicas /\ IsFiniteSet(Replicas)
            BY <1>1, ScenarioFacts
          <5> QED BY <5>1 DEF Voters
        <4> QED BY <4>1, FS_Subset, FS_CardinalityType
      <3>3. Cardinality(votes) >= Need(cfg)
        BY <1>1, <1>10, <3>2 DEF Need
      <3> HIDE DEF lg2
      <3> QED BY <1>1, <3>1, <3>3, CertOf
    <2>4. LogStep(cfg, log, r, L2)
      BY <1>1, <1>7, <2>3, BindStep
    <2>5. [L EXCEPT ![i].commit = TRUE] = Over(L, i, e2)
      <3>1. [L EXCEPT ![i].commit = TRUE] = [L EXCEPT ![i] = [L[i] EXCEPT !.commit = TRUE]]
        BY Zenon
      <3> HIDE DEF L
      <3> QED BY <1>5, <3>1 DEF Over, e2
    <2>6. MB!exec(r, L2)
      BY <1>6, <1>10, <2>5
    <2> HIDE DEF L2
    <2> QED BY <2>4, <2>6, MBExec
  <1>11. \/ log' = [log EXCEPT ![r] = L] /\ UNCHANGED <<execIdx, executed>>
         \/ e.prepared /\ Cardinality(votes) > cfg.f /\ MB!exec(r, [L EXCEPT ![i].commit = TRUE])
    <2>1. MB!tally(r, i, L, votes)
      OBVIOUS
    <2> HIDE DEF L
    <2> QED BY <1>5, <2>1, MBBridge DEF MB!tally, MB!Majority
  <1> QED BY <1>9, <1>10, <1>11

LEMMA MBPrepare ==
  ASSUME ClusterInv, cfg.protocol = "minbft", NEW r \in cfg.members, MB!onPrepare(r)
  PROVE  ClusterInv'
  <1>1. Core /\ cfg \in Scenarios /\ r \in Replicas /\ NetOk(cfg, log, chan, jobs)
    BY CoreFacts, ScenarioFacts DEF ClusterInv
  <1>2. PICK m \in received(r, "Prepare") :
           /\ \E early \in SUBSET (MB!voters(m.index) \ {r}) :
                 MB!tally(r, m.index, put(log[r], m.index, MB!makeInstance(m.val)), early \cup {Leader, r})
           /\ index' = [index EXCEPT ![r] = Max({index[r], m.index + 1})]
           /\ chan' = popped(r)
           /\ UNCHANGED <<cfg, requested, jobs, results, answered>>
    <2>1. \A T : MB!Max(T) = Max(T)
      BY Zenon DEF MB!Max, Max
    <2> QED BY <2>1, MBBridge DEF MB!onPrepare
  <1> DEFINE i == m.index
             c == m.val
             e == MB!makeInstance(c)
  <1>3. r \in Alive /\ m \in OkMsgs(cfg, log)
    BY <1>1, <1>2, ReceivedOk
  <1>4. /\ i \in Nat /\ c \in Commands /\ Proposed(cfg, log, i, c) /\ r \in Good(cfg) /\ LeaderFine(cfg)
        /\ Leader \in Voters(cfg, log, i, c)
    BY <1>1, <1>3, MsgFacts, CoreFacts DEF Alive
  <1>5. PICK early \in SUBSET (MB!voters(i) \ {r}) : MB!tally(r, i, put(log[r], i, e), early \cup {Leader, r})
    BY <1>2
  <1>6. Frame
    <2>1. index \in [Replicas -> Nat] /\ requested \subseteq Commands /\ Leader \in Replicas
      BY <1>1, CoreFacts
    <2>2. Max({index[r], i + 1}) \in Nat /\ Max({index[r], i + 1}) >= index[r]
      BY <1>1, <1>4, <2>1, MaxOf
    <2>3. index' \in [Replicas -> Nat] /\ index'[Leader] >= index[Leader]
      BY <1>1, <1>2, <2>1, <2>2
    <2> QED BY <1>2, <2>1, <2>3 DEF Frame
  <1>7. Core' /\ Keeps(cfg, log, log')
    <2>1. MB!voters(i) = Voters(cfg, log, i, c)
      BY <1>1, <1>4, MBVotes DEF LeaderFine
    <2>2. e \in Instances("minbft") /\ e.command = c /\ ~e.commit /\ e.prepared
      BY <1>4 DEF MB!makeInstance, Instances
    <2> DEFINE votes == early \cup {Leader, r}
    <2>3. votes \subseteq Voters(cfg, log, i, c) \cup {r}
      BY <1>4, <2>1
    <2>4. MB!tally(r, i, put(log[r], i, e), votes)
      BY <1>5
    <2> HIDE DEF i, c, e, votes
    <2> QED BY <1>1, <1>4, <1>6, <2>2, <2>3, <2>4, MBTally
  <1>8. NetOk(cfg, log', chan, jobs)
    BY <1>7, NetKept
  <1>9. NetOk(cfg, log', chan', jobs')
    BY <1>1, <1>2, <1>8, ReceivedOk
  <1> QED BY <1>2, <1>7, <1>9, HandlerDone

LEMMA MBCommit ==
  ASSUME ClusterInv, cfg.protocol = "minbft", NEW r \in cfg.members, NEW i \in Nat, MB!onCommit(r, i)
  PROVE  ClusterInv'
  <1>1. Core /\ cfg \in Scenarios /\ r \in Replicas /\ NetOk(cfg, log, chan, jobs)
    BY CoreFacts, ScenarioFacts DEF ClusterInv
  <1>2. /\ r \in Good(cfg) /\ i \in DOMAIN log[r] /\ ~log[r][i].commit /\ MB!tally(r, i, log[r], MB!voters(i))
        /\ UNCHANGED <<cfg, requested, index, chan, jobs, results, answered>>
    BY <1>1, MBBridge, CoreFacts DEF MB!onCommit, MB!open, Alive
  <1> DEFINE e == log[r][i]
             c == e.command
  <1>3. log[r] \in Logs("minbft") /\ EntriesOk(cfg, log)
    BY <1>1, CoreFacts DEF Core, LogsOk
  <1>4. e \in Instances("minbft") /\ put(log[r], i, e) = log[r]
    BY <1>2, <1>3, LogType, PutSame
  <1>5. c \in Commands /\ c # Nil
    BY <1>4, ClusterAssumption DEF Instances
  <1>6. Proposed(cfg, log, i, c)
    BY <1>2, <1>3, <1>5 DEF EntriesOk, Entry
  <1>7. LeaderFine(cfg)
    BY <1>1, <1>2, FineOf
  <1>8. MB!voters(i) = Voters(cfg, log, i, c)
    BY <1>1, <1>5, <1>6, <1>7, MBVotes DEF LeaderFine
  <1>9. Frame
    BY <1>1, <1>2, SameFrame
  <1>10. Core' /\ Keeps(cfg, log, log')
    <2> DEFINE votes == MB!voters(i)
    <2>1. votes \subseteq Voters(cfg, log, i, c) \cup {r} /\ MB!tally(r, i, put(log[r], i, e), votes)
      BY <1>2, <1>4, <1>8
    <2>2. ~e.commit /\ e.command = c /\ (log[r][i].prepared => e.prepared)
      BY <1>2
    <2> HIDE DEF votes, c, e
    <2> QED BY <1>1, <1>2, <1>4, <1>5, <1>6, <1>7, <1>9, <2>1, <2>2, MBTally
  <1>11. NetOk(cfg, log', chan', jobs')
    BY <1>2, <1>10, NetKept
  <1> QED BY <1>2, <1>10, <1>11, HandlerDone

LEMMA MBNext ==
  ASSUME ClusterInv, cfg.protocol = "minbft", MB!Next
  PROVE  ClusterInv'
  <1>1. cfg.members \subseteq Replicas /\ 0 .. MaxIndex - 1 \subseteq Nat
    BY CoreFacts, ScenarioFacts DEF ClusterInv
  <1> QED BY <1>1, MBRequest, MBPrepare, MBCommit, MBEnds DEF MB!Next

-----------------------------------------------------------------------------
(* Hybster *)

LEMMA HBridge ==
  /\ H!Alive = Alive /\ H!Correct = Correct
  /\ \A V : H!Cardinality(V) = Cardinality(V)
  /\ \A to, m : H!sendTo(to, m) = sendTo(to, m)
  /\ \A r, type : H!received(r, type) = received(r, type)
  /\ \A r : H!popped(r) = popped(r)
  /\ \A r, j : H!withJob(r, j) = withJob(r, j)
  /\ \A r, j : H!withoutJob(r, j) = withoutJob(r, j)
  /\ \A r, type : H!pending(r, type) = pending(r, type)
  /\ \A K, i, e : H!put(K, i, e) = put(K, i, e)
  /\ \A i, P : H!loopEnd(i, P) = loopEnd(i, P)
  /\ \A r, i, field, val : H!differs(r, i, field, val) <=> differs(r, i, field, val)
  /\ \A c : H!newCommand(c) <=> newCommand(c)
  /\ \A r, c : H!resultSent(r, c) => resultSent(r, c)
  <1>1. H!Alive = Alive /\ H!Correct = Correct
    BY DEF H!Alive, H!Correct, Alive, Correct
  <1>2. \A V : H!Cardinality(V) = Cardinality(V)
    BY Zenon DEF H!Cardinality, Cardinality
  <1>3. /\ \A to, m : H!sendTo(to, m) = sendTo(to, m)
        /\ \A r, type : H!received(r, type) = received(r, type)
        /\ \A r : H!popped(r) = popped(r)
    BY <1>1 DEF H!sendTo, sendTo, H!received, received, H!popped, popped
  <1>4. /\ \A r, j : H!withJob(r, j) = withJob(r, j)
        /\ \A r, j : H!withoutJob(r, j) = withoutJob(r, j)
        /\ \A r, type : H!pending(r, type) = pending(r, type)
    BY <1>1 DEF H!withJob, withJob, H!withoutJob, withoutJob, H!pending, pending, H!withOne, withOne,
                H!withoutOne, withoutOne
  <1>5. \A K, i, e : H!put(K, i, e) = put(K, i, e)
    BY DEF H!put, put
  <1>6. \A i, P : H!loopEnd(i, P) = loopEnd(i, P)
    BY Zenon DEF H!loopEnd, loopEnd, H!Min, Min
  <1>7. \A r, i, field, val : H!differs(r, i, field, val) <=> differs(r, i, field, val)
    BY DEF H!differs, differs
  <1>8. \A c : H!newCommand(c) <=> newCommand(c)
    BY <1>2 DEF H!newCommand, newCommand
  <1>9. \A r, c : H!resultSent(r, c) => resultSent(r, c)
    BY <1>1 DEF H!resultSent, resultSent, H!Range, Range
  <1> QED BY <1>1, <1>2, <1>3, <1>4, <1>5, <1>6, <1>7, <1>8, <1>9

LEMMA HEnds ==
  ASSUME ClusterInv, NEW r \in Replicas, H!Panic(r) \/ H!Crash(r)
  PROVE  ClusterInv'
  <1>1. H!stop(r)
    BY DEF H!Panic, H!Crash
  <1>2. stop(r)
    BY <1>1 DEF H!stop, stop, H!noJobs, noJobs
  <1> QED BY <1>2, StopStep

\* The instances of Hybster.
HRecord == [command : Value, hash : Value, prepared : BOOLEAN, commit : BOOLEAN, executed : BOOLEAN,
            quorum : SUBSET Replicas]

\* Log K has the votes of L.
SameVotes(K, L) ==
    /\ DOMAIN K = DOMAIN L
    /\ \A j \in DOMAIN L : K[j].hash = L[j].hash /\ K[j].quorum = L[j].quorum /\ K[j].prepared = L[j].prepared

LEMMA HExecutes ==
  ASSUME NEW e \in Instances("hybster"), e.commit, e.command # Nil
  PROVE  LET e2 == [e EXCEPT !.command = Nil, !.executed = TRUE]
         IN  /\ doneIn("hybster", e) /\ e.command \in Commands
             /\ e2 \in Instances("hybster") /\ Executes("hybster", e, e2)
  <1> DEFINE e2 == [e EXCEPT !.command = Nil, !.executed = TRUE]
  <1>1. e \in HRecord
    BY DEF Instances, HRecord
  <1>2. e2 \in HRecord /\ e2.command = Nil /\ e2.hash = e.hash /\ e2.prepared = e.prepared
    BY <1>1 DEF Value, HRecord
  <1>3. e.command \in Commands
    BY <1>1 DEF Value, HRecord
  <1> HIDE DEF e2
  <1>4. doneIn("hybster", e)
    BY DEF doneIn
  <1>5. Executes("hybster", e, e2)
    BY <1>2, <1>4 DEF Executes, hashOf, votedIn
  <1>6. e2 \in Instances("hybster")
    BY <1>2 DEF Instances, HRecord
  <1> QED BY <1>3, <1>4, <1>5, <1>6 DEF e2

LEMMA HExec ==
  ASSUME Core, Frame, cfg.protocol = "hybster", NEW r, NEW L, LogStep(cfg, log, r, L), LeaderFine(cfg),
         H!exec(r, L)
  PROVE  /\ Core' /\ Keeps(cfg, log, log')
         /\ SameVotes(log'[r], L) /\ \A q \in Replicas : q # r => log'[q] = log[q]
  <1> DEFINE P == {i \in DOMAIN L : L[i].commit /\ L[i].command # Nil}
             E == [i \in DOMAIN L |-> [L[i] EXCEPT !.command = Nil, !.executed = TRUE]]
             to == loopEnd(execIdx[r], P)
             K == Passed(L, E, execIdx[r], to)
  <1>1. /\ log' = [log EXCEPT ![r] = K]
        /\ execIdx' = [execIdx EXCEPT ![r] = to] /\ to = loopEnd(execIdx[r], P)
        /\ executed' = [executed EXCEPT ![r] = @ \o CommandsOf(L, execIdx[r], to)]
    BY HBridge DEF H!exec, Passed, CommandsOf
  <1>2. \A i \in DOMAIN L : L[i] \in Instances("hybster")
    BY LogType DEF LogStep
  <1>3. Passes(cfg, L, P, E)
    <2> SUFFICES ASSUME NEW i \in P
                 PROVE  /\ doneIn("hybster", L[i]) /\ L[i].command \in Commands
                        /\ E[i] \in Instances("hybster") /\ Executes("hybster", L[i], E[i])
      BY DEF Passes
    <2>1. L[i] \in Instances("hybster") /\ L[i].commit /\ L[i].command # Nil
      BY <1>2
    <2>2. E[i] = [L[i] EXCEPT !.command = Nil, !.executed = TRUE]
      OBVIOUS
    <2> HIDE DEF P, E
    <2> QED BY <2>1, <2>2, HExecutes
  <1>4. SameVotes(K, L)
    <2>1. ASSUME NEW j \in DOMAIN L
          PROVE  E[j].hash = L[j].hash /\ E[j].quorum = L[j].quorum /\ E[j].prepared = L[j].prepared
      <3>1. L[j] \in HRecord
        BY <1>2 DEF Instances, HRecord
      <3>2. E[j] = [L[j] EXCEPT !.command = Nil, !.executed = TRUE]
        OBVIOUS
      <3> HIDE DEF E
      <3> QED BY <3>1, <3>2 DEF HRecord
    <2>2. DOMAIN K = DOMAIN L /\ \A j \in DOMAIN L : K[j] = E[j] \/ K[j] = L[j]
      BY DEF Passed
    <2> HIDE DEF K, E
    <2> QED BY <2>1, <2>2 DEF SameVotes
  <1>5. DOMAIN log = Replicas /\ r \in Replicas
    BY CoreFacts DEF LogStep
  <1> HIDE DEF P, E, to, K
  <1>6. log'[r] = K /\ \A q \in Replicas : q # r => log'[q] = log[q]
    BY <1>1, <1>5
  <1>7. Core' /\ Keeps(cfg, log, log')
    BY <1>1, <1>3, ExecIs DEF K
  <1> QED BY <1>4, <1>6, <1>7

LEMMA HHeld ==
  ASSUME Core, cfg.protocol = "hybster", NEW r \in Good(cfg), NEW i \in Nat, NEW c \in Commands,
         Proposed(cfg, log, i, c), ~differs(r, i, "hash", c), QuorumsOk(cfg, log)
  PROVE  /\ HeldAs(cfg, log, r, i, c, H!instWith(r, i, c))
         /\ H!instWith(r, i, c).quorum \subseteq Voters(cfg, log, i, c)
  <1> DEFINE fresh == H!makeInstance(Nil, c)
             e == H!instWith(r, i, c)
  <1>1. /\ cfg \in Scenarios /\ cfg.protocol \in Hashed /\ log \in [Replicas -> Logs(cfg.protocol)]
        /\ EntriesOk(cfg, log) /\ c # Nil /\ r \in Replicas
    BY CoreFacts DEF Core, LogsOk, Hashed
  <1>2. i \in DOMAIN log[r] => log[r][i].hash \in {Nil, c}
    BY DEF differs
  <1>3. /\ fresh \in Instances(cfg.protocol) /\ fresh.hash = c /\ fresh.command = Nil
        /\ ~votedIn(cfg.protocol, fresh) /\ ~doneIn(cfg.protocol, fresh) /\ fresh.quorum = {}
    BY DEF H!makeInstance, Instances, Value, votedIn, doneIn
  <1>4. e = IF i \in DOMAIN log[r] THEN [log[r][i] EXCEPT !.hash = c] ELSE fresh
    BY DEF H!instWith
  <1> HIDE DEF e, fresh
  <1>5. HeldAs(cfg, log, r, i, c, e)
    BY <1>1, <1>2, <1>3, <1>4, HeldOk
  <1>6. e.quorum \subseteq Voters(cfg, log, i, c)
    <2>1. CASE i \notin DOMAIN log[r]
      BY <1>3, <1>4, <2>1
    <2>2. CASE i \in DOMAIN log[r]
      <3>1. log[r][i].hash = c /\ log[r][i].quorum \subseteq Voters(cfg, log, i, c)
        BY <1>2, <2>2 DEF QuorumsOk
      <3>2. log[r][i] \in HRecord
        <4>1. log[r] \in Logs("hybster")
          BY <1>1
        <4> QED BY <2>2, <4>1, LogType DEF Instances, HRecord
      <3>3. e = [log[r][i] EXCEPT !.hash = c]
        BY <1>4, <2>2
      <3>4. e.quorum = log[r][i].quorum
        BY <3>2, <3>3 DEF HRecord
      <3> QED BY <3>1, <3>4
    <2> QED BY <2>1, <2>2
  <1> QED BY <1>5, <1>6 DEF e

\* The quorums after a step of r that has put e as instance i.
LEMMA HQuorums ==
  ASSUME NEW s \in Scenarios, s.protocol = "hybster", NEW lg, NEW lg2, Keeps(s, lg, lg2), QuorumsOk(s, lg),
         NEW r \in Good(s), NEW i, NEW c, c # Nil, NEW e, e.hash = c,
         SameVotes(lg2[r], put(lg[r], i, e)), \A q \in Replicas : q # r => lg2[q] = lg[q],
         e.quorum \subseteq Voters(s, lg, i, c) \cup {r},
         r \in e.quorum \ Voters(s, lg, i, c) => e.prepared
  PROVE  QuorumsOk(s, lg2) /\ (e.prepared => r \in Voters(s, lg2, i, c))
  <1> DEFINE L == put(lg[r], i, e)
  <1>1. /\ DOMAIN L = DOMAIN lg[r] \cup {i} /\ L[i] = e
        /\ \A j \in DOMAIN lg[r] : j # i => L[j] = lg[r][j]
    BY DEF put
  <1>2. SameVotes(lg2[r], L) /\ Good(s) \subseteq Replicas
    BY ScenarioFacts
  <1> HIDE DEF L
  <1>3. i \in DOMAIN lg2[r] /\ lg2[r][i].hash = c /\ lg2[r][i].quorum = e.quorum /\ lg2[r][i].prepared = e.prepared
    BY <1>1, <1>2 DEF SameVotes
  <1>4. e.prepared => r \in Voters(s, lg2, i, c)
    BY <1>3 DEF Voters, votedIn, hashOf
  <1>5. \A j, d : d # Nil => Voters(s, lg, j, d) \subseteq Voters(s, lg2, j, d)
    BY DEF Keeps
  <1>6. e.quorum \subseteq Voters(s, lg2, i, c)
    BY <1>4, <1>5
  <1>7. \A q \in Good(s) : \A j \in DOMAIN lg[q] : lg[q][j].hash # Nil /\ lg[q][j].quorum \subseteq Voters(s, lg, j, lg[q][j].hash)
    BY DEF QuorumsOk
  <1>8. ASSUME NEW q \in Good(s), NEW j \in DOMAIN lg2[q]
        PROVE  lg2[q][j].hash # Nil /\ lg2[q][j].quorum \subseteq Voters(s, lg2, j, lg2[q][j].hash)
    <2>1. CASE q = r /\ j = i
      BY <1>3, <1>6, <2>1
    <2>2. CASE q = r /\ j # i
      <3>1. j \in DOMAIN lg[r] /\ lg2[r][j].hash = lg[r][j].hash /\ lg2[r][j].quorum = lg[r][j].quorum
        BY <1>1, <1>2, <2>2 DEF SameVotes
      <3>2. lg[r][j].hash # Nil /\ lg[r][j].quorum \subseteq Voters(s, lg, j, lg[r][j].hash)
        BY <1>7, <3>1
      <3> QED BY <1>5, <2>2, <3>1, <3>2
    <2>3. CASE q # r
      <3>1. lg2[q] = lg[q]
        BY <1>2, <2>3
      <3>2. lg[q][j].hash # Nil /\ lg[q][j].quorum \subseteq Voters(s, lg, j, lg[q][j].hash)
        BY <1>7, <3>1
      <3> QED BY <1>5, <3>1, <3>2
    <2> QED BY <2>1, <2>2, <2>3
  <1> QED BY <1>4, <1>8 DEF QuorumsOk

\* The end of onPrepare and onCommit, for the instance e that they have made of d.
LEMMA HTally ==
  ASSUME Core, Frame, cfg.protocol = "hybster", LeaderFine(cfg), QuorumsOk(cfg, log),
         NEW r \in Good(cfg), NEW i \in Nat, NEW c \in Commands, Proposed(cfg, log, i, c),
         NEW d, HeldAs(cfg, log, r, i, c, d), NEW e \in Instances("hybster"), e.hash = c, e.command \in {Nil, c},
         d.prepared => e.prepared, e.commit => d.commit,
         e.quorum \subseteq Voters(cfg, log, i, c) \cup {r},
         r \in e.quorum \ Voters(cfg, log, i, c) => e.prepared,
         H!tally(r, i, e)
  PROVE  /\ Core' /\ Keeps(cfg, log, log') /\ QuorumsOk(cfg, log')
         /\ e.prepared => r \in Voters(cfg, log', i, c)
  <1> DEFINE e2 == [e EXCEPT !.commit = TRUE]
             L == put(log[r], i, e)
             L2 == put(log[r], i, e2)
             lg2 == [log EXCEPT ![r] = L2]
  <1>1. /\ cfg \in Scenarios /\ log \in [Replicas -> Logs(cfg.protocol)] /\ EntriesOk(cfg, log)
        /\ cfg.f \in Nat /\ c # Nil /\ r \in Replicas /\ cfg.protocol \in Hashed
    BY CoreFacts, ScenarioFacts DEF Core, LogsOk, Hashed
  <1>2. e \in HRecord
    BY DEF Instances, HRecord
  <1>3. /\ e2 \in HRecord /\ e2.command = e.command /\ e2.prepared = e.prepared /\ e2.hash = c /\ e2.quorum = e.quorum
    BY <1>2 DEF HRecord
  <1> HIDE DEF e2
  <1>4. e2 \in Instances("hybster")
    BY <1>3 DEF Instances, HRecord
  <1>5. /\ \A x : (votedIn(cfg.protocol, x) = x.prepared) /\ (doneIn(cfg.protocol, x) = x.commit)
        /\ \A x : hashOf(cfg.protocol, x) = x.hash
    BY DEF votedIn, doneIn, hashOf
  <1>6. \/ log' = [log EXCEPT ![r] = L] /\ UNCHANGED <<execIdx, executed>>
        \/ e.prepared /\ Cardinality(e.quorum) > cfg.f /\ H!exec(r, L2)
    BY HBridge DEF H!tally, H!Majority, e2
  <1>7. CASE log' = [log EXCEPT ![r] = L] /\ UNCHANGED <<execIdx, executed>>
    <2>1. LogStep(cfg, log, r, L)
      BY <1>1, <1>5, HeldBinds
    <2> HIDE DEF L
    <2>2. Core' /\ Keeps(cfg, log, log')
      BY <1>7, <2>1, StoreStep
    <2>3. log'[r] = L /\ \A q \in Replicas : q # r => log'[q] = log[q]
      BY <1>1, <1>7
    <2>4. SameVotes(log'[r], put(log[r], i, e))
      BY <2>3 DEF SameVotes, L
    <2> DEFINE lg3 == log'
    <2>5. /\ Keeps(cfg, log, lg3) /\ SameVotes(lg3[r], put(log[r], i, e))
          /\ \A q \in Replicas : q # r => lg3[q] = log[q]
      BY <2>2, <2>3, <2>4
    <2> HIDE DEF lg3
    <2>6. QuorumsOk(cfg, lg3) /\ (e.prepared => r \in Voters(cfg, lg3, i, c))
      BY <1>1, <2>5, HQuorums
    <2> QED BY <2>2, <2>6 DEF lg3
  <1>8. CASE e.prepared /\ Cardinality(e.quorum) > cfg.f /\ H!exec(r, L2)
    <2>1. Binds(cfg, log, r, i, c, e2) /\ votedIn(cfg.protocol, e2)
      <3>1. i \in DOMAIN log[r] => log[r][i].hash \in {Nil, c}
        BY DEF HeldAs
      <3> QED BY <1>3, <1>4, <1>5, <1>8, <3>1 DEF Binds
    <2>2. Voters(cfg, log, i, c) \cup {r} \subseteq Voters(cfg, lg2, i, c)
      BY <1>1, <2>1, BindVote
    <2>3. Cert(cfg, lg2, i, c)
      <3>1. e.quorum \subseteq Voters(cfg, lg2, i, c) \cup Liars(cfg)
        BY <2>2
      <3>2. Cardinality(e.quorum) \in Nat
        <4>1. e.quorum \subseteq Replicas /\ IsFiniteSet(Replicas)
          BY <1>1, <1>2, ScenarioFacts DEF HRecord
        <4> QED BY <4>1, FS_Subset, FS_CardinalityType
      <3>3. Cardinality(e.quorum) >= Need(cfg)
        BY <1>1, <1>8, <3>2 DEF Need
      <3> HIDE DEF lg2
      <3> QED BY <1>1, <3>1, <3>3, CertOf
    <2>4. LogStep(cfg, log, r, L2)
      <3>1. e2 \in Instances(cfg.protocol) /\ e2.hash = c /\ e2.command \in {Nil, c}
            /\ (votedIn(cfg.protocol, d) => votedIn(cfg.protocol, e2))
        BY <1>3, <1>4, <2>1
      <3> QED BY <1>1, <2>3, <3>1, HeldBinds
    <2>5. /\ Core' /\ Keeps(cfg, log, log')
          /\ SameVotes(log'[r], L2) /\ \A q \in Replicas : q # r => log'[q] = log[q]
      <3> HIDE DEF L2
      <3> QED BY <1>8, <2>4, HExec
    <2> DEFINE lg3 == log'
    <2>6. /\ Keeps(cfg, log, lg3) /\ SameVotes(lg3[r], put(log[r], i, e2))
          /\ \A q \in Replicas : q # r => lg3[q] = log[q]
      BY <2>5
    <2>7. e2.quorum \subseteq Voters(cfg, log, i, c) \cup {r} /\ e2.prepared /\ e2.hash = c
      BY <1>3, <1>8
    <2> HIDE DEF lg3
    <2>8. QuorumsOk(cfg, lg3) /\ (e2.prepared => r \in Voters(cfg, lg3, i, c))
      BY <1>1, <2>6, <2>7, HQuorums
    <2> QED BY <2>5, <2>7, <2>8 DEF lg3
  <1> QED BY <1>6, <1>7, <1>8

LEMMA HRequest ==
  ASSUME ClusterInv, cfg.protocol = "hybster", NEW c \in Commands, H!onRequest(c)
  PROVE  ClusterInv'
  <1> DEFINE e == [H!makeInstance(c, c) EXCEPT !.prepared = TRUE, !.quorum = {Leader}]
             i == index[Leader]
             m == [type |-> "Prepare", index |-> i, val |-> c]
  <1>1. Core /\ cfg \in Scenarios /\ QuorumsOk(cfg, log) /\ Leader \in Replicas /\ c # Nil /\ DOMAIN log = Replicas
    BY CoreFacts DEF ClusterInv
  <1>2. /\ Leader \in Alive /\ c \in Commands \ requested /\ requested' = requested \cup {c}
        /\ index' = [index EXCEPT ![Leader] = @ + 1] /\ log' = [log EXCEPT ![Leader] = put(@, i, e)]
        /\ chan' = sendTo(cfg.members \ {Leader}, m)
        /\ UNCHANGED <<cfg, jobs, execIdx, executed, results, answered>>
    BY HBridge DEF H!onRequest, newCommand
  <1>3. e \in HRecord /\ e.command = c /\ e.hash = c /\ e.prepared /\ ~e.commit /\ e.quorum = {Leader}
    BY <1>1 DEF H!makeInstance, HRecord, Value
  <1> HIDE DEF e
  <1>31. /\ e \in Instances(cfg.protocol) /\ hashOf(cfg.protocol, e) = c
         /\ ~doneIn(cfg.protocol, e) /\ votedIn(cfg.protocol, e)
    BY <1>3 DEF Instances, HRecord, hashOf, doneIn, votedIn
  <1>4. Proposes(cfg, log, Leader, i, e, c) /\ LeaderFine(cfg)
    BY <1>1, <1>2, <1>3, <1>31, LeaderProposes
  <1>5. index' \in [Replicas -> Nat] /\ i \in Nat /\ index'[Leader] = i + 1
    BY <1>1, <1>2, CoreFacts
  <1> HIDE DEF i
  <1>6. Core' /\ Keeps(cfg, log, log') /\ Proposed(cfg, log', i, c)
    <2>1. i = index[Leader]
      BY DEF i
    <2> QED BY <1>1, <1>2, <1>4, <1>5, <2>1, ProposeStep
  <1>7. QuorumsOk(cfg, log') /\ Leader \in Voters(cfg, log', i, c)
    <2> DEFINE lg2 == log'
    <2>1. lg2[Leader] = put(log[Leader], i, e) /\ \A q \in Replicas : q # Leader => lg2[q] = log[q]
      BY <1>1, <1>2
    <2>2. SameVotes(lg2[Leader], put(log[Leader], i, e))
      BY <2>1 DEF SameVotes
    <2>3. Leader \in Good(cfg)
      BY <1>4, <1>1 DEF LeaderFine
    <2>4. Keeps(cfg, log, lg2)
      BY <1>6
    <2> HIDE DEF lg2
    <2>5. QuorumsOk(cfg, lg2) /\ (e.prepared => Leader \in Voters(cfg, lg2, i, c))
      BY <1>1, <1>3, <2>1, <2>2, <2>3, <2>4, HQuorums
    <2> QED BY <1>3, <2>5 DEF lg2
  <1>8. m \in OkMsgs(cfg, log')
    BY <1>4, <1>5, <1>6, <1>7, MsgOk
  <1> HIDE DEF m
  <1>9. NetOk(cfg, log', chan', jobs')
    BY <1>2, <1>6, <1>8, NetKept, SendOk
  <1> QED BY <1>2, <1>6, <1>7, <1>9 DEF ClusterInv

\* A vote may go to every replica once it is cast.
LEMMA HVote ==
  ASSUME NEW s, NEW lg, NEW ch, NetOk(s, lg, ch, jobs), NEW r \in Replicas, NEW i \in Nat, NEW c \in Commands,
         r \in Voters(s, lg, i, c)
  PROVE  NetOk(s, lg, ch, H!vote(r, i, c))
  <1> DEFINE j == [type |-> "Commit", from |-> r, index |-> i, hash |-> c]
             jb == H!vote(r, i, c)
  <1>1. DOMAIN jobs = Replicas /\ \A q \in Replicas : DOMAIN jobs[q] \subseteq OkJobs(s, lg, q)
    BY DEF NetOk
  <1>2. j \in [type : {"Commit"}, from : Replicas, index : Nat, hash : Commands] /\ j.from = r /\ j.index = i /\ j.hash = c
    OBVIOUS
  <1>3. DOMAIN jb = Replicas /\ \A q \in Replicas : jb[q] = withOne(jobs[q], j) \/ jb[q] = jobs[q]
    BY DEF H!vote, H!withOne, withOne
  <1> HIDE DEF j, jb
  <1>4. j \in VoteJobs(s, lg)
    BY <1>2 DEF VoteJobs
  <1>5. \A q \in Replicas : DOMAIN withOne(jobs[q], j) = DOMAIN jobs[q] \cup {j}
    BY BagAdd
  <1>6. \A q \in Replicas : DOMAIN jb[q] \subseteq OkJobs(s, lg, q)
    <2> SUFFICES ASSUME NEW q \in Replicas PROVE DOMAIN jb[q] \subseteq OkJobs(s, lg, q)
      OBVIOUS
    <2>1. j \in OkJobs(s, lg, q)
      BY <1>4 DEF OkJobs
    <2> QED BY <1>1, <1>3, <1>5, <2>1
  <1>7. NetOk(s, lg, ch, jb)
    BY <1>3, <1>6 DEF NetOk
  <1> QED BY <1>7 DEF jb

LEMMA HFrame ==
  ASSUME Core, UNCHANGED <<cfg, requested, results, answered>>, NEW r \in Replicas, NEW i \in Nat,
         index' = [index EXCEPT ![r] = H!Max({@, i + 1})]
  PROVE  Frame
  <1>1. index \in [Replicas -> Nat] /\ requested \subseteq Commands /\ Leader \in Replicas
    BY CoreFacts
  <1>2. \A T : H!Max(T) = Max(T)
    BY Zenon DEF H!Max, Max
  <1>3. Max({index[r], i + 1}) \in Nat /\ Max({index[r], i + 1}) >= index[r]
    BY <1>1, MaxOf
  <1>4. index' = [index EXCEPT ![r] = Max({index[r], i + 1})]
    BY <1>1, <1>2
  <1>5. index' \in [Replicas -> Nat] /\ index'[Leader] >= index[Leader]
    BY <1>1, <1>3, <1>4
  <1> QED BY <1>1, <1>5 DEF Frame

LEMMA HPrepare ==
  ASSUME ClusterInv, cfg.protocol = "hybster", NEW r \in cfg.members, H!onPrepare(r)
  PROVE  ClusterInv'
  <1>1. Core /\ cfg \in Scenarios /\ r \in Replicas /\ NetOk(cfg, log, chan, jobs) /\ QuorumsOk(cfg, log)
    BY CoreFacts, ScenarioFacts DEF ClusterInv
  <1>2. PICK m \in received(r, "Prepare") :
           \/ H!Panic(r)
           \/ LET old == H!instWith(r, m.index, m.val)
              IN  /\ ~differs(r, m.index, "hash", m.val)
                  /\ H!tally(r, m.index, [old EXCEPT !.command = m.val, !.prepared = TRUE,
                                                     !.quorum = @ \cup {Leader, r}])
                  /\ index' = [index EXCEPT ![r] = H!Max({@, m.index + 1})]
                  /\ jobs' = H!vote(r, m.index, m.val)
                  /\ chan' = popped(r)
                  /\ UNCHANGED <<cfg, requested, results, answered>>
    BY HBridge DEF H!onPrepare
  <1> DEFINE i == m.index
             c == m.val
             d == H!instWith(r, i, c)
             e == [d EXCEPT !.command = c, !.prepared = TRUE, !.quorum = @ \cup {Leader, r}]
  <1>3. r \in Alive /\ m \in OkMsgs(cfg, log)
    BY <1>1, <1>2, ReceivedOk
  <1>4. /\ i \in Nat /\ c \in Commands /\ Proposed(cfg, log, i, c) /\ r \in Good(cfg) /\ LeaderFine(cfg)
        /\ Leader \in Voters(cfg, log, i, c)
    BY <1>1, <1>3, MsgFacts, CoreFacts DEF Alive
  <1>5. CASE H!Panic(r)
    BY <1>1, <1>5, HEnds
  <1>6. CASE /\ ~differs(r, i, "hash", c) /\ H!tally(r, i, e)
             /\ index' = [index EXCEPT ![r] = H!Max({@, i + 1})]
             /\ jobs' = H!vote(r, i, c) /\ chan' = popped(r)
             /\ UNCHANGED <<cfg, requested, results, answered>>
    <2> HIDE DEF i, c
    <2>1. Frame
      BY <1>1, <1>4, <1>6, HFrame
    <2>2. HeldAs(cfg, log, r, i, c, d) /\ d.quorum \subseteq Voters(cfg, log, i, c)
      BY <1>1, <1>4, <1>6, HHeld
    <2>3. d \in HRecord /\ d.hash = c /\ Leader \in Replicas /\ c \in Value
      BY <1>1, <1>4, <2>2, CoreFacts DEF HeldAs, Instances, HRecord, Value
    <2> HIDE DEF d
    <2>4. e \in HRecord /\ e.hash = c /\ e.command = c /\ e.prepared /\ e.commit = d.commit /\ e.quorum = d.quorum \cup {Leader, r}
      BY <1>1, <2>3 DEF HRecord
    <2> HIDE DEF e
    <2>5. e \in Instances("hybster") /\ e.quorum \subseteq Voters(cfg, log, i, c) \cup {r}
      BY <1>4, <2>2, <2>4 DEF Instances, HRecord
    <2>6. /\ Core' /\ Keeps(cfg, log, log') /\ QuorumsOk(cfg, log') /\ r \in Voters(cfg, log', i, c)
      BY <1>1, <1>4, <1>6, <2>1, <2>2, <2>4, <2>5, HTally
    <2>7. NetOk(cfg, log', chan, jobs)
      BY <2>6, NetKept
    <2>8. NetOk(cfg, log', popped(r), jobs)
      BY <1>1, <1>2, <2>7, ReceivedOk
    <2>9. NetOk(cfg, log', popped(r), H!vote(r, i, c))
      BY <1>1, <1>4, <2>6, <2>8, HVote
    <2> QED BY <1>6, <2>6, <2>9 DEF ClusterInv
  <1> QED BY <1>2, <1>5, <1>6

LEMMA HCommit ==
  ASSUME ClusterInv, cfg.protocol = "hybster", NEW r \in cfg.members, H!onCommit(r)
  PROVE  ClusterInv'
  <1>1. Core /\ cfg \in Scenarios /\ r \in Replicas /\ NetOk(cfg, log, chan, jobs) /\ QuorumsOk(cfg, log)
        /\ EntriesOk(cfg, log)
    BY CoreFacts, ScenarioFacts DEF ClusterInv, Core, LogsOk
  <1>2. PICK m \in pending(r, "Commit") :
           \/ H!Panic(r)
           \/ LET old == H!instWith(r, m.index, m.hash)
              IN  /\ ~differs(r, m.index, "hash", m.hash)
                  /\ H!tally(r, m.index, [old EXCEPT !.quorum = @ \cup {m.from}])
                  /\ index' = [index EXCEPT ![r] = H!Max({@, m.index + 1})]
                  /\ jobs' = withoutJob(r, m)
                  /\ UNCHANGED <<cfg, requested, chan, results, answered>>
    BY HBridge DEF H!onCommit
  <1> DEFINE i == m.index
             c == m.hash
             v == m.from
             d == H!instWith(r, i, c)
             e == [d EXCEPT !.quorum = @ \cup {v}]
  <1>3. r \in Alive /\ m \in OkJobs(cfg, log, r) /\ m.type = "Commit"
    BY <1>1, <1>2, PendingOk
  <1>4. /\ i \in Nat /\ c \in Commands /\ v \in Replicas /\ v \in Voters(cfg, log, i, c)
    BY <1>3, JobFacts
  <1>41. Proposed(cfg, log, i, c) /\ r \in Good(cfg) /\ LeaderFine(cfg)
    <2>1. Proposed(cfg, log, i, c)
      BY <1>1, <1>4, VotedIsProposed
    <2>2. v \in Good(cfg) /\ DOMAIN log[v] # {}
      BY <1>4 DEF Voters
    <2> QED BY <1>1, <1>3, <2>1, <2>2, CoreFacts, FineOf DEF Alive
  <1>5. CASE H!Panic(r)
    BY <1>1, <1>5, HEnds
  <1>6. CASE /\ ~differs(r, i, "hash", c) /\ H!tally(r, i, e)
             /\ index' = [index EXCEPT ![r] = H!Max({@, i + 1})]
             /\ jobs' = withoutJob(r, m)
             /\ UNCHANGED <<cfg, requested, chan, results, answered>>
    <2> HIDE DEF i, c, v
    <2>1. Frame
      BY <1>1, <1>4, <1>6, HFrame
    <2>2. HeldAs(cfg, log, r, i, c, d) /\ d.quorum \subseteq Voters(cfg, log, i, c)
      BY <1>1, <1>4, <1>41, <1>6, HHeld
    <2>3. d \in HRecord /\ d.hash = c /\ d.command \in {Nil, c}
      BY <2>2 DEF HeldAs, Instances, HRecord
    <2> HIDE DEF d
    <2>4. e \in HRecord /\ e.hash = c /\ e.command = d.command /\ e.prepared = d.prepared /\ e.commit = d.commit /\ e.quorum = d.quorum \cup {v}
      BY <1>4, <2>3 DEF HRecord
    <2> HIDE DEF e
    <2>5. e \in Instances("hybster") /\ e.quorum \subseteq Voters(cfg, log, i, c)
      BY <1>4, <2>2, <2>4 DEF Instances, HRecord
    <2>6. /\ Core' /\ Keeps(cfg, log, log') /\ QuorumsOk(cfg, log')
      BY <1>1, <1>4, <1>41, <1>6, <2>1, <2>2, <2>3, <2>4, <2>5, HTally
    <2>7. NetOk(cfg, log', chan, jobs)
      BY <2>6, NetKept
    <2>8. NetOk(cfg, log', chan, withoutJob(r, m))
      BY <1>1, <2>7, WithoutJobOk
    <2> QED BY <1>6, <2>6, <2>8 DEF ClusterInv
  <1> QED BY <1>2, <1>5, <1>6

LEMMA HNext ==
  ASSUME ClusterInv, cfg.protocol = "hybster", H!Next
  PROVE  ClusterInv'
  <1>1. cfg.members \subseteq Replicas
    BY CoreFacts, ScenarioFacts DEF ClusterInv
  <1> QED BY <1>1, HRequest, HPrepare, HCommit, HEnds DEF H!Next

-----------------------------------------------------------------------------
(* MirBFT *)

LEMMA MBridge ==
  /\ M!Alive = Alive /\ M!Correct = Correct
  /\ \A V : M!Cardinality(V) = Cardinality(V)
  /\ \A to, m : M!sendTo(to, m) = sendTo(to, m)
  /\ \A r, type : M!received(r, type) = received(r, type)
  /\ \A r : M!popped(r) = popped(r)
  /\ \A r, j : M!withJob(r, j) = withJob(r, j)
  /\ \A r, j : M!withoutJob(r, j) = withoutJob(r, j)
  /\ \A r, type : M!pending(r, type) = pending(r, type)
  /\ \A K, i, e : M!put(K, i, e) = put(K, i, e)
  /\ \A i, P : M!loopEnd(i, P) = loopEnd(i, P)
  /\ \A r, i, field, val : M!differs(r, i, field, val) <=> differs(r, i, field, val)
  /\ \A c : M!newCommand(c) <=> newCommand(c)
  /\ \A r, c : M!resultSent(r, c) => resultSent(r, c)
  <1>1. M!Alive = Alive /\ M!Correct = Correct
    BY DEF M!Alive, M!Correct, Alive, Correct
  <1>2. \A V : M!Cardinality(V) = Cardinality(V)
    BY Zenon DEF M!Cardinality, Cardinality
  <1>3. /\ \A to, m : M!sendTo(to, m) = sendTo(to, m)
        /\ \A r, type : M!received(r, type) = received(r, type)
        /\ \A r : M!popped(r) = popped(r)
    BY <1>1 DEF M!sendTo, sendTo, M!received, received, M!popped, popped
  <1>4. /\ \A r, j : M!withJob(r, j) = withJob(r, j)
        /\ \A r, j : M!withoutJob(r, j) = withoutJob(r, j)
        /\ \A r, type : M!pending(r, type) = pending(r, type)
    BY <1>1 DEF M!withJob, withJob, M!withoutJob, withoutJob, M!pending, pending, M!withOne, withOne,
                M!withoutOne, withoutOne
  <1>5. \A K, i, e : M!put(K, i, e) = put(K, i, e)
    BY DEF M!put, put
  <1>6. \A i, P : M!loopEnd(i, P) = loopEnd(i, P)
    BY Zenon DEF M!loopEnd, loopEnd, M!Min, Min
  <1>7. \A r, i, field, val : M!differs(r, i, field, val) <=> differs(r, i, field, val)
    BY DEF M!differs, differs
  <1>8. \A c : M!newCommand(c) <=> newCommand(c)
    BY <1>2 DEF M!newCommand, newCommand
  <1>9. \A r, c : M!resultSent(r, c) => resultSent(r, c)
    BY <1>1 DEF M!resultSent, resultSent, M!Range, Range
  <1> QED BY <1>1, <1>2, <1>3, <1>4, <1>5, <1>6, <1>7, <1>8, <1>9

LEMMA MEnds ==
  ASSUME ClusterInv, NEW r \in Replicas, M!Panic(r) \/ M!Crash(r)
  PROVE  ClusterInv'
  <1>1. M!stop(r)
    BY DEF M!Panic, M!Crash
  <1>2. stop(r)
    BY <1>1 DEF M!stop, stop, M!noJobs, noJobs
  <1> QED BY <1>2, StopStep

LEMMA MExecutes ==
  ASSUME NEW e \in Instances("mirbft"), e.status = "Committed", e.command # Nil
  PROVE  LET e2 == [e EXCEPT !.command = Nil, !.status = "Executed"]
         IN  /\ doneIn("mirbft", e) /\ e.command \in Commands /\ e2.status = "Executed"
             /\ e2 \in Instances("mirbft") /\ Executes("mirbft", e, e2)
  <1> DEFINE e2 == [e EXCEPT !.command = Nil, !.status = "Executed"]
             T == {"PrePrepared", "Prepared", "Committed", "Executed"}
  <1>1. e \in [status : T, command : Value, val : Commands]
    BY DEF Instances
  <1>2. /\ e2 \in [status : T, command : Value, val : Commands]
        /\ e2.command = Nil /\ e2.val = e.val /\ e2.status = "Executed"
    BY <1>1 DEF Value
  <1>3. e.command \in Commands
    BY <1>1 DEF Value
  <1> HIDE DEF e2
  <1>4. doneIn("mirbft", e)
    BY DEF doneIn
  <1>5. Executes("mirbft", e, e2)
    BY <1>2, <1>4 DEF Executes, hashOf, votedIn
  <1>6. e2 \in Instances("mirbft")
    BY <1>2 DEF Instances
  <1> QED BY <1>2, <1>3, <1>4, <1>5, <1>6 DEF e2

\* Log K has the instances of L, some of them executed.
MPassed(K, L) ==
    DOMAIN K = DOMAIN L /\ \A j \in DOMAIN L : K[j] = L[j] \/ K[j].status = "Executed"

LEMMA MExec ==
  ASSUME Core, Frame, cfg.protocol = "mirbft", NEW r, NEW L, LogStep(cfg, log, r, L), LeaderFine(cfg),
         \A i \in DOMAIN L : L[i].status # "Executed" => L[i].command # Nil, M!exec(r, L)
  PROVE  /\ Core' /\ Keeps(cfg, log, log')
         /\ MPassed(log'[r], L) /\ \A q \in Replicas : q # r => log'[q] = log[q]
  <1> DEFINE P == {i \in DOMAIN L : L[i].status = "Committed"}
             E == [i \in DOMAIN L |-> [L[i] EXCEPT !.command = Nil, !.status = "Executed"]]
             to == loopEnd(execIdx[r], P)
             K == Passed(L, E, execIdx[r], to)
  <1>1. /\ log' = [log EXCEPT ![r] = K]
        /\ execIdx' = [execIdx EXCEPT ![r] = to] /\ to = loopEnd(execIdx[r], P)
        /\ executed' = [executed EXCEPT ![r] = @ \o CommandsOf(L, execIdx[r], to)]
    BY MBridge DEF M!exec, Passed, CommandsOf
  <1>2. \A i \in DOMAIN L : L[i] \in Instances("mirbft")
    BY LogType DEF LogStep
  <1>3. ASSUME NEW i \in P
        PROVE  /\ doneIn("mirbft", L[i]) /\ L[i].command \in Commands
               /\ E[i] \in Instances("mirbft") /\ Executes("mirbft", L[i], E[i]) /\ E[i].status = "Executed"
    <2>1. L[i] \in Instances("mirbft") /\ L[i].status = "Committed" /\ L[i].command # Nil
      BY <1>2
    <2>2. E[i] = [L[i] EXCEPT !.command = Nil, !.status = "Executed"]
      OBVIOUS
    <2> HIDE DEF P, E
    <2> QED BY <2>1, <2>2, MExecutes
  <1>4. Passes(cfg, L, P, E)
    BY <1>3 DEF Passes
  <1>5. DOMAIN log = Replicas /\ r \in Replicas /\ execIdx[r] \in 0 .. MaxIndex
    BY CoreFacts DEF LogStep
  <1>6. MPassed(K, L)
    <2>1. \A j \in execIdx[r] .. to - 1 : j \in P
      <3> HIDE DEF P
      <3> QED BY <1>5, LoopEnd
    <2>2. DOMAIN K = DOMAIN L /\ \A j \in DOMAIN L : (K[j] = E[j] /\ j \in P) \/ K[j] = L[j]
      <3> HIDE DEF P, E, to
      <3> QED BY <2>1 DEF Passed
    <2> HIDE DEF K, E, P
    <2> QED BY <1>3, <2>2 DEF MPassed
  <1> HIDE DEF P, E, to, K
  <1>7. log'[r] = K /\ \A q \in Replicas : q # r => log'[q] = log[q]
    BY <1>1, <1>5
  <1>8. Core' /\ Keeps(cfg, log, log')
    BY <1>1, <1>4, ExecIs DEF K
  <1> QED BY <1>6, <1>7, <1>8

\* The commit votes that r counts for instance i: those sent, and its own.
QuorumWith(s, lg, r, i, c) ==
    \E V \in SUBSET (Voters(s, lg, i, c) \cup Liars(s) \cup {r}) : Cardinality(V) >= Need(s)

LEMMA MVotes ==
  ASSUME Core, cfg.protocol = "mirbft"
  PROVE  /\ \A i, c : M!commitVoters(i, c) = Voters(cfg, log, i, c) \cup Liars(cfg)
         /\ \A V \in SUBSET Replicas : M!Majority(V) => Cardinality(V) >= Need(cfg)
         /\ \A i : M!leaderOfSeq(i) = Proposer(cfg, i)
         /\ LeaderFine(cfg) /\ cfg.protocol # "hybster"
  <1>1. M!Correct = Good(cfg)
    BY MBridge, CoreFacts
  <1>2. \A i, c : M!commitVoters(i, c) = Voters(cfg, log, i, c) \cup Liars(cfg)
    BY <1>1 DEF M!commitVoters, M!has, Voters, Liars, votedIn, hashOf
  <1>3. ASSUME NEW V \in SUBSET Replicas, M!Majority(V) PROVE Cardinality(V) >= Need(cfg)
    <2>1. cfg \in Scenarios
      BY CoreFacts
    <2>2. cfg.f \in Nat /\ IsFiniteSet(Replicas)
      BY <2>1, ScenarioFacts
    <2>3. Cardinality(V) \in Nat
      BY <2>2, FS_Subset, FS_CardinalityType
    <2>4. Cardinality(V) > 2 * cfg.f
      BY <1>3, MBridge DEF M!Majority
    <2> QED BY <2>2, <2>3, <2>4 DEF Need
  <1>4. \A i : M!leaderOfSeq(i) = Proposer(cfg, i)
    BY MBridge DEF M!leaderOfSeq, M!N, Proposer
  <1> QED BY <1>2, <1>3, <1>4 DEF LeaderFine

LEMMA MStatuses ==
  ASSUME Core, cfg.protocol = "mirbft", NEW r \in Good(cfg), NEW i, NEW c, NEW from,
         NEW status \in M!statuses(r, i, c, from)
  PROVE  /\ status \in {"PrePrepared", "Prepared", "Committed"}
         /\ status = "Committed" => QuorumWith(cfg, log, r, i, c)
  <1>1. status \in {"PrePrepared", "Prepared", "Committed"}
    BY DEF M!statuses
  <1>2. ASSUME status = "Committed" PROVE QuorumWith(cfg, log, r, i, c)
    <2>1. PICK v \in SUBSET M!commitVoters(i, c) : M!Majority(v \cup {r})
      BY <1>2 DEF M!statuses
    <2>2. v \cup {r} \subseteq Voters(cfg, log, i, c) \cup Liars(cfg) \cup {r}
      BY MVotes
    <2>3. v \cup {r} \in SUBSET Replicas
      <3>1. Good(cfg) \subseteq Replicas /\ Liars(cfg) \subseteq Replicas
        BY CoreFacts, ScenarioFacts
      <3> QED BY <2>2, <3>1 DEF Voters
    <2>4. Cardinality(v \cup {r}) >= Need(cfg)
      BY <2>1, <2>3, MVotes
    <2> QED BY <2>2, <2>4 DEF QuorumWith
  <1> QED BY <1>1, <1>2

\* The shared end of the handlers: r stores inst, with its new status, as instance i.
LEMMA MStore ==
  ASSUME Core, Frame, cfg.protocol = "mirbft", MirOk(cfg, log, index), index' = index,
         NEW r \in Good(cfg), NEW i \in Nat, NEW c \in Commands, Proposed(cfg, log, i, c),
         Proposer(cfg, i) \in cfg.clients, i \notin DOMAIN log[r] => Proposer(cfg, i) # r,
         NEW status \in {"PrePrepared", "Prepared", "Committed"},
         status = "Committed" => QuorumWith(cfg, log, r, i, c),
         NEW inst \in Instances("mirbft"), inst.val = c, inst.command = c,
         i \in DOMAIN log[r] => log[r][i].val = c /\ (log[r][i].status # "PrePrepared" => status # "PrePrepared"),
         M!store(r, i, status, inst)
  PROVE  Core' /\ Keeps(cfg, log, log') /\ MirOk(cfg, log', index')
  <1> DEFINE e == [inst EXCEPT !.status = status]
             L == put(log[r], i, e)
             T == {"PrePrepared", "Prepared", "Committed", "Executed"}
             lg2 == [log EXCEPT ![r] = L]
  <1>1. /\ cfg \in Scenarios /\ log \in [Replicas -> Logs(cfg.protocol)] /\ EntriesOk(cfg, log)
        /\ c # Nil /\ r \in Replicas /\ Good(cfg) \subseteq Replicas
    BY CoreFacts, ScenarioFacts DEF Core, LogsOk
  <1>2. inst \in [status : T, command : Value, val : Commands]
    BY DEF Instances
  <1>3. e \in [status : T, command : Value, val : Commands] /\ e.status = status /\ e.command = c /\ e.val = c
    BY <1>2
  <1>4. \/ log' = [log EXCEPT ![r] = L] /\ UNCHANGED <<execIdx, executed>>
        \/ M!exec(r, L)
    BY MBridge DEF M!store
  <1> HIDE DEF e
  <1>5. Binds(cfg, log, r, i, c, e)
    <2>1. e \in Instances(cfg.protocol)
      BY <1>3 DEF Instances
    <2>2. \A x : (hashOf(cfg.protocol, x) = x.val) /\ (votedIn(cfg.protocol, x) = (x.status # "PrePrepared"))
      BY DEF hashOf, votedIn
    <2> QED BY <1>3, <2>1, <2>2 DEF Binds
  <1>6. doneIn(cfg.protocol, e) => Cert(cfg, lg2, i, c)
    <2> SUFFICES ASSUME doneIn(cfg.protocol, e) PROVE Cert(cfg, lg2, i, c)
      OBVIOUS
    <2>1. e.status = "Committed" /\ votedIn(cfg.protocol, e)
      BY <1>3 DEF doneIn, votedIn
    <2>2. PICK V \in SUBSET (Voters(cfg, log, i, c) \cup Liars(cfg) \cup {r}) : Cardinality(V) >= Need(cfg)
      BY <1>3, <2>1 DEF QuorumWith
    <2>3. Voters(cfg, log, i, c) \cup {r} \subseteq Voters(cfg, lg2, i, c)
      BY <1>1, <1>5, <2>1, BindVote
    <2> HIDE DEF lg2
    <2>4. V \subseteq Voters(cfg, lg2, i, c) \cup Liars(cfg)
      BY <2>2, <2>3
    <2> QED BY <1>1, <2>2, <2>4, CertOf
  <1>7. LogStep(cfg, log, r, L)
    BY <1>1, <1>5, <1>6, BindStep
  <1>8. LeaderFine(cfg)
    BY MVotes
  <1>9. /\ DOMAIN L = DOMAIN log[r] \cup {i} /\ L[i] = e /\ \A j \in DOMAIN log[r] : j # i => L[j] = log[r][j]
    BY DEF put
  <1> HIDE DEF L
  <1>10. \A q \in Good(cfg) : \A j \in DOMAIN log[q] : MirEntry(cfg, index, q, j, log[q][j])
    BY DEF MirOk
  <1>11. \A j \in DOMAIN L : MirEntry(cfg, index, r, j, L[j])
    <2> SUFFICES ASSUME NEW j \in DOMAIN L PROVE MirEntry(cfg, index, r, j, L[j])
      OBVIOUS
    <2>1. CASE j # i
      BY <1>9, <1>10, <2>1
    <2>2. CASE j = i
      <3>1. e.status # "Executed" => e.command # Nil
        BY <1>1, <1>3
      <3>2. Proposer(cfg, i) = r => i < NextOf(cfg, index, r)
        <4>1. CASE i \in DOMAIN log[r]
          BY <1>10, <4>1 DEF MirEntry
        <4> QED BY <4>1
      <3> QED BY <1>9, <2>2, <3>1, <3>2 DEF MirEntry
    <2> QED BY <2>1, <2>2
  <1>12. /\ Core' /\ Keeps(cfg, log, log')
         /\ MPassed(log'[r], L) /\ \A q \in Replicas : q # r => log'[q] = log[q]
    <2>1. CASE log' = [log EXCEPT ![r] = L] /\ UNCHANGED <<execIdx, executed>>
      <3>1. Core' /\ Keeps(cfg, log, log')
        BY <1>7, <1>8, <2>1, StoreStep
      <3>2. log'[r] = L /\ \A q \in Replicas : q # r => log'[q] = log[q]
        BY <1>1, <2>1
      <3> QED BY <3>1, <3>2 DEF MPassed
    <2>2. CASE M!exec(r, L)
      <3>1. \A j \in DOMAIN L : L[j].status # "Executed" => L[j].command # Nil
        BY <1>11 DEF MirEntry
      <3> QED BY <1>7, <1>8, <2>2, <3>1, MExec
    <2> QED BY <1>4, <2>1, <2>2
  <1>13. MirOk(cfg, log', index)
    <2> SUFFICES ASSUME NEW q \in Good(cfg), NEW j \in DOMAIN log'[q] PROVE MirEntry(cfg, index, q, j, log'[q][j])
      BY DEF MirOk
    <2>1. CASE q # r
      BY <1>1, <1>10, <1>12, <2>1
    <2>2. CASE q = r
      <3>1. j \in DOMAIN L /\ (log'[r][j] = L[j] \/ log'[r][j].status = "Executed")
        BY <1>12, <2>2 DEF MPassed
      <3>2. MirEntry(cfg, index, r, j, L[j])
        BY <1>11, <3>1
      <3> QED BY <2>2, <3>1, <3>2 DEF MirEntry
    <2> QED BY <2>1, <2>2
  <1> QED BY <1>12, <1>13

LEMMA MRequest ==
  ASSUME ClusterInv, MirOk(cfg, log, index), cfg.protocol = "mirbft", NEW r \in cfg.members,
         NEW c \in Commands, M!onRequest(r, c)
  PROVE  ClusterInv' /\ MirOk(cfg, log', index') /\ cfg' = cfg
  <1> DEFINE e == M!instance("PrePrepared", c)
             i == NextOf(cfg, index, r)
  <1>1. /\ Core /\ cfg \in Scenarios /\ LeaderFine(cfg) /\ r \in Replicas /\ index \in [Replicas -> Nat]
        /\ DOMAIN log = Replicas /\ Good(cfg) \subseteq Replicas /\ c # Nil
        /\ log \in [Replicas -> Logs(cfg.protocol)]
    BY MVotes, CoreFacts, ScenarioFacts DEF ClusterInv
  <1>2. /\ r \in Alive /\ r \in cfg.clients /\ c \in Commands \ requested /\ requested' = requested \cup {c}
        /\ index' = [index EXCEPT ![r] = @ + 1] /\ log' = [log EXCEPT ![r] = put(@, i, e)]
        /\ UNCHANGED <<cfg, chan, jobs, execIdx, executed, results, answered>>
    BY MBridge DEF M!onRequest, M!rest, M!id, M!N, newCommand, NextOf, Id
  <1>3. r \in Good(cfg) /\ index[r] \in Nat
    BY <1>1, <1>2, CoreFacts DEF Alive
  <1>4. i \in Nat /\ Proposer(cfg, i) = r
    BY <1>1, <1>3, MNextOf
  <1>5. e.command = c /\ e.val = c /\ e.status = "PrePrepared"
        /\ e \in [status : {"PrePrepared", "Prepared", "Committed", "Executed"}, command : Value, val : Commands]
    BY DEF M!instance, Value
  <1> HIDE DEF e
  <1>6. i \notin DOMAIN log[r]
    <2>1. ASSUME i \in DOMAIN log[r] PROVE i < NextOf(cfg, index, r)
      BY <1>3, <1>4, <2>1 DEF MirOk, MirEntry
    <2>2. ~(i < i)
      BY <1>4
    <2> QED BY <2>1, <2>2
  <1>7. Proposes(cfg, log, r, i, e, c)
    <2>1. e \in Instances(cfg.protocol) /\ hashOf(cfg.protocol, e) = c /\ ~doneIn(cfg.protocol, e)
      BY <1>5 DEF Instances, hashOf, doneIn
    <2> QED BY <1>1, <1>3, <1>4, <1>5, <1>6, <2>1 DEF Proposes
  <1>8. i = NextOf(cfg, index, r)
    OBVIOUS
  <1> HIDE DEF i
  <1>9. index' \in [Replicas -> Nat] /\ index'[r] = index[r] + 1 /\ \A q \in Replicas : q # r => index'[q] = index[q]
    BY <1>1, <1>2
  <1>10. Core' /\ Keeps(cfg, log, log')
    BY <1>1, <1>2, <1>7, <1>9, ProposeStep
  <1>11. NetOk(cfg, log', chan', jobs')
    BY <1>2, <1>10, NetKept
  <1>12. ClusterInv'
    BY <1>2, <1>10, <1>11, HandlerDone
  <1>13. MirOk(cfg, log', index')
    <2> SUFFICES ASSUME NEW q \in Good(cfg), NEW j \in DOMAIN log'[q] PROVE MirEntry(cfg, index', q, j, log'[q][j])
      BY DEF MirOk
    <2>1. CASE q # r
      <3>1. log'[q] = log[q] /\ NextOf(cfg, index', q) = NextOf(cfg, index, q)
        BY <1>1, <1>2, <1>9, <2>1 DEF NextOf
      <3>2. MirEntry(cfg, index, q, j, log[q][j])
        BY <3>1 DEF MirOk
      <3> QED BY <3>1, <3>2 DEF MirEntry
    <2>2. CASE q = r
      <3> DEFINE iy == index'
      <3>1. iy[r] = index[r] + 1
        BY <1>9
      <3>2. NextOf(cfg, iy, r) \in Nat /\ NextOf(cfg, iy, r) > i
        <4> HIDE DEF iy
        <4> QED BY <1>1, <1>3, <1>8, <3>1, MNextOf
      <3>3. log'[r] = put(log[r], i, e)
        BY <1>1, <1>2
      <3>4. CASE j = i
        <4>1. log'[r][j] = e
          BY <3>3, <3>4 DEF put
        <4> HIDE DEF iy
        <4>2. MirEntry(cfg, iy, r, i, e)
          BY <1>1, <1>2, <1>4, <1>5, <3>2 DEF MirEntry
        <4> QED BY <2>2, <3>4, <4>1, <4>2 DEF iy
      <3>5. CASE j # i
        <4>1. j \in DOMAIN log[r] /\ log'[r][j] = log[r][j]
          BY <2>2, <3>3, <3>5 DEF put
        <4>2. MirEntry(cfg, index, r, j, log[r][j])
          BY <1>3, <4>1 DEF MirOk
        <4>3. j \in Nat
          <5>1. log[r] \in Logs(cfg.protocol)
            BY <1>1
          <5> QED BY <4>1, <5>1, LogType
        <4> HIDE DEF iy
        <4>4. Proposer(cfg, j) = r => j < NextOf(cfg, iy, r)
          BY <1>4, <1>8, <3>2, <4>2, <4>3 DEF MirEntry
        <4>5. MirEntry(cfg, iy, r, j, log[r][j])
          BY <4>2, <4>4 DEF MirEntry
        <4> QED BY <2>2, <4>1, <4>5 DEF iy
      <3> QED BY <3>4, <3>5
    <2> QED BY <2>1, <2>2
  <1> QED BY <1>2, <1>12, <1>13

LEMMA MPrePrepare ==
  ASSUME ClusterInv, MirOk(cfg, log, index), cfg.protocol = "mirbft", NEW r \in cfg.members, NEW i \in Nat,
         NEW c \in Commands, M!onPrePrepare(r, i, c)
  PROVE  ClusterInv' /\ MirOk(cfg, log', index') /\ cfg' = cfg
  <1>1. /\ Core /\ cfg \in Scenarios /\ requested \subseteq Commands /\ index \in [Replicas -> Nat]
        /\ Leader \in Replicas /\ EntriesOk(cfg, log) /\ log \in [Replicas -> Logs(cfg.protocol)] /\ c # Nil
    BY CoreFacts DEF ClusterInv, Core, LogsOk
  <1> DEFINE from == Proposer(cfg, i)
  <1>2. /\ r \in Alive \ {from} /\ from \in cfg.clients /\ i \notin DOMAIN log[r]
        /\ from \in Correct => i \in DOMAIN log[from] /\ log[from][i].val = c
        /\ \E status \in M!statuses(r, i, c, from) : M!store(r, i, status, M!instance(status, c))
        /\ requested' = requested \cup {c}
        /\ UNCHANGED <<index, cfg, chan, jobs, results, answered>>
    BY <1>1, MVotes, MBridge DEF M!onPrePrepare, M!has, M!rest
  <1>3. r \in Good(cfg) /\ Correct = Good(cfg)
    BY <1>1, <1>2, CoreFacts DEF Alive
  <1>4. PICK status \in M!statuses(r, i, c, from) : M!store(r, i, status, M!instance(status, c))
    BY <1>2
  <1>5. status \in {"PrePrepared", "Prepared", "Committed"} /\ (status = "Committed" => QuorumWith(cfg, log, r, i, c))
    <2> HIDE DEF from
    <2> QED BY <1>1, <1>3, MStatuses
  <1>6. Proposed(cfg, log, i, c)
    <2> SUFFICES ASSUME from \in Good(cfg) PROVE i \in DOMAIN log[from] /\ PropOf(cfg.protocol, log[from][i]) = c
      BY DEF Proposed
    <2>1. i \in DOMAIN log[from] /\ log[from][i].val = c
      BY <1>2, <1>3
    <2>2. Entry(cfg, log, from, i, log[from][i]) /\ hashOf(cfg.protocol, log[from][i]) = c
      BY <1>1, <2>1 DEF EntriesOk, hashOf
    <2> QED BY <1>1, <2>1, <2>2 DEF Entry, PropOf
  <1> DEFINE inst == M!instance(status, c)
  <1>7. inst \in Instances("mirbft") /\ inst.val = c /\ inst.command = c
    BY <1>5 DEF M!instance, Instances, Value
  <1>8. Frame
    <2>1. requested' \subseteq Commands /\ requested \subseteq requested' /\ index[Leader] \in Nat
      BY <1>1, <1>2
    <2> QED BY <1>1, <1>2, <2>1 DEF Frame
  <1>9. Core' /\ Keeps(cfg, log, log') /\ MirOk(cfg, log', index')
    <2>1. /\ M!store(r, i, status, inst) /\ Proposer(cfg, i) \in cfg.clients /\ Proposer(cfg, i) # r
          /\ i \notin DOMAIN log[r] /\ index' = index
      BY <1>2, <1>4
    <2> HIDE DEF inst, from
    <2> QED BY <1>1, <1>3, <1>5, <1>6, <1>7, <1>8, <2>1, MStore
  <1>10. NetOk(cfg, log', chan', jobs')
    BY <1>2, <1>9, NetKept
  <1> QED BY <1>2, <1>9, <1>10, HandlerDone

\* onPrepare and onCommit go on with the instance of r.
LEMMA MGoesOn ==
  ASSUME ClusterInv, MirOk(cfg, log, index), cfg.protocol = "mirbft", NEW r \in Good(cfg), NEW i \in DOMAIN log[r],
         log[r][i].status \in {"PrePrepared", "Prepared"}, NEW status \in {"Prepared", "Committed"},
         status = "Committed" => QuorumWith(cfg, log, r, i, log[r][i].val),
         M!store(r, i, status, log[r][i]),
         UNCHANGED <<requested, index, cfg, chan, jobs, results, answered>>
  PROVE  ClusterInv' /\ MirOk(cfg, log', index') /\ cfg' = cfg
  <1> DEFINE inst == log[r][i]
             c == inst.val
  <1>1. /\ Core /\ cfg \in Scenarios /\ EntriesOk(cfg, log) /\ log \in [Replicas -> Logs(cfg.protocol)]
        /\ Nil \notin Commands /\ r \in Replicas
    BY CoreFacts DEF ClusterInv, Core, LogsOk
  <1>2. inst \in Instances("mirbft") /\ i \in Nat
    <2>1. log[r] \in Logs("mirbft")
      BY <1>1
    <2> QED BY <2>1, LogType
  <1>3. c \in Commands
    BY <1>2 DEF Instances
  <1>4. MirEntry(cfg, index, r, i, inst) /\ Entry(cfg, log, r, i, inst)
    BY <1>1 DEF MirOk, EntriesOk
  <1>5. Proposer(cfg, i) \in cfg.clients /\ inst.command # Nil
    BY <1>4 DEF MirEntry
  <1>6. inst.command = c /\ Proposed(cfg, log, i, c)
    BY <1>1, <1>3, <1>4, <1>5 DEF Entry, hashOf
  <1>7. Frame
    BY <1>1, SameFrame
  <1>8. /\ log[r][i].val = c /\ inst.val = c /\ M!store(r, i, status, inst)
        /\ status = "Committed" => QuorumWith(cfg, log, r, i, c)
    OBVIOUS
  <1>9. Core' /\ Keeps(cfg, log, log') /\ MirOk(cfg, log', index')
    <2> HIDE DEF inst, c
    <2> QED BY <1>1, <1>2, <1>3, <1>5, <1>6, <1>7, <1>8, MStore
  <1>10. NetOk(cfg, log', chan', jobs')
    BY <1>9, NetKept
  <1> QED BY <1>9, <1>10, HandlerDone

LEMMA MPrepare ==
  ASSUME ClusterInv, MirOk(cfg, log, index), cfg.protocol = "mirbft", NEW r \in cfg.members, NEW i,
         M!onPrepare(r, i)
  PROVE  ClusterInv' /\ MirOk(cfg, log', index') /\ cfg' = cfg
  <1>1. Core
    BY DEF ClusterInv
  <1>2. /\ r \in Alive /\ i \in DOMAIN log[r] /\ log[r][i].status = "PrePrepared"
        /\ \E status \in M!statuses(r, i, log[r][i].val, r) \ {"PrePrepared"} : M!store(r, i, status, log[r][i])
        /\ UNCHANGED <<requested, index, cfg, chan, jobs, results, answered>>
    BY MBridge DEF M!onPrepare, M!has, M!rest
  <1>3. r \in Good(cfg)
    BY <1>1, <1>2, CoreFacts DEF Alive
  <1>4. PICK status \in M!statuses(r, i, log[r][i].val, r) \ {"PrePrepared"} : M!store(r, i, status, log[r][i])
    BY <1>2
  <1>5. status \in {"Prepared", "Committed"} /\ (status = "Committed" => QuorumWith(cfg, log, r, i, log[r][i].val))
    BY <1>1, <1>3, <1>4, MStatuses
  <1> QED BY <1>2, <1>3, <1>4, <1>5, MGoesOn

LEMMA MCommit ==
  ASSUME ClusterInv, MirOk(cfg, log, index), cfg.protocol = "mirbft", NEW r \in cfg.members, NEW i,
         M!onCommit(r, i)
  PROVE  ClusterInv' /\ MirOk(cfg, log', index') /\ cfg' = cfg
  <1> DEFINE c == log[r][i].val
  <1>1. Core /\ Good(cfg) \subseteq Replicas /\ Liars(cfg) \subseteq Replicas
    BY CoreFacts, ScenarioFacts DEF ClusterInv
  <1>2. /\ r \in Alive /\ i \in DOMAIN log[r] /\ log[r][i].status = "Prepared"
        /\ M!Majority(M!commitVoters(i, c)) /\ M!store(r, i, "Committed", log[r][i])
        /\ UNCHANGED <<requested, index, cfg, chan, jobs, results, answered>>
    BY MBridge DEF M!onCommit, M!has, M!rest
  <1>3. r \in Good(cfg)
    BY <1>1, <1>2, CoreFacts DEF Alive
  <1>4. QuorumWith(cfg, log, r, i, c)
    <2> DEFINE V == Voters(cfg, log, i, c) \cup Liars(cfg)
    <2>1. M!commitVoters(i, c) = V /\ V \in SUBSET Replicas
      BY <1>1, MVotes DEF Voters
    <2>2. Cardinality(V) >= Need(cfg)
      <3> HIDE DEF V
      <3> QED BY <1>1, <1>2, <2>1, MVotes
    <2>3. V \in SUBSET (Voters(cfg, log, i, c) \cup Liars(cfg) \cup {r})
      OBVIOUS
    <2> HIDE DEF V
    <2> QED BY <2>2, <2>3 DEF QuorumWith
  <1> QED BY <1>2, <1>3, <1>4, MGoesOn

LEMMA MStops ==
  ASSUME ClusterInv, MirOk(cfg, log, index), NEW r \in Replicas, M!Panic(r) \/ M!Crash(r)
  PROVE  ClusterInv' /\ MirOk(cfg, log', index') /\ cfg' = cfg
  <1>1. UNCHANGED <<cfg, log, index>>
    BY DEF M!Panic, M!Crash, M!stop
  <1> QED BY <1>1, MEnds

LEMMA MNext ==
  ASSUME ClusterInv, MirOk(cfg, log, index), cfg.protocol = "mirbft", M!Next
  PROVE  ClusterInv' /\ MirOk(cfg, log', index') /\ cfg' = cfg
  <1>1. cfg.members \subseteq Replicas /\ 0 .. MaxIndex - 1 \subseteq Nat
    BY CoreFacts, ScenarioFacts DEF ClusterInv
  <1>2. CASE \E r \in cfg.members, i \in 0 .. MaxIndex - 1 : M!Contradicted(r, i)
    BY <1>1, <1>2, MStops DEF M!Contradicted
  <1> QED BY <1>1, <1>2, MRequest, MPrePrepare, MPrepare, MCommit, MStops DEF M!Next

LEMMA SGrows ==
  ASSUME ClusterInv, S!Next
  PROVE  Grows
  <1>1. execIdx \in [Replicas -> 0 .. MaxIndex] /\ Correct \subseteq Replicas
    BY CoreFacts DEF ClusterInv
  <1>2. ASSUME NEW r \in Correct, NEW L, S!exec(r, L) PROVE GrowsAt(r)
    BY <1>1, <1>2, SBridge, ExecGrows DEF S!exec, CommandsOf
  <1>3. ASSUME NEW c, S!onRequest(c) PROVE Grows
    BY <1>3 DEF S!onRequest, Grows
  <1>4. ASSUME NEW r, NEW c, S!stepResult(r, c) PROVE Grows
    BY <1>4 DEF S!stepResult, Grows
  <1>5. ASSUME NEW r, S!onPrepare(r) PROVE Grows
    <2>1. r \in Correct
      BY <1>5, SBridge DEF S!onPrepare, received, Alive
    <2>2. cfg' = cfg /\ (executed' = executed \/ \E L : S!exec(r, L))
      BY <1>5 DEF S!onPrepare, S!Panic, S!stop
    <2> QED BY <1>2, <2>1, <2>2 DEF Grows
  <1>6. ASSUME NEW r, S!onCommit(r) PROVE Grows
    <2>1. r \in Correct
      BY <1>6, SBridge DEF S!onCommit, received, Alive
    <2>2. cfg' = cfg /\ (executed' = executed \/ \E L : S!exec(r, L))
      BY <1>6 DEF S!onCommit, S!Panic, S!stop
    <2> QED BY <1>2, <2>1, <2>2 DEF Grows
  <1>7. ASSUME NEW r, S!Verified(r) PROVE Grows
    <2>1. r \in Correct
      BY <1>7, SBridge DEF S!Verified, pending, Alive
    <2>2. cfg' = cfg /\ (executed' = executed \/ \E L : S!exec(r, L))
      BY <1>7 DEF S!Verified
    <2> QED BY <1>2, <2>1, <2>2 DEF Grows
  <1>8. ASSUME NEW r, S!Crash(r) PROVE Grows
    BY <1>8 DEF S!Crash, S!stop, Grows
  <1>9. ASSUME NEW i, S!onSignShare(i) PROVE Grows
    BY <1>9 DEF S!onSignShare, S!Panic, S!stop, Grows
  <1>10. ASSUME S!Aggregated PROVE Grows
    <2>1. Leader \in Correct
      BY <1>10, SBridge DEF S!Aggregated, pending, Alive
    <2>2. cfg' = cfg /\ (executed' = executed \/ \E L : S!exec(Leader, L))
      BY <1>10 DEF S!Aggregated
    <2> QED BY <1>2, <2>1, <2>2 DEF Grows
  <1>11. ASSUME NEW r, NEW i, NEW c, S!FaultyPrepare(r, i, c) PROVE Grows
    BY <1>11 DEF S!FaultyPrepare, Grows
  <1>12. ASSUME NEW r, NEW i, NEW c, S!FaultyCommit(r, i, c) PROVE Grows
    BY <1>12 DEF S!FaultyCommit, Grows
  <1>13. ASSUME S!FaultyVote PROVE Grows
    BY <1>13 DEF S!FaultyVote, S!Panic, S!stop, Grows
  <1> QED BY <1>3, <1>4, <1>5, <1>6, <1>7, <1>8, <1>9, <1>10, <1>11, <1>12, <1>13 DEF S!Next

LEMMA SLGrows ==
  ASSUME ClusterInv, SL!Next
  PROVE  Grows
  <1>1. execIdx \in [Replicas -> 0 .. MaxIndex] /\ Correct \subseteq Replicas
    BY CoreFacts DEF ClusterInv
  <1>2. ASSUME NEW r \in Correct, NEW L, SL!exec(r, L) PROVE GrowsAt(r)
    BY <1>1, <1>2, SLBridge, ExecGrows DEF SL!exec, CommandsOf
  <1>3. ASSUME NEW c, SL!onRequest(c) PROVE Grows
    BY <1>3 DEF SL!onRequest, Grows
  <1>4. ASSUME NEW r, NEW c, SL!stepResult(r, c) PROVE Grows
    BY <1>4 DEF SL!stepResult, Grows
  <1>5. ASSUME NEW r, SL!onPreprepare(r) PROVE Grows
    <2>1. r \in Correct
      BY <1>5, SLBridge DEF SL!onPreprepare, received, Alive
    <2>2. cfg' = cfg /\ (executed' = executed \/ \E L : SL!exec(r, L))
      BY <1>5 DEF SL!onPreprepare, SL!Panic, SL!stop
    <2> QED BY <1>2, <2>1, <2>2 DEF Grows
  <1>6. ASSUME NEW r, SL!onPrepare(r) PROVE Grows
    BY <1>6 DEF SL!onPrepare, SL!Panic, SL!stop, Grows
  <1>7. ASSUME NEW r, SL!onCommit(r) PROVE Grows
    BY <1>7 DEF SL!onCommit, SL!Panic, SL!stop, Grows
  <1>8. ASSUME NEW r, SL!Verified(r) PROVE Grows
    <2>1. r \in Correct
      BY <1>8, SLBridge DEF SL!Verified, pending, Alive
    <2>2. cfg' = cfg /\ (executed' = executed \/ \E L : SL!exec(r, L))
      BY <1>8 DEF SL!Verified
    <2> QED BY <1>2, <2>1, <2>2 DEF Grows
  <1>9. ASSUME NEW r, SL!Crash(r) PROVE Grows
    BY <1>9 DEF SL!Crash, SL!stop, Grows
  <1>10. ASSUME NEW i, SL!onSignShare(i) PROVE Grows
    BY <1>10 DEF SL!onSignShare, SL!aggregate, SL!Panic, SL!stop, Grows
  <1>11. ASSUME NEW i, SL!onCommitSig(i) PROVE Grows
    BY <1>11 DEF SL!onCommitSig, SL!aggregate, SL!Panic, SL!stop, Grows
  <1>12. ASSUME SL!Aggregated PROVE Grows
    BY <1>12 DEF SL!Aggregated, Grows
  <1>13. ASSUME SL!AggregatedSlow PROVE Grows
    <2>1. Leader \in Correct
      BY <1>13, SLBridge DEF SL!AggregatedSlow, pending, Alive
    <2>2. cfg' = cfg /\ (executed' = executed \/ \E L : SL!exec(Leader, L))
      BY <1>13 DEF SL!AggregatedSlow
    <2> QED BY <1>2, <2>1, <2>2 DEF Grows
  <1>14. ASSUME NEW r, NEW i, NEW c, SL!FaultyPreprepare(r, i, c) PROVE Grows
    BY <1>14 DEF SL!FaultyPreprepare, SL!faultySends, Grows
  <1>15. ASSUME NEW r, NEW i, NEW c, SL!FaultyCertificate(r, i, c) PROVE Grows
    BY <1>15 DEF SL!FaultyCertificate, SL!faultySends, Grows
  <1>16. ASSUME SL!FaultyVote PROVE Grows
    BY <1>16 DEF SL!FaultyVote, SL!Panic, SL!stop, Grows
  <1> QED BY <1>3, <1>4, <1>5, <1>6, <1>7, <1>8, <1>9, <1>10, <1>11, <1>12, <1>13, <1>14, <1>15, <1>16 DEF SL!Next

LEMMA LHGrows ==
  ASSUME ClusterInv, LH!Next
  PROVE  Grows
  <1>1. execIdx \in [Replicas -> 0 .. MaxIndex] /\ Correct \subseteq Replicas
    BY CoreFacts DEF ClusterInv
  <1>2. ASSUME NEW r \in Correct, NEW L, LH!exec(r, L) PROVE GrowsAt(r)
    BY <1>1, <1>2, LHBridge, ExecGrows DEF LH!exec, CommandsOf
  <1>3. ASSUME NEW c, LH!onRequest(c) PROVE Grows
    BY <1>3 DEF LH!onRequest, Grows
  <1>4. ASSUME NEW r, NEW c, LH!stepResult(r, c) PROVE Grows
    BY <1>4 DEF LH!stepResult, Grows
  <1>5. ASSUME NEW r, LH!onPrepare(r) PROVE Grows
    BY <1>5 DEF LH!onPrepare, LH!Panic, LH!stop, Grows
  <1>6. ASSUME NEW r, LH!onCommit(r) PROVE Grows
    BY <1>6 DEF LH!onCommit, LH!Panic, LH!stop, Grows
  <1>7. ASSUME NEW r, LH!Verified(r) PROVE Grows
    <2>1. r \in Correct
      BY <1>7, LHBridge DEF LH!Verified, pending, Alive
    <2>2. cfg' = cfg /\ (executed' = executed \/ \E L : LH!exec(r, L))
      BY <1>7 DEF LH!Verified
    <2> QED BY <1>2, <2>1, <2>2 DEF Grows
  <1>8. ASSUME NEW r, LH!Crash(r) PROVE Grows
    BY <1>8 DEF LH!Crash, LH!stop, Grows
  <1>9. ASSUME NEW i, LH!onSignShare(i) PROVE Grows
    BY <1>9 DEF LH!onSignShare, LH!Panic, LH!stop, Grows
  <1>10. ASSUME LH!Aggregated PROVE Grows
    <2>1. Leader \in Correct
      BY <1>10, LHBridge DEF LH!Aggregated, pending, Alive
    <2>2. cfg' = cfg /\ (executed' = executed \/ \E L : LH!exec(Leader, L))
      BY <1>10 DEF LH!Aggregated
    <2> QED BY <1>2, <2>1, <2>2 DEF Grows
  <1>11. ASSUME LH!FaultyVote PROVE Grows
    BY <1>11 DEF LH!FaultyVote, LH!Panic, LH!stop, Grows
  <1> QED BY <1>3, <1>4, <1>5, <1>6, <1>7, <1>8, <1>9, <1>10, <1>11 DEF LH!Next

LEMMA MBGrows ==
  ASSUME ClusterInv, MB!Next
  PROVE  Grows
  <1>1. execIdx \in [Replicas -> 0 .. MaxIndex] /\ Correct \subseteq Replicas
    BY CoreFacts DEF ClusterInv
  <1>2. ASSUME NEW r \in Correct, NEW L, MB!exec(r, L) PROVE GrowsAt(r)
    BY <1>1, <1>2, MBBridge, ExecGrows DEF MB!exec, CommandsOf
  <1>3. ASSUME NEW c, MB!onRequest(c) PROVE Grows
    BY <1>3 DEF MB!onRequest, Grows
  <1>4. ASSUME NEW r, MB!onPrepare(r) PROVE Grows
    <2>1. r \in Correct
      BY <1>4, MBBridge DEF MB!onPrepare, received, Alive
    <2>2. cfg' = cfg /\ (executed' = executed \/ \E L : MB!exec(r, L))
      BY <1>4 DEF MB!onPrepare, MB!tally
    <2> QED BY <1>2, <2>1, <2>2 DEF Grows
  <1>5. ASSUME NEW r, NEW i, MB!onCommit(r, i) PROVE Grows
    <2>1. r \in Correct
      BY <1>5, MBBridge DEF MB!onCommit, Alive
    <2>2. cfg' = cfg /\ (executed' = executed \/ \E L : MB!exec(r, L))
      BY <1>5 DEF MB!onCommit, MB!tally
    <2> QED BY <1>2, <2>1, <2>2 DEF Grows
  <1>6. ASSUME NEW r, MB!Crash(r) PROVE Grows
    BY <1>6 DEF MB!Crash, MB!stop, Grows
  <1> QED BY <1>3, <1>4, <1>5, <1>6 DEF MB!Next

LEMMA HGrows ==
  ASSUME ClusterInv, H!Next
  PROVE  Grows
  <1>1. execIdx \in [Replicas -> 0 .. MaxIndex] /\ Correct \subseteq Replicas
    BY CoreFacts DEF ClusterInv
  <1>2. ASSUME NEW r \in Correct, NEW L, H!exec(r, L) PROVE GrowsAt(r)
    BY <1>1, <1>2, HBridge, ExecGrows DEF H!exec, CommandsOf
  <1>3. ASSUME NEW c, H!onRequest(c) PROVE Grows
    BY <1>3 DEF H!onRequest, Grows
  <1>4. ASSUME NEW r, H!onPrepare(r) PROVE Grows
    <2>1. r \in Correct
      BY <1>4, HBridge DEF H!onPrepare, received, Alive
    <2>2. cfg' = cfg /\ (executed' = executed \/ \E L : H!exec(r, L))
      BY <1>4 DEF H!onPrepare, H!tally, H!Panic, H!stop
    <2> QED BY <1>2, <2>1, <2>2 DEF Grows
  <1>5. ASSUME NEW r, H!onCommit(r) PROVE Grows
    <2>1. r \in Correct
      BY <1>5, HBridge DEF H!onCommit, pending, Alive
    <2>2. cfg' = cfg /\ (executed' = executed \/ \E L : H!exec(r, L))
      BY <1>5 DEF H!onCommit, H!tally, H!Panic, H!stop
    <2> QED BY <1>2, <2>1, <2>2 DEF Grows
  <1>6. ASSUME NEW r, H!Crash(r) PROVE Grows
    BY <1>6 DEF H!Crash, H!stop, Grows
  <1> QED BY <1>3, <1>4, <1>5, <1>6 DEF H!Next

LEMMA MGrows ==
  ASSUME ClusterInv, M!Next
  PROVE  Grows
  <1>1. execIdx \in [Replicas -> 0 .. MaxIndex] /\ Correct \subseteq Replicas
    BY CoreFacts DEF ClusterInv
  <1>2. ASSUME NEW r \in Correct, NEW L, M!exec(r, L) PROVE GrowsAt(r)
    BY <1>1, <1>2, MBridge, ExecGrows DEF M!exec, CommandsOf
  <1>3. ASSUME NEW r, NEW c, M!onRequest(r, c) PROVE Grows
    BY <1>3 DEF M!onRequest, M!rest, Grows
  <1>4. ASSUME NEW r, NEW i, NEW c, M!onPrePrepare(r, i, c) PROVE Grows
    <2>1. r \in Correct
      BY <1>4, MBridge DEF M!onPrePrepare, Alive
    <2>2. cfg' = cfg /\ (executed' = executed \/ \E L : M!exec(r, L))
      BY <1>4 DEF M!onPrePrepare, M!store, M!rest
    <2> QED BY <1>2, <2>1, <2>2 DEF Grows
  <1>5. ASSUME NEW r, NEW i, M!onPrepare(r, i) PROVE Grows
    <2>1. r \in Correct
      BY <1>5, MBridge DEF M!onPrepare, Alive
    <2>2. cfg' = cfg /\ (executed' = executed \/ \E L : M!exec(r, L))
      BY <1>5 DEF M!onPrepare, M!store, M!rest
    <2> QED BY <1>2, <2>1, <2>2 DEF Grows
  <1>6. ASSUME NEW r, NEW i, M!onCommit(r, i) PROVE Grows
    <2>1. r \in Correct
      BY <1>6, MBridge DEF M!onCommit, Alive
    <2>2. cfg' = cfg /\ (executed' = executed \/ \E L : M!exec(r, L))
      BY <1>6 DEF M!onCommit, M!store, M!rest
    <2> QED BY <1>2, <2>1, <2>2 DEF Grows
  <1>7. ASSUME NEW r, NEW i, M!Contradicted(r, i) PROVE Grows
    BY <1>7 DEF M!Contradicted, M!Panic, M!stop, Grows
  <1>8. ASSUME NEW r, M!Crash(r) PROVE Grows
    BY <1>8 DEF M!Crash, M!stop, Grows
  <1> QED BY <1>3, <1>4, <1>5, <1>6, <1>7, <1>8 DEF M!Next

-----------------------------------------------------------------------------
(* DuoBFT *)

LEMMA DBridge ==
  /\ D!Alive = Alive /\ D!Correct = Correct
  /\ \A V : D!Cardinality(V) = Cardinality(V)
  /\ \A K, i, e : D!put(K, i, e) = put(K, i, e)
  /\ \A i, P : D!loopEnd(i, P) = loopEnd(i, P)
  /\ \A c : D!newCommand(c) <=> newCommand(c)
  /\ \A s, b : D!chosen(s, b) = Chosen(s, cfg.meta, b)
  <1>1. D!Alive = Alive /\ D!Correct = Correct
    BY DEF D!Alive, D!Correct, Alive, Correct
  <1>2. \A V : D!Cardinality(V) = Cardinality(V)
    BY Zenon DEF D!Cardinality, Cardinality
  <1>3. \A K, i, e : D!put(K, i, e) = put(K, i, e)
    BY DEF D!put, put
  <1>4. \A i, P : D!loopEnd(i, P) = loopEnd(i, P)
    BY Zenon DEF D!loopEnd, loopEnd, D!Min, Min
  <1>5. \A c : D!newCommand(c) <=> newCommand(c)
    BY <1>2 DEF D!newCommand, newCommand
  <1>7. \A s, b : D!chosen(s, b) = Chosen(s, cfg.meta, b)
    BY Zenon DEF D!chosen, Chosen
  <1> QED BY <1>1, <1>2, <1>3, <1>4, <1>5, <1>7

LEMMA DTexecStep ==
  ASSUME DuoInv, DuoFrame, NEW r \in Correct, NEW L, DuoReady(r, L), D!texec(r, L)
  PROVE  DuoInv' /\ GrowsAt(r)
  <1> DEFINE from == TEnd(L)
             to == loopEnd(from, {i \in DOMAIN L : L[i].tStatus = "TCommitted"})
             L2 == [i \in DOMAIN L |->
                       IF i \in from .. to - 1 THEN [L[i] EXCEPT !.tStatus = "TExecuted"] ELSE L[i]]
             t == Chosen(CommandsOf(L, from, to), cfg.meta, TRUE)
  <1>1. from = D!tExecute(L) /\ to = D!texecEnd(L)
    BY DBridge DEF D!tExecute, D!texecEnd, TEnd, TExecuted
  <1>2. D!commandsOf(L, from, to, TRUE) = t
    BY DBridge DEF D!commandsOf, CommandsOf
  <1>3. /\ log' = [log EXCEPT ![r] = L2] /\ execIdx' = execIdx
        /\ executed' = [executed EXCEPT ![r] = @ \o t]
    BY <1>1, <1>2 DEF D!texec
  <1>4. /\ log \in [Replicas -> DuoLogs] /\ r \in Replicas /\ L \in DuoLogs
        /\ executed \in [Replicas -> Seq(Commands)] /\ execIdx \in [Replicas -> 0 .. MaxIndex]
        /\ \A i \in DOMAIN L : L[i].command = Plan(log)[i]
    BY DFacts, DReadyPlan DEF DuoReady
  <1>5. DuoExec(cfg, Plan(log), L, execIdx[r], executed[r])
    BY DEF DuoReady
  <1>6. DuoExec(cfg, Plan(log), L2, execIdx[r], executed[r] \o t)
    BY <1>4, <1>5, DTexec
  <1>7. DuoPassed(L, L2)
    <2>1. \A i \in DOMAIN L : L[i] \in DuoRecord
      BY <1>4, DLogType
    <2>2. \A i \in from .. to - 1 : i \in DOMAIN L /\ L[i].tStatus = "TCommitted"
      <3>1. from \in 0 .. MaxIndex
        BY TEndFacts
      <3> QED BY <3>1, LoopEnd
    <2> HIDE DEF from, to
    <2>3. ASSUME NEW i \in DOMAIN L
          PROVE  /\ L2[i] \in DuoRecord /\ L2[i].command = L[i].command
                 /\ L2[i].voted = L[i].voted /\ L2[i].cVoted = L[i].cVoted
                 /\ L2[i].tStatus # "TPrepared" => L[i].tStatus # "TPrepared"
                 /\ L2[i].status = L[i].status
      <3>1. CASE i \in from .. to - 1
        <4>1. L2[i] = [L[i] EXCEPT !.tStatus = "TExecuted"]
          BY <3>1
        <4> HIDE DEF L2
        <4> QED BY <2>1, <2>2, <3>1, <4>1 DEF DuoRecord
      <3>2. CASE i \notin from .. to - 1
        BY <2>1, <3>2
      <3> QED BY <3>1, <3>2
    <2>4. L2 \in [DOMAIN L -> DuoRecord]
      BY <2>3
    <2> HIDE DEF L2
    <2> QED BY <2>3, <2>4 DEF DuoPassed
  <1> HIDE DEF L2, t
  <1>8. DuoOk(cfg, requested, index, log', [execIdx EXCEPT ![r] = execIdx[r]],
              [executed EXCEPT ![r] = executed[r] \o t])
    BY <1>3, <1>6, <1>7, DPassedOk
  <1>9. [execIdx EXCEPT ![r] = execIdx[r]] = execIdx'
    BY <1>3, <1>4
  <1>10. DuoInv'
    BY <1>3, <1>8, <1>9 DEF DuoInv, DuoFrame
  <1>11. t \in Seq(Commands)
    <2>1. from \in 0 .. MaxIndex
      BY TEndFacts
    <2> QED BY <1>4, <2>1, DTakes DEF t
  <1> QED BY <1>3, <1>10, <1>11 DEF GrowsAt

LEMMA DExecStep ==
  ASSUME DuoInv, DuoFrame, NEW r \in Correct, NEW L, DuoReady(r, L), D!exec(r, L)
  PROVE  DuoInv' /\ GrowsAt(r)
  <1> DEFINE from == execIdx[r]
             to == loopEnd(from, {i \in DOMAIN L : L[i].status = "Committed"})
             L2 == [i \in DOMAIN L |->
                       IF i \in from .. to - 1 THEN [L[i] EXCEPT !.status = "Executed"] ELSE L[i]]
             t == Chosen(CommandsOf(L, from, to), cfg.meta, FALSE)
  <1>1. to = D!execEnd(r, L)
    BY DBridge DEF D!execEnd
  <1>2. D!commandsOf(L, from, to, FALSE) = t
    BY DBridge DEF D!commandsOf, CommandsOf
  <1>3. /\ log' = [log EXCEPT ![r] = L2] /\ execIdx' = [execIdx EXCEPT ![r] = to]
        /\ executed' = [executed EXCEPT ![r] = @ \o t]
    BY <1>1, <1>2 DEF D!exec
  <1>4. /\ log \in [Replicas -> DuoLogs] /\ r \in Replicas /\ L \in DuoLogs
        /\ executed \in [Replicas -> Seq(Commands)] /\ from \in 0 .. MaxIndex
        /\ \A i \in DOMAIN L : L[i].command = Plan(log)[i]
    BY DFacts, DReadyPlan DEF DuoReady
  <1>5. DuoExec(cfg, Plan(log), L, from, executed[r])
    BY DEF DuoReady
  <1> HIDE DEF from
  <1>6. DuoExec(cfg, Plan(log), L2, to, executed[r] \o t)
    BY <1>4, <1>5, DExecs
  <1>7. DuoPassed(L, L2)
    <2>1. \A i \in DOMAIN L : L[i] \in DuoRecord
      BY <1>4, DLogType
    <2>2. \A i \in from .. to - 1 : i \in DOMAIN L /\ L[i].status = "Committed"
      BY <1>4, LoopEnd
    <2> HIDE DEF to
    <2>3. ASSUME NEW i \in DOMAIN L
          PROVE  /\ L2[i] \in DuoRecord /\ L2[i].command = L[i].command
                 /\ L2[i].voted = L[i].voted /\ L2[i].cVoted = L[i].cVoted
                 /\ L2[i].tStatus = L[i].tStatus
                 /\ L2[i].status \in {"Committed", "Executed"} => L[i].status \in {"Committed", "Executed"}
      <3>1. CASE i \in from .. to - 1
        <4>1. L2[i] = [L[i] EXCEPT !.status = "Executed"]
          BY <3>1
        <4> HIDE DEF L2
        <4> QED BY <2>1, <2>2, <3>1, <4>1 DEF DuoRecord
      <3>2. CASE i \notin from .. to - 1
        BY <2>1, <3>2
      <3> QED BY <3>1, <3>2
    <2>4. L2 \in [DOMAIN L -> DuoRecord]
      BY <2>3
    <2> HIDE DEF L2
    <2> QED BY <2>3, <2>4 DEF DuoPassed
  <1>8. t \in Seq(Commands)
    BY <1>4, DTakes
  <1> HIDE DEF L2, t, to
  <1>9. DuoOk(cfg, requested, index, log', execIdx', [executed EXCEPT ![r] = executed[r] \o t])
    BY <1>3, <1>6, <1>7, DPassedOk
  <1>10. DuoInv'
    BY <1>3, <1>9 DEF DuoInv, DuoFrame
  <1> QED BY <1>3, <1>8, <1>10 DEF GrowsAt

LEMMA DTally ==
  ASSUME DuoInv, DuoFrame, NEW r \in Correct, NEW i \in DOMAIN log[r], NEW inst, NEW votes,
         inst \in {log[r][i], [log[r][i] EXCEPT !.voted = TRUE]},
         votes \subseteq {q \in Correct : i \in DOMAIN log[q] /\ (IF q = r THEN inst.voted ELSE log[q][i].voted)},
         D!tally(r, i, inst, votes)
  PROVE  DuoInv' /\ (executed' = executed \/ GrowsAt(r))
  <1> DEFINE d == log[r][i]
             e == D!afterTests(inst, votes)
             L == [log[r] EXCEPT ![i] = e]
             lg1 == [log EXCEPT ![r] = L]
  <1>1. /\ cfg \in Scenarios /\ log \in [Replicas -> DuoLogs] /\ r \in Replicas /\ Correct = Good(cfg) /\ cfg.f \in Nat
        /\ Correct \subseteq Replicas
    BY DFacts
  <1>2. d \in DuoRecord
    BY <1>1, DLogType
  <1>3. /\ inst \in DuoRecord /\ inst.command = d.command /\ inst.cVoted = d.cVoted /\ (d.voted => inst.voted)
        /\ inst.tStatus = d.tStatus /\ inst.status = d.status
    <2>1. CASE inst = d
      BY <1>2, <2>1
    <2>2. CASE inst = [d EXCEPT !.voted = TRUE]
      <3> HIDE DEF d
      <3> QED BY <1>2, <2>2 DEF DuoRecord
    <2> QED BY <2>1, <2>2
  <1> HIDE DEF d
  <1>4. /\ e \in DuoRecord /\ e.command = inst.command /\ e.cVoted = inst.cVoted /\ e.voted = inst.voted
        /\ e.tStatus = IF D!tTest(inst, votes) THEN "TCommitted" ELSE inst.tStatus
        /\ e.status = IF D!pTest(inst, votes) THEN "PreCommitted" ELSE inst.status
    BY <1>3 DEF D!afterTests, DuoRecord
  <1>5. /\ D!tTest(inst, votes) => inst.tStatus = "TPrepared" /\ Cardinality(votes) >= cfg.f + 1
        /\ D!pTest(inst, votes) => inst.status = "Prepared"
    BY DBridge DEF D!tTest, D!pTest, D!tcMajority
  <1>6. L = [log[r] EXCEPT ![i] = D!afterTests(inst, votes)]
    OBVIOUS
  <1> HIDE DEF e
  <1>7. DuoUpdates(d, e)
    BY <1>3, <1>4, <1>5 DEF DuoUpdates, DuoRecord
  <1>8. /\ lg1[r] = L /\ DOMAIN L = DOMAIN log[r] /\ L[i] = e
        /\ \A q \in Replicas \ {r} : lg1[q] = log[q]
    BY <1>1
  <1> HIDE DEF L, lg1
  <1>9. votes \subseteq DVoters(cfg, lg1, i)
    BY <1>1, <1>4, <1>8 DEF DVoters
  <1>10. D!tTest(inst, votes) => Cardinality(DVoters(cfg, lg1, i)) >= cfg.f + 1
    <2>1. cfg.f + 1 \in Nat
      BY <1>1
    <2> QED BY <1>1, <1>5, <1>9, <2>1, DEnough
  <1>11. DuoTested(cfg, lg1, i, d, e)
    BY <1>3, <1>4, <1>10 DEF DuoTested
  <1>12. DuoReady(r, L)
    BY <1>7, <1>11, DReadyIs DEF L, lg1, d
  <1>13. D!texec(r, L) \/ (log' = [log EXCEPT ![r] = L] /\ UNCHANGED <<execIdx, executed>>)
    BY <1>6 DEF D!tally
  <1> QED BY <1>12, <1>13, DTexecStep, DStoreStep

LEMMA DCommits ==
  ASSUME DuoInv, DuoFrame, NEW r \in Correct, NEW i \in DOMAIN log[r], NEW inst, NEW votes,
         inst \in {log[r][i], [log[r][i] EXCEPT !.cVoted = TRUE]},
         votes \subseteq {q \in Correct : i \in DOMAIN log[q] /\ (IF q = r THEN inst.cVoted ELSE log[q][i].cVoted)},
         D!commit(r, i, inst, votes)
  PROVE  DuoInv' /\ (executed' = executed \/ GrowsAt(r))
  <1> DEFINE d == log[r][i]
             ok == inst.status = "PreCommitted" /\ D!cMajority(votes)
             e == [inst EXCEPT !.status = IF ok THEN "Committed" ELSE @]
             L == [log[r] EXCEPT ![i] = e]
             lg1 == [log EXCEPT ![r] = L]
  <1>1. /\ cfg \in Scenarios /\ log \in [Replicas -> DuoLogs] /\ r \in Replicas /\ Correct = Good(cfg) /\ cfg.f \in Nat
        /\ Correct \subseteq Replicas
    BY DFacts
  <1>2. d \in DuoRecord
    BY <1>1, DLogType
  <1>3. /\ inst \in DuoRecord /\ inst.command = d.command /\ inst.voted = d.voted /\ (d.cVoted => inst.cVoted)
        /\ inst.tStatus = d.tStatus /\ inst.status = d.status
    <2>1. CASE inst = d
      BY <1>2, <2>1
    <2>2. CASE inst = [d EXCEPT !.cVoted = TRUE]
      <3> HIDE DEF d
      <3> QED BY <1>2, <2>2 DEF DuoRecord
    <2> QED BY <2>1, <2>2
  <1> HIDE DEF d
  <1>5. ok => inst.status = "PreCommitted" /\ Cardinality(votes) >= 2 * cfg.f + 1
    BY DBridge DEF D!cMajority
  <1>6. D!exec(r, L) \/ (log' = [log EXCEPT ![r] = L] /\ UNCHANGED <<execIdx, executed>>)
    BY DEF D!commit
  <1> HIDE DEF ok
  <1>4. /\ e \in DuoRecord /\ e.command = inst.command /\ e.cVoted = inst.cVoted /\ e.voted = inst.voted
        /\ e.tStatus = inst.tStatus /\ e.status = IF ok THEN "Committed" ELSE inst.status
    BY <1>3 DEF DuoRecord
  <1> HIDE DEF e
  <1>7. DuoUpdates(d, e)
    BY <1>3, <1>4, <1>5 DEF DuoUpdates, DuoRecord
  <1>8. /\ lg1[r] = L /\ DOMAIN L = DOMAIN log[r] /\ L[i] = e
        /\ \A q \in Replicas \ {r} : lg1[q] = log[q]
    BY <1>1
  <1> HIDE DEF L, lg1
  <1>9. votes \subseteq DCVoters(cfg, lg1, i)
    BY <1>1, <1>4, <1>8 DEF DCVoters
  <1>10. ok => Cardinality(DCVoters(cfg, lg1, i)) >= 2 * cfg.f + 1
    <2>1. 2 * cfg.f + 1 \in Nat
      BY <1>1
    <2> QED BY <1>1, <1>5, <1>9, <2>1, DEnough
  <1>11. DuoTested(cfg, lg1, i, d, e)
    BY <1>3, <1>4, <1>10 DEF DuoTested
  <1>12. DuoReady(r, L)
    BY <1>7, <1>11, DReadyIs DEF L, lg1, d
  <1> QED BY <1>6, <1>12, DExecStep, DStoreStep

LEMMA DPrepare ==
  ASSUME DuoInv, NEW r, NEW i \in Nat, D!onPrepare(r, i)
  PROVE  DuoInv' /\ Grows
  <1> DEFINE K == log[r]
             e == D!makeInstance(log[Leader][i].command, FALSE)
             L == put(log[r], i, e)
             lg1 == [log EXCEPT ![r] = L]
  <1>1. /\ r \in Correct /\ Leader \in Correct /\ i \in DOMAIN log[Leader] /\ i \notin DOMAIN K /\ r # Leader
        /\ log' = lg1 /\ UNCHANGED <<execIdx, executed>> /\ DuoFrame
    BY DBridge DEF D!onPrepare, D!has, Alive, D!rest, DuoFrame
  <1>2. /\ cfg \in Scenarios /\ log \in [Replicas -> DuoLogs] /\ r \in Replicas /\ Correct = Good(cfg)
        /\ Leader \in Replicas /\ K \in DuoLogs
    BY <1>1, DFacts
  <1>3. /\ DOMAIN K \subseteq Nat /\ (\A j \in DOMAIN K : K[j] \in DuoRecord)
        /\ log[Leader][i] \in DuoRecord
    BY <1>1, <1>2, DLogType
  <1>4. /\ e \in DuoRecord /\ e.command = log[Leader][i].command /\ e.tStatus = "TPrepared" /\ e.status = "Prepared"
    BY <1>3 DEF D!makeInstance, DuoRecord
  <1> HIDE DEF e
  <1>5. DOMAIN L = DOMAIN K \cup {i} /\ L[i] = e /\ \A j \in DOMAIN K : L[j] = K[j]
    BY <1>1 DEF put
  <1>6. L \in DuoLogs
    <2>1. L \in [DOMAIN K \cup {i} -> DuoRecord]
      BY <1>3, <1>4 DEF put
    <2> QED BY <1>3, <2>1, DLogIs
  <1>7. /\ \A j \in DOMAIN K : DuoEntry(cfg, log, j, K[j])
        /\ DuoExec(cfg, Plan(log), K, execIdx[r], executed[r])
        /\ DuoEntry(cfg, log, i, log[Leader][i])
    BY <1>1, <1>2 DEF DuoInv, DuoOk
  <1>8. DuoEntry(cfg, log, i, e)
    BY <1>4, <1>7 DEF DuoEntry
  <1> HIDE DEF K, L, lg1
  <1>9. DuoAdvances(K, L)
    BY <1>5 DEF DuoAdvances
  <1>10. \A j \in DOMAIN L : DuoEntry(cfg, lg1, j, L[j])
    <2>1. \A j \in DOMAIN L : DuoEntry(cfg, log, j, L[j])
      BY <1>5, <1>7, <1>8
    <2> QED BY <1>1, <1>2, <1>9, <2>1, DEntryStays DEF K, lg1
  <1>11. DuoExec(cfg, Plan(log), L, execIdx[r], executed[r])
    <2>1. TExecuted(L) = TExecuted(K)
      BY <1>4, <1>5 DEF TExecuted
    <2> QED BY <1>5, <1>7, <2>1, DSameExec
  <1>12. DuoReady(r, L)
    BY <1>1, <1>6, <1>9, <1>10, <1>11 DEF DuoReady, K, lg1
  <1>13. DuoInv'
    BY <1>1, <1>12, DStoreStep DEF lg1
  <1> QED BY <1>1, <1>13 DEF Grows, DuoFrame

LEMMA DVotersIs ==
  ASSUME DuoInv, NEW i
  PROVE  /\ D!voters(i) = {q \in Correct : i \in DOMAIN log[q] /\ log[q][i].voted}
         /\ D!cVoters(i) = {q \in Correct : i \in DOMAIN log[q] /\ log[q][i].cVoted}
  BY DBridge DEF D!voters, D!cVoters, D!has

LEMMA DPreCommitSigned ==
  ASSUME DuoInv, NEW r, NEW i, D!PreCommitSigned(r, i)
  PROVE  DuoInv' /\ Grows
  <1> DEFINE inst == [log[r][i] EXCEPT !.voted = TRUE]
  <1>1. r \in Correct /\ i \in DOMAIN log[r] /\ DuoFrame /\ cfg' = cfg
    BY DBridge DEF D!PreCommitSigned, D!has, Alive, D!rest, DuoFrame
  <1>2. PICK early \in SUBSET (D!voters(i) \ {Leader, r}) : D!tally(r, i, inst, early \cup {Leader, r})
    BY DEF D!PreCommitSigned
  <1>3. /\ log \in [Replicas -> DuoLogs] /\ r \in Replicas /\ Correct = Good(cfg)
    BY <1>1, DFacts
  <1>4. log[r][i] \in DuoRecord
    BY <1>1, <1>3, DLogType
  <1>5. inst.voted = TRUE
    BY <1>4 DEF DuoRecord
  <1>6. Leader \in Correct /\ i \in DOMAIN log[Leader] /\ log[Leader][i].voted
    <2>1. DuoEntry(cfg, log, i, log[r][i])
      BY <1>1, <1>3 DEF DuoInv, DuoOk
    <2> QED BY <1>3, <2>1 DEF DuoEntry
  <1>7. early \cup {Leader, r} \subseteq
            {q \in Correct : i \in DOMAIN log[q] /\ (IF q = r THEN inst.voted ELSE log[q][i].voted)}
    <2> HIDE DEF inst
    <2> QED BY <1>1, <1>2, <1>5, <1>6, DVotersIs
  <1>8. inst \in {log[r][i], [log[r][i] EXCEPT !.voted = TRUE]}
    OBVIOUS
  <1> HIDE DEF inst
  <1>9. DuoInv' /\ (executed' = executed \/ GrowsAt(r))
    BY <1>1, <1>2, <1>7, <1>8, DTally
  <1> QED BY <1>1, <1>9 DEF Grows

LEMMA DPreCommit ==
  ASSUME DuoInv, NEW r, NEW i, D!onPreCommit(r, i)
  PROVE  DuoInv' /\ Grows
  <1>1. r \in Correct /\ i \in DOMAIN log[r] /\ DuoFrame /\ cfg' = cfg
    BY DBridge DEF D!onPreCommit, D!has, Alive, D!rest, DuoFrame
  <1>2. PICK votes \in SUBSET D!voters(i) : D!tally(r, i, log[r][i], votes)
    BY DEF D!onPreCommit
  <1>3. votes \subseteq
            {q \in Correct : i \in DOMAIN log[q] /\ (IF q = r THEN log[r][i].voted ELSE log[q][i].voted)}
    BY <1>2, DVotersIs
  <1>4. DuoInv' /\ (executed' = executed \/ GrowsAt(r))
    BY <1>1, <1>2, <1>3, DTally
  <1> QED BY <1>1, <1>4 DEF Grows

LEMMA DCommitSigned ==
  ASSUME DuoInv, NEW r, NEW i, D!CommitSigned(r, i)
  PROVE  DuoInv' /\ Grows
  <1> DEFINE inst == [log[r][i] EXCEPT !.cVoted = TRUE]
  <1>1. r \in Correct /\ i \in DOMAIN log[r] /\ DuoFrame /\ cfg' = cfg
    BY DBridge DEF D!CommitSigned, D!has, Alive, D!rest, DuoFrame
  <1>2. PICK early \in SUBSET (D!cVoters(i) \ {r}) : D!commit(r, i, inst, early \cup {r})
    BY DEF D!CommitSigned
  <1>3. log \in [Replicas -> DuoLogs] /\ r \in Replicas
    BY <1>1, DFacts
  <1>4. log[r][i] \in DuoRecord
    BY <1>1, <1>3, DLogType
  <1>5. inst.cVoted = TRUE
    BY <1>4 DEF DuoRecord
  <1>6. early \cup {r} \subseteq
            {q \in Correct : i \in DOMAIN log[q] /\ (IF q = r THEN inst.cVoted ELSE log[q][i].cVoted)}
    <2> HIDE DEF inst
    <2> QED BY <1>1, <1>2, <1>5, DVotersIs
  <1>7. inst \in {log[r][i], [log[r][i] EXCEPT !.cVoted = TRUE]}
    OBVIOUS
  <1> HIDE DEF inst
  <1>8. DuoInv' /\ (executed' = executed \/ GrowsAt(r))
    BY <1>1, <1>2, <1>6, <1>7, DCommits
  <1> QED BY <1>1, <1>8 DEF Grows

LEMMA DCommit ==
  ASSUME DuoInv, NEW r, NEW i, D!onCommit(r, i)
  PROVE  DuoInv' /\ Grows
  <1>1. r \in Correct /\ i \in DOMAIN log[r] /\ DuoFrame /\ cfg' = cfg
    BY DBridge DEF D!onCommit, D!has, Alive, D!rest, DuoFrame
  <1>2. D!commit(r, i, log[r][i], D!cVoters(i))
    BY DEF D!onCommit
  <1>3. D!cVoters(i) \subseteq
            {q \in Correct : i \in DOMAIN log[q] /\ (IF q = r THEN log[r][i].cVoted ELSE log[q][i].cVoted)}
    BY DVotersIs
  <1>4. DuoInv' /\ (executed' = executed \/ GrowsAt(r))
    BY <1>1, <1>2, <1>3, DCommits
  <1> QED BY <1>1, <1>4 DEF Grows

LEMMA DRequest ==
  ASSUME DuoInv, NEW c \in Commands, D!onRequest(c)
  PROVE  DuoInv' /\ Grows
  <1> DEFINE i == index[Leader]
             K == log[Leader]
             e == D!makeInstance(c, TRUE)
             L == put(log[Leader], i, e)
             lg2 == log'
  <1>1. /\ Leader \in Correct /\ c \notin requested /\ requested' = requested \cup {c}
        /\ index' = [index EXCEPT ![Leader] = @ + 1] /\ log' = [log EXCEPT ![Leader] = L]
        /\ UNCHANGED <<cfg, execIdx, executed, answered>>
    BY DBridge DEF D!onRequest, Alive, D!rest, newCommand
  <1>2. /\ cfg \in Scenarios /\ log \in [Replicas -> DuoLogs] /\ Correct = Good(cfg) /\ Correct \subseteq Replicas
        /\ Leader \in Replicas /\ K \in DuoLogs /\ index \in [Replicas -> Nat] /\ i \in Nat
        /\ requested \subseteq Commands /\ cfg.protocol = "duobft"
        /\ execIdx \in [Replicas -> 0 .. MaxIndex] /\ executed \in [Replicas -> Seq(Commands)]
    BY <1>1, DFacts DEF DuoInv, DuoOk
  <1>3. DuoPlan(cfg, requested, index, Plan(log)) /\ Leader \in Good(cfg) /\ DOMAIN Plan(log) = DOMAIN K
    BY <1>1, <1>2 DEF DuoInv, DuoOk, Plan
  <1>4. DOMAIN K \subseteq Nat /\ (\A j \in DOMAIN K : K[j] \in DuoRecord /\ j < i) /\ i \notin DOMAIN K
    <2>1. DOMAIN K \subseteq Nat /\ \A j \in DOMAIN K : K[j] \in DuoRecord
      BY <1>2, DLogType
    <2>2. \A j \in DOMAIN K : j < i
      BY <1>3 DEF DuoPlan
    <2> QED BY <1>2, <2>1, <2>2
  <1>5. /\ e \in DuoRecord /\ e.command = c /\ e.voted /\ e.tStatus = "TPrepared" /\ e.status = "Prepared"
    BY DEF D!makeInstance, DuoRecord
  <1> HIDE DEF e, i
  <1>6. DOMAIN L = DOMAIN K \cup {i} /\ L[i] = e /\ \A j \in DOMAIN K : L[j] = K[j]
    BY <1>4 DEF put
  <1>7. L \in DuoLogs
    <2>1. L \in [DOMAIN K \cup {i} -> DuoRecord]
      BY <1>4, <1>5 DEF put
    <2> QED BY <1>2, <1>4, <2>1, DLogIs
  <1>8. lg2 = [log EXCEPT ![Leader] = L]
    BY <1>1
  <1> HIDE DEF K, L, lg2
  <1>9. lg2 \in [Replicas -> DuoLogs] /\ lg2[Leader] = L /\ \A q \in Replicas \ {Leader} : lg2[q] = log[q]
    BY <1>2, <1>7, <1>8
  <1>10. /\ DOMAIN Plan(lg2) = DOMAIN Plan(log) \cup {i} /\ Plan(lg2)[i] = c
         /\ \A j \in DOMAIN Plan(log) : Plan(lg2)[j] = Plan(log)[j]
    BY <1>3, <1>5, <1>6, <1>9 DEF Plan, K
  <1>11. DuoAdvances(log[Leader], L)
    BY <1>6 DEF DuoAdvances, K
  <1>12. \A q \in Good(cfg) : \A j \in DOMAIN log[q] :
            DuoEntry(cfg, log, j, log[q][j]) /\ DuoEntry(cfg, lg2, j, log[q][j])
    BY <1>2, <1>3, <1>8, <1>11, DEntryStays DEF DuoInv, DuoOk
  <1>13. DuoEntry(cfg, lg2, i, e)
    BY <1>3, <1>5, <1>6, <1>9, <1>10 DEF DuoEntry
  <1>14. ASSUME NEW q \in Good(cfg)
         PROVE  /\ \A j \in DOMAIN lg2[q] : DuoEntry(cfg, lg2, j, lg2[q][j])
                /\ DuoExec(cfg, Plan(lg2), lg2[q], execIdx[q], executed[q])
    <2>1. DuoExec(cfg, Plan(log), log[q], execIdx[q], executed[q]) /\ log[q] \in DuoLogs /\ q \in Replicas
      BY <1>2 DEF DuoInv, DuoOk
    <2>2. DOMAIN log[q] \subseteq DOMAIN Plan(log)
      BY <1>12 DEF DuoEntry, Plan
    <2>3. DuoExec(cfg, Plan(lg2), log[q], execIdx[q], executed[q])
      BY <1>10, <2>1, <2>2, DPlanGrows
    <2>4. CASE q = Leader
      <3>1. TExecuted(L) = TExecuted(log[q])
        BY <1>5, <1>6, <2>4 DEF TExecuted, K
      <3>2. DuoExec(cfg, Plan(lg2), L, execIdx[q], executed[q])
        BY <1>6, <2>3, <2>4, <3>1, DSameExec DEF K
      <3>3. \A j \in DOMAIN L : DuoEntry(cfg, lg2, j, L[j])
        BY <1>3, <1>6, <1>12, <1>13 DEF K
      <3> QED BY <1>9, <2>4, <3>2, <3>3
    <2>5. CASE q # Leader
      BY <1>9, <1>12, <2>1, <2>3, <2>5
    <2> QED BY <2>4, <2>5
  <1>15. /\ index' \in [Replicas -> Nat] /\ index'[Leader] = i + 1 /\ requested' \subseteq Commands
    BY <1>1, <1>2 DEF i
  <1>16. DuoPlan(cfg, requested', index', Plan(lg2))
    <2>1. \A j \in DOMAIN Plan(log) : /\ j < i /\ j \in Nat /\ Plan(log)[j] \in requested
                                      /\ \A k \in DOMAIN Plan(log) : Plan(log)[j] = Plan(log)[k] => j = k
      BY <1>3, <1>4 DEF DuoPlan, i
    <2>2. \A j \in DOMAIN Plan(lg2) : j < index'[Leader]
      BY <1>2, <1>10, <1>15, <2>1
    <2>3. \A j \in DOMAIN Plan(lg2) : Plan(lg2)[j] \in requested'
      BY <1>1, <1>10, <2>1
    <2>4. \A j, k \in DOMAIN Plan(lg2) : Plan(lg2)[j] = Plan(lg2)[k] => j = k
      BY <1>1, <1>10, <2>1
    <2> QED BY <2>2, <2>3, <2>4 DEF DuoPlan
  <1>17. DuoOk(cfg, requested', index', lg2, execIdx, executed)
    BY <1>2, <1>9, <1>14, <1>15, <1>16 DEF DuoOk
  <1>18. DuoInv'
    BY <1>1, <1>17 DEF DuoInv, lg2
  <1> QED BY <1>1, <1>18 DEF Grows

LEMMA DNext ==
  ASSUME DuoInv, D!Next
  PROVE  DuoInv' /\ Grows
  <1>1. 0 .. MaxIndex - 1 \subseteq Nat
    BY ClusterAssumption
  <1>2. ASSUME NEW r, D!Crash(r) PROVE DuoInv' /\ Grows
    <2>1. UNCHANGED <<cfg, requested, index, log, execIdx, executed, answered>>
      BY <1>2 DEF D!Crash, D!stop
    <2> QED BY <2>1 DEF DuoInv, Grows
  <1> QED BY <1>1, <1>2, DRequest, DPrepare, DPreCommitSigned, DPreCommit, DCommitSigned, DCommit DEF D!Next

-----------------------------------------------------------------------------
(* What the invariant says of the commands that DuoBFT executes *)

\* Each has the votes that the rule of its client asks for.
LEMMA DCertified ==
  ASSUME DuoInv, NEW r \in Correct, NEW k \in DOMAIN executed[r]
  PROVE  D!certified(executed[r][k])
  <1> DEFINE pl == Plan(log)
             A == cfg.meta
             x == executed[r]
             c == x[k]
             b == (c \in A)
             hold(i) == {q \in D!Correct : D!has(q, i) /\ log[q][i].command = c}
  <1>0. b \in BOOLEAN
    OBVIOUS
  <1>1. x \in Seq(Commands) /\ MaxIndex \in Nat /\ Correct = Good(cfg) /\ D!Correct = Correct /\ Correct \subseteq Replicas
    BY DFacts, DBridge, ClusterAssumption
  <1>2. PICK m \in 0 .. MaxIndex : /\ Chosen(x, A, b) = Chosen(Firsts(pl, m), A, b)
                                   /\ \A i \in 0 .. m - 1 :
                                         /\ i \in DOMAIN pl /\ pl[i] \in Commands
                                         /\ b => Cardinality(DVoters(cfg, log, i)) >= cfg.f + 1
                                         /\ ~b => Cardinality(DCVoters(cfg, log, i)) >= 2 * cfg.f + 1
    BY <1>0, DExecutedIs
  <1>3. PICK i \in 0 .. m - 1 : c = pl[i]
    <2>1. c \in Range(x)
      BY DEF Range
    <2> HIDE DEF pl, A, x
    <2>2. m \in Nat
      BY <1>1
    <2>3. Firsts(pl, m) \in Seq(Commands)
      BY <1>2, <2>2, FirstsType
    <2>4. ChosenOk(Commands, Firsts(pl, m), A)
      BY <2>3, ChosenFacts
    <2>5. ChosenOk(Commands, x, A)
      BY <1>1, ChosenFacts
    <2> HIDE DEF c
    <2>6. Range(Chosen(x, A, b)) = {d \in Range(x) : (d \in A) = b}
      BY <1>0, <2>5 DEF ChosenOk
    <2>7. Range(Chosen(Firsts(pl, m), A, b)) = {d \in Range(Firsts(pl, m)) : (d \in A) = b}
      BY <1>0, <2>4 DEF ChosenOk
    <2>8. c \in Range(Firsts(pl, m))
      BY <1>2, <2>1, <2>6, <2>7
    <2>9. PICK j \in 1 .. m : c = pl[j - 1]
      BY <2>8 DEF Range, Firsts
    <2>10. j - 1 \in 0 .. m - 1
      BY <2>2
    <2> QED BY <2>9, <2>10
  <1>4. i \in 0 .. MaxIndex - 1
    BY <1>1
  <1>5. \A q \in Good(cfg) : i \in DOMAIN log[q] => log[q][i].command = c
    BY <1>3 DEF DuoInv, DuoOk, DuoEntry
  <1>6. D!voters(i) \cap hold(i) = DVoters(cfg, log, i) /\ D!cVoters(i) \cap hold(i) = DCVoters(cfg, log, i)
    BY <1>1, <1>5 DEF D!voters, D!cVoters, D!has, DVoters, DCVoters
  <1>7. IF c \in A THEN D!tcMajority(D!voters(i) \cap hold(i)) ELSE D!cMajority(D!cVoters(i) \cap hold(i))
    <2> HIDE DEF c, A, hold, pl
    <2>1. D!Cardinality(DVoters(cfg, log, i)) = Cardinality(DVoters(cfg, log, i))
      BY DBridge
    <2>2. D!Cardinality(DCVoters(cfg, log, i)) = Cardinality(DCVoters(cfg, log, i))
      BY DBridge
    <2> QED BY <1>2, <1>6, <2>1, <2>2 DEF D!tcMajority, D!cMajority
  <1> QED BY <1>4, <1>7 DEF D!certified

-----------------------------------------------------------------------------
(* What the invariant of the other protocols says of the commands they execute *)

\* Every execution has its quorum in the protocol's own words.
LEMMA CoreCertified ==
  ASSUME Core, cfg.protocol # "duobft", NEW r \in Correct, NEW k \in DOMAIN executed[r]
  PROVE  certified(k, executed[r][k])
  <1> DEFINE c == executed[r][k]
             i == k - 1
             W == Voters(cfg, log, i, c) \cup Liars(cfg)
  <1>1. cfg \in Scenarios /\ Correct = Good(cfg) /\ executed[r] \in Seq(Commands)
    BY CoreFacts
  <1>2. cfg.protocol \in Protocols /\ cfg.f \in Nat /\ Good(cfg) \subseteq Replicas /\ Liars(cfg) \subseteq Replicas
        /\ IsFiniteSet(Replicas)
    BY <1>1, ScenarioFacts DEF Scenario
  <1>3. k \in 1 .. Len(executed[r])
    BY <1>1
  <1>4. Cert(cfg, log, i, c)
    BY <1>1, <1>3 DEF Core, LogsOk, ExecOk
  <1>5. Cardinality(W) >= Need(cfg)
    BY <1>4 DEF Cert
  <1>6. W \subseteq Replicas
    BY <1>2 DEF Voters
  <1>7. Cardinality(W) \in Nat
    <2>1. IsFiniteSet(W)
      BY <1>2, <1>6, FS_Subset
    <2> QED BY <2>1, FS_CardinalityType
  <1>8. CASE cfg.protocol = "sbft"
    <2>1. S!signers(i, c) = W /\ (S!Majority(W) <=> Cardinality(W) >= Need(cfg))
      BY <1>8, SVotes
    <2>2. S!certified(i, c)
      BY <1>5, <2>1 DEF S!certified
    <2> QED BY <1>8, <2>2 DEF certified
  <1>9. CASE cfg.protocol = "sbftslow"
    <2>1. SL!signers("cSigned", i, c) = W /\ (SL!Majority(W) <=> Cardinality(W) >= Need(cfg))
      BY <1>9, SLVotes
    <2>2. SL!certified(i, c)
      BY <1>5, <2>1 DEF SL!certified
    <2> QED BY <1>9, <2>2 DEF certified
  <1>10. CASE cfg.protocol = "linhybster"
    <2>1. LH!signers(i, c) = W /\ (LH!Majority(W) <=> Cardinality(W) >= Need(cfg))
      BY <1>10, LHVotes
    <2>2. LH!certified(i, c)
      BY <1>5, <2>1 DEF LH!certified
    <2> QED BY <1>10, <2>2 DEF certified
  <1>11. CASE cfg.protocol = "minbft"
    <2>1. MB!Correct = Good(cfg) /\ \A V : MB!Cardinality(V) = Cardinality(V)
      BY <1>1, MBBridge
    <2>2. {q \in MB!voters(i) : log[q][i].command = c} = W
      BY <1>11, <2>1 DEF MB!voters, Voters, Liars, votedIn, hashOf
    <2>3. Need(cfg) = cfg.f + 1
      BY <1>11 DEF Need
    <2> HIDE DEF W, c, i
    <2>4. Cardinality(W) > cfg.f
      BY <1>2, <1>5, <1>7, <2>3
    <2>5. MB!certified(i, c)
      BY <2>1, <2>2, <2>4 DEF MB!certified, MB!Majority
    <2> QED BY <1>11, <2>5 DEF certified, c, i
  <1>12. CASE cfg.protocol = "hybster"
    <2>1. H!Correct = Good(cfg) /\ \A V : H!Cardinality(V) = Cardinality(V)
      BY <1>1, HBridge
    <2>2. {q \in H!Correct : i \in DOMAIN log[q] /\ log[q][i].prepared /\ log[q][i].hash = c} = W
      BY <1>12, <2>1 DEF Voters, Liars, votedIn, hashOf
    <2>3. Need(cfg) = cfg.f + 1
      BY <1>12 DEF Need
    <2> HIDE DEF W, c, i
    <2>4. Cardinality(W) > cfg.f
      BY <1>2, <1>5, <1>7, <2>3
    <2>5. H!certified(i, c)
      BY <2>1, <2>2, <2>4 DEF H!certified
    <2> QED BY <1>12, <2>5 DEF certified, c, i
  <1>13. CASE cfg.protocol = "mirbft"
    <2>1. M!commitVoters(i, c) = W
      BY <1>13, MVotes
    <2>2. \A V : M!Cardinality(V) = Cardinality(V)
      BY MBridge
    <2>3. Need(cfg) = 2 * cfg.f + 1
      BY <1>13 DEF Need
    <2> HIDE DEF W, c, i
    <2>4. Cardinality(W) > 2 * cfg.f
      BY <1>2, <1>5, <1>7, <2>3
    <2>5. M!certified(i, c)
      BY <2>1, <2>2, <2>4 DEF M!certified, M!Majority
    <2> QED BY <1>13, <2>5 DEF certified, c, i
  <1> QED BY <1>2, <1>8, <1>9, <1>10, <1>11, <1>12, <1>13 DEF Protocols

\* With correct proposers no command is executed twice: its two quorums would both hold
\* proposals of it, for different indices.
LEMMA CoreOnce ==
  ASSUME Core, MirOk(cfg, log, index), ProposersCorrect, NEW r \in Correct
  PROVE  Once(executed[r])
  <1>1. cfg \in Scenarios /\ Correct = Good(cfg) /\ executed[r] \in Seq(Commands) /\ requested \subseteq Commands
    BY CoreFacts
  <1>2. EntriesOk(cfg, log) /\ Distinct(cfg, log, requested)
    BY DEF Core, LogsOk
  <1>3. ASSUME NEW k \in DOMAIN executed[r]
        PROVE  LET p == Proposer(cfg, k - 1)
               IN  /\ p \in Good(cfg) /\ k - 1 \in DOMAIN log[p] /\ k - 1 \in Nat /\ k \in Nat
                   /\ PropOf(cfg.protocol, log[p][k - 1]) = executed[r][k]
    <2> DEFINE i == k - 1
               c == executed[r][k]
               p == Proposer(cfg, i)
    <2>1. k \in 1 .. Len(executed[r]) /\ c \in Commands
      BY <1>1, <1>3, ElementOfSeq
    <2>2. i \in Nat /\ k \in Nat
      BY <2>1
    <2>3. Cert(cfg, log, i, c)
      BY <1>1, <2>1 DEF Core, LogsOk, ExecOk
    <2>4. Proposed(cfg, log, i, c)
      BY <1>1, <1>2, <2>1, <2>3, CertIsProposed
    <2>5. p \in Good(cfg)
      <3>1. CASE cfg.protocol = "mirbft"
        <4>1. PICK q \in Good(cfg) : q \in Voters(cfg, log, i, c)
          BY <1>1, <2>3, CertHasVoter
        <4>2. MirEntry(cfg, index, q, i, log[q][i])
          BY <3>1, <4>1 DEF MirOk, Voters
        <4> QED BY <1>1, <4>2 DEF MirEntry, ProposersCorrect
      <3>2. CASE cfg.protocol # "mirbft"
        BY <1>1, <3>2 DEF ProposersCorrect, Proposer
      <3> QED BY <3>1, <3>2
    <2> QED BY <2>2, <2>4, <2>5 DEF Proposed
  <1>4. ASSUME NEW k \in DOMAIN executed[r], NEW l \in DOMAIN executed[r], executed[r][k] = executed[r][l]
        PROVE  k = l
    <2> DEFINE p == Proposer(cfg, k - 1)
               q == Proposer(cfg, l - 1)
    <2>1. /\ p \in Good(cfg) /\ k - 1 \in DOMAIN log[p] /\ k - 1 \in Nat /\ k \in Nat
          /\ PropOf(cfg.protocol, log[p][k - 1]) = executed[r][k]
      BY <1>3
    <2>2. /\ q \in Good(cfg) /\ l - 1 \in DOMAIN log[q] /\ l - 1 \in Nat /\ l \in Nat
          /\ PropOf(cfg.protocol, log[q][l - 1]) = executed[r][l]
      BY <1>3
    <2>3. k - 1 = l - 1
      BY <1>2, <1>4, <2>1, <2>2 DEF Distinct
    <2> QED BY <2>1, <2>2, <2>3
  <1> QED BY <1>4 DEF Once

-----------------------------------------------------------------------------
(* The protocols together *)

Inv == IF cfg.protocol = "duobft" THEN DuoInv ELSE ClusterInv /\ MirOk(cfg, log, index)

LEMMA InvInit ==
  ASSUME Init PROVE Inv
  BY DInit, CoreInit DEF Inv

\* The invariant is inductive, and a step executes more at one correct replica at most.
LEMMA InvNext ==
  ASSUME Inv, Next PROVE Inv' /\ Grows
  <1>1. CASE cfg.protocol = "duobft" /\ D!Next
    <2>1. DuoInv' /\ Grows
      BY <1>1, DNext DEF Inv
    <2> QED BY <1>1, <2>1 DEF Inv, Grows
  <1>2. CASE cfg.protocol = "mirbft" /\ M!Next
    <2>1. ClusterInv /\ MirOk(cfg, log, index)
      BY <1>2 DEF Inv
    <2>2. ClusterInv' /\ MirOk(cfg, log', index') /\ cfg' = cfg
      BY <1>2, <2>1, MNext
    <2>3. Grows
      BY <1>2, <2>1, MGrows
    <2> QED BY <1>2, <2>2, <2>3 DEF Inv
  <1>3. ASSUME cfg.protocol # "duobft", cfg.protocol # "mirbft", ClusterInv', Grows PROVE Inv'
    <2>1. cfg' = cfg
      BY <1>3 DEF Grows
    <2> QED BY <1>3, <2>1 DEF Inv, MirOk
  <1>4. CASE cfg.protocol = "sbft" /\ S!Next
    <2>1. ClusterInv' /\ Grows
      BY <1>4, SNext, SGrows DEF Inv
    <2> QED BY <1>3, <1>4, <2>1
  <1>5. CASE cfg.protocol = "sbftslow" /\ SL!Next
    <2>1. ClusterInv' /\ Grows
      BY <1>5, SLNext, SLGrows DEF Inv
    <2> QED BY <1>3, <1>5, <2>1
  <1>6. CASE cfg.protocol = "linhybster" /\ LH!Next
    <2>1. ClusterInv' /\ Grows
      BY <1>6, LHNext, LHGrows DEF Inv
    <2> QED BY <1>3, <1>6, <2>1
  <1>7. CASE cfg.protocol = "minbft" /\ MB!Next
    <2>1. ClusterInv' /\ Grows
      BY <1>7, MBNext, MBGrows DEF Inv
    <2> QED BY <1>3, <1>7, <2>1
  <1>8. CASE cfg.protocol = "hybster" /\ H!Next
    <2>1. ClusterInv' /\ Grows
      BY <1>8, HNext, HGrows DEF Inv
    <2> QED BY <1>3, <1>8, <2>1
  <1> QED BY <1>1, <1>2, <1>4, <1>5, <1>6, <1>7, <1>8 DEF Next

\* A step that changes nothing.
LEMMA InvStutters ==
  ASSUME Inv, UNCHANGED vars PROVE Inv' /\ Grows
  <1>1. /\ cfg' = cfg /\ requested' = requested /\ index' = index /\ log' = log /\ chan' = chan /\ jobs' = jobs
        /\ execIdx' = execIdx /\ executed' = executed /\ results' = results /\ answered' = answered
    BY DEF vars
  <1>2. DuoInv' <=> DuoInv
    BY <1>1 DEF DuoInv
  <1>3. ClusterInv' <=> ClusterInv
    BY <1>1 DEF ClusterInv, Core
  <1>4. MirOk(cfg, log, index)' <=> MirOk(cfg, log, index)
    BY <1>1
  <1> QED BY <1>1, <1>2, <1>3, <1>4 DEF Inv, Grows

LEMMA Invariant == Spec => []Inv
  <1>1. Init => Inv
    BY InvInit
  <1>2. Inv /\ [Next]_vars => Inv'
    BY InvNext, InvStutters
  <1> QED BY <1>1, <1>2, PTL DEF Spec

-----------------------------------------------------------------------------
(* The invariants *)

\* In each of the seven protocols, for clusters of any size and logs of any length: a client
\* is answered only when a correct replica has executed its command, as more than f replicas
\* have reported a result (stepResult), and so many are not all faulty.
THEOREM Answers == Spec => []AnswerBacked
  <1>1. Inv => AnswerBacked
    <2> SUFFICES ASSUME Inv PROVE AnswerBacked
      OBVIOUS
    <2>1. CASE cfg.protocol = "duobft"
      BY <2>1 DEF Inv, DuoInv, AnswerBacked
    <2>2. CASE cfg.protocol # "duobft"
      <3>1. Core /\ Correct = Good(cfg)
        BY <2>2, CoreFacts DEF Inv, ClusterInv
      <3> QED BY <3>1 DEF Core, AnswersOk, AnswerBacked
    <2> QED BY <2>1, <2>2
  <1> QED BY <1>1, Invariant, PTL

\* Whatever a correct replica executes has the votes of a quorum behind it that its protocol
\* asks for: the signature shares of SBFT and Linear Hybster, the Commits of the others,
\* in DuoBFT the votes of the rule that the client chose.
THEOREM Certificates == Spec => []Certified
  <1>1. Inv => Certified
    <2> SUFFICES ASSUME Inv, NEW r \in Correct, NEW k \in DOMAIN executed[r]
                 PROVE  certified(k, executed[r][k])
      BY DEF Certified
    <2>1. CASE cfg.protocol = "duobft"
      <3>1. D!certified(executed[r][k])
        BY <2>1, DCertified DEF Inv
      <3> QED BY <2>1, <3>1 DEF certified
    <2>2. CASE cfg.protocol # "duobft"
      BY <2>2, CoreCertified DEF Inv, ClusterInv
    <2> QED BY <2>1, <2>2
  <1> QED BY <1>1, Invariant, PTL

\* With correct proposers no correct replica executes a command twice, however proposals,
\* votes and callbacks interleave.
THEOREM OnceEach == Spec => []ExecutedOnce
  <1>1. Inv => ExecutedOnce
    <2> SUFFICES ASSUME Inv, ProposersCorrect, NEW r \in Correct PROVE Once(executed[r])
      BY DEF ExecutedOnce, Once
    <2>1. CASE cfg.protocol = "duobft"
      BY <2>1, DOnce DEF Inv
    <2>2. CASE cfg.protocol # "duobft"
      BY <2>2, CoreOnce DEF Inv, ClusterInv
    <2> QED BY <2>1, <2>2
  <1> QED BY <1>1, Invariant, PTL

-----------------------------------------------------------------------------
(* Refinement of TotalOrder *)

Deliveries(b) == [r \in Replicas |-> executedOf(r, b)]

\* The correct replicas have delivered parts of one sequence.
OrderOk(G, d) == d \in [Replicas -> Seq(Commands)] /\ \A s, t \in G : Compatible(d[s], d[t])

OrdersOk ==
    /\ Correct \subseteq Replicas /\ IsFiniteSet(Correct) /\ Correct # {}
    /\ executed \in [Replicas -> Seq(Commands)]
    /\ \A b \in BOOLEAN : /\ OrderOk(Correct, Deliveries(b))
                          /\ LongestExecuted(b) = LongestOf(Correct, Deliveries(b))

\* What executedOf says, protocol by protocol.
LEMMA DeliveriesAre ==
  ASSUME NEW b, NEW r \in Replicas
  PROVE  /\ Deliveries(b)[r] = executedOf(r, b)
         /\ cfg.protocol = "duobft" => Deliveries(b)[r] = Chosen(executed[r], cfg.meta, b)
         /\ cfg.protocol # "duobft" => Deliveries(b)[r] = executed[r]
  <1>1. D!chosen(executed[r], b) = Chosen(executed[r], cfg.meta, b)
    BY DBridge
  <1> QED BY <1>1 DEF Deliveries, executedOf

LEMMA LongestSame ==
  ASSUME NEW b \in BOOLEAN, Correct \subseteq Replicas, IsFiniteSet(Correct), Correct # {},
         OrderOk(Correct, Deliveries(b))
  PROVE  LongestExecuted(b) = LongestOf(Correct, Deliveries(b))
  <1> DEFINE d == Deliveries(b)
             q == CHOOSE r \in Correct : \A s \in Correct : Len(executedOf(s, b)) <= Len(executedOf(r, b))
  <1>1. d \in [Replicas -> Seq(Commands)] /\ \A s, t \in Correct : Compatible(d[s], d[t])
    BY DEF OrderOk
  <1>2. \A r \in Correct : d[r] = executedOf(r, b) /\ d[r] \in Seq(Commands)
    BY <1>1, DeliveriesAre
  <1>3. LongestExecuted(b) = executedOf(q, b)
    BY DEF LongestExecuted
  <1> HIDE DEF d
  <1>4. PICK p \in Correct : Longest([r \in Correct |-> d[r]], Correct, p) /\ LongestOf(Correct, d) = d[p]
    BY <1>2, LongestIs
  <1>5. \A s \in Correct : Len(d[s]) <= Len(d[p])
    BY <1>4 DEF Longest
  <1>6. \A s \in Correct : Len(executedOf(s, b)) <= Len(executedOf(p, b))
    BY <1>2, <1>5
  <1>7. q \in Correct /\ \A s \in Correct : Len(executedOf(s, b)) <= Len(executedOf(q, b))
    BY <1>6
  <1> HIDE DEF q
  <1>8. /\ d[q] \in Seq(Commands) /\ d[p] \in Seq(Commands) /\ Len(d[q]) \in Nat /\ Len(d[p]) \in Nat
        /\ Len(d[p]) <= Len(d[q]) /\ Len(d[q]) <= Len(d[p])
    BY <1>2, <1>5, <1>7, LenProperties
  <1>9. Len(d[q]) = Len(d[p]) /\ \A k \in 1 .. Len(d[q]) : d[q][k] = d[p][k]
    BY <1>1, <1>7, <1>8 DEF Compatible
  <1>10. d[q] = d[p]
    BY <1>8, <1>9, SeqEqual
  <1> QED BY <1>2, <1>3, <1>4, <1>7, <1>10 DEF d

LEMMA OrdersHold == Inv => OrdersOk
  <1> SUFFICES ASSUME Inv PROVE OrdersOk
    OBVIOUS
  <1>1. cfg \in Scenarios /\ Correct = Good(cfg) /\ Correct \subseteq Replicas /\ executed \in [Replicas -> Seq(Commands)]
    BY DFacts, CoreFacts DEF Inv, ClusterInv
  <1>2. IsFiniteSet(Correct)
    BY <1>1, ScenarioFacts, FS_Subset
  <1>3. Correct # {}
    BY <1>1, CorrectSome
  <1>4. ASSUME NEW b \in BOOLEAN PROVE OrderOk(Correct, Deliveries(b))
    <2>1. CASE cfg.protocol = "duobft"
      <3>1. \A r \in Replicas : Deliveries(b)[r] = Chosen(executed[r], cfg.meta, b)
        BY <2>1, DeliveriesAre
      <3>2. ASSUME NEW r \in Replicas PROVE Chosen(executed[r], cfg.meta, b) \in Seq(Commands)
        <4> DEFINE x == executed[r]
                   A == cfg.meta
        <4>1. x \in Seq(Commands)
          BY <1>1
        <4> HIDE DEF x, A
        <4>2. ChosenOk(Commands, x, A)
          BY <4>1, ChosenFacts
        <4> QED BY <4>2 DEF ChosenOk, x, A
      <3>3. Deliveries(b) \in [Replicas -> Seq(Commands)]
        BY <3>1, <3>2 DEF Deliveries
      <3>4. \A s, t \in Correct : Compatible(Deliveries(b)[s], Deliveries(b)[t])
        BY <1>1, <2>1, <3>1, DOrders DEF Inv
      <3> QED BY <3>3, <3>4 DEF OrderOk
    <2>2. CASE cfg.protocol # "duobft"
      <3>1. \A r \in Replicas : Deliveries(b)[r] = executed[r]
        BY <2>2, DeliveriesAre
      <3>2. Deliveries(b) \in [Replicas -> Seq(Commands)]
        BY <1>1, <3>1 DEF Deliveries
      <3>3. \A s, t \in Correct : Compatible(Deliveries(b)[s], Deliveries(b)[t])
        BY <1>1, <2>2, <3>1, CoreOrders DEF Inv, ClusterInv
      <3> QED BY <3>2, <3>3 DEF OrderOk
    <2> QED BY <2>1, <2>2
  <1> QED BY <1>1, <1>2, <1>3, <1>4, LongestSame DEF OrdersOk

\* A step delivers more of the order at one replica, or nothing.
LEMMA StepDelivers ==
  ASSUME OrdersOk, OrdersOk', Grows, NEW b \in BOOLEAN
  PROVE  \/ Deliveries(b)' = Deliveries(b) /\ LongestExecuted(b)' = LongestExecuted(b)
         \/ \E r \in Replicas : Delivers(Deliveries(b), Deliveries(b)', LongestExecuted(b), LongestExecuted(b)', r)
  <1> DEFINE d == Deliveries(b)
             e == Deliveries(b)'
             G == Correct
  <1>1. cfg' = cfg /\ Correct' = Correct
    BY DEF Grows, Correct
  <1>2. /\ Correct \subseteq Replicas /\ IsFiniteSet(Correct)
        /\ executed \in [Replicas -> Seq(Commands)] /\ executed' \in [Replicas -> Seq(Commands)]
    BY DEF OrdersOk
  <1>3. OrderOk(G, d) /\ LongestExecuted(b) = LongestOf(G, d)
    BY DEF OrdersOk
  <1>4. OrderOk(G, e) /\ LongestExecuted(b)' = LongestOf(G, e)
    BY <1>1 DEF OrdersOk
  <1>5. ASSUME NEW r \in Replicas
        PROVE  /\ cfg.protocol = "duobft" => d[r] = Chosen(executed[r], cfg.meta, b)
               /\ cfg.protocol # "duobft" => d[r] = executed[r]
    BY DeliveriesAre
  <1>6. ASSUME NEW r \in Replicas
        PROVE  /\ cfg.protocol = "duobft" => e[r] = Chosen(executed'[r], cfg.meta, b)
               /\ cfg.protocol # "duobft" => e[r] = executed'[r]
    <2>1. D!chosen(executed[r], b)' = Chosen(executed'[r], cfg.meta, b)
      <3>1. D!chosen(executed'[r], b) = Chosen(executed'[r], cfg.meta, b)
        BY DBridge
      <3>2. D!chosen(executed[r], b)' = D!chosen(executed'[r], b)
        BY <1>1 DEF D!chosen
      <3> QED BY <3>1, <3>2
    <2>2. e[r] = executedOf(r, b)'
      BY DEF Deliveries
    <2> QED BY <1>1, <2>1, <2>2 DEF executedOf
  <1>7. CASE d = e
    BY <1>3, <1>4, <1>7
  <1>8. CASE d # e
    <2>1. d \in [Replicas -> Seq(Commands)] /\ e \in [Replicas -> Seq(Commands)]
      BY <1>3, <1>4 DEF OrderOk
    <2>2. executed' # executed
      <3>1. ASSUME executed' = executed PROVE \A r \in Replicas : d[r] = e[r]
        BY <1>5, <1>6, <3>1
      <3> HIDE DEF d, e
      <3> QED BY <1>8, <2>1, <3>1
    <2>3. PICK r \in Correct : GrowsAt(r)
      BY <2>2 DEF Grows
    <2>4. r \in Replicas
      BY <1>2
    <2>5. /\ \A q \in Replicas \ {r} : executed'[q] = executed[q]
          /\ Len(executed[r]) <= Len(executed'[r]) /\ Compatible(executed[r], executed'[r])
      BY <1>2, <2>3, <2>4, GrowsPrefix
    <2>6. \A q \in Replicas \ {r} : e[q] = d[q]
      <3> HIDE DEF d, e
      <3> QED BY <1>5, <1>6, <2>5
    <2>7. Len(d[r]) <= Len(e[r]) /\ Compatible(d[r], e[r])
      <3>1. CASE cfg.protocol = "duobft"
        <4> DEFINE x == executed[r]
                   y == executed'[r]
                   A == cfg.meta
        <4>1. x \in Seq(Commands) /\ y \in Seq(Commands) /\ Len(x) <= Len(y) /\ Compatible(x, y)
          BY <1>2, <2>4, <2>5
        <4>2. d[r] = Chosen(x, A, b) /\ e[r] = Chosen(y, A, b)
          BY <1>5, <1>6, <2>4, <3>1
        <4> HIDE DEF x, y, A, d, e
        <4>3. Len(Chosen(x, A, b)) <= Len(Chosen(y, A, b)) /\ Compatible(Chosen(x, A, b), Chosen(y, A, b))
          BY <4>1, ChosenGrows
        <4> QED BY <4>2, <4>3
      <3>2. CASE cfg.protocol # "duobft"
        <4>1. d[r] = executed[r] /\ e[r] = executed'[r]
          BY <1>5, <1>6, <2>4, <3>2
        <4> HIDE DEF d, e
        <4> QED BY <2>5, <4>1
      <3> QED BY <3>1, <3>2
    <2> HIDE DEF d, e
    <2>8. e[r] # d[r]
      BY <1>8, <2>1, <2>6
    <2>9. (\A s, t \in G : Compatible(d[s], d[t])) /\ \A s, t \in G : Compatible(e[s], e[t])
      BY <1>3, <1>4 DEF OrderOk
    <2>10. G \in SUBSET Replicas /\ r \in G /\ IsFiniteSet(G)
      BY <1>2
    <2> HIDE DEF G
    <2>11. Delivers(d, e, LongestOf(G, d), LongestOf(G, e), r)
      BY <2>1, <2>6, <2>7, <2>8, <2>9, <2>10, OrderStep
    <2> QED BY <1>3, <1>4, <2>4, <2>11 DEF d, e
  <1> QED BY <1>7, <1>8

\* Whichever replicas crash, and whatever faulty ones send, the commands that the correct
\* replicas of each protocol execute form one total order: a step of the cluster is a step of
\* TotalOrder or leaves it unchanged.  For DuoBFT this is shown of each of its commit rules.
THEOREM Order == Spec => ImplementsTotalOrder
  <1>1. Init => Plain!Init /\ WithMeta!Init
    <2> SUFFICES ASSUME Init PROVE Plain!Init /\ WithMeta!Init
      OBVIOUS
    <2>1. OrdersOk
      BY InvInit, OrdersHold
    <2>2. ASSUME NEW b \in BOOLEAN
          PROVE  /\ Deliveries(b) = [r \in Replicas |-> << >>]
                 /\ LongestExecuted(b) = << >>
      <3>1. ASSUME NEW r \in Replicas PROVE executedOf(r, b) = << >>
        <4>1. executed[r] = << >>
          BY DEF Init
        <4>2. D!chosen(<< >>, b) = << >>
          BY DBridge, ChosenNone
        <4> QED BY <4>1, <4>2 DEF executedOf
      <3>2. Deliveries(b) = [r \in Replicas |-> << >>]
        BY <3>1 DEF Deliveries
      <3>3. /\ Correct \subseteq Replicas /\ IsFiniteSet(Correct) /\ Correct # {}
            /\ LongestExecuted(b) = LongestOf(Correct, Deliveries(b))
        BY <2>1 DEF OrdersOk
      <3>4. \A r \in Correct : Deliveries(b)[r] \in Seq(Commands)
        BY <3>2, <3>3
      <3>5. \E q \in Correct : LongestOf(Correct, Deliveries(b)) = Deliveries(b)[q]
        BY <3>3, <3>4, LongestIs
      <3> QED BY <3>2, <3>3, <3>5
    <2> QED BY <2>2 DEF Plain!Init, WithMeta!Init, Deliveries
  <1>2. Inv /\ Inv' /\ [Next]_vars => [Plain!Next]_(Plain!vars) /\ [WithMeta!Next]_(WithMeta!vars)
    <2> SUFFICES ASSUME Inv, Inv', [Next]_vars
                 PROVE  [Plain!Next]_(Plain!vars) /\ [WithMeta!Next]_(WithMeta!vars)
      OBVIOUS
    <2>1. Grows
      BY InvNext, InvStutters
    <2>2. OrdersOk
      BY OrdersHold
    <2>3. OrdersOk'
      BY OrdersHold, PTL
    <2>4. \A b \in BOOLEAN :
             \/ Deliveries(b)' = Deliveries(b) /\ LongestExecuted(b)' = LongestExecuted(b)
             \/ \E r \in Replicas : Delivers(Deliveries(b), Deliveries(b)', LongestExecuted(b), LongestExecuted(b)', r)
      BY <2>1, <2>2, <2>3, StepDelivers
    <2>5. \A r \in Replicas :
             Delivers(Deliveries(FALSE), Deliveries(FALSE)', LongestExecuted(FALSE), LongestExecuted(FALSE)', r)
                => Plain!Deliver(r)
      BY DEF Plain!Deliver, Plain!Prefix, Delivers, IsPrefixOf, Deliveries
    <2>6. \A r \in Replicas :
             Delivers(Deliveries(TRUE), Deliveries(TRUE)', LongestExecuted(TRUE), LongestExecuted(TRUE)', r)
                => WithMeta!Deliver(r)
      BY DEF WithMeta!Deliver, WithMeta!Prefix, Delivers, IsPrefixOf, Deliveries
    <2>7. [Plain!Next]_(Plain!vars)
      BY <2>4, <2>5 DEF Plain!Next, Plain!vars, Deliveries
    <2>8. [WithMeta!Next]_(WithMeta!vars)
      BY <2>4, <2>6 DEF WithMeta!Next, WithMeta!vars, Deliveries
    <2> QED BY <2>7, <2>8
  <1> QED BY <1>1, <1>2, Invariant, PTL DEF Spec, ImplementsTotalOrder, Plain!Spec, WithMeta!Spec
====
