-------------------------------- MODULE Prime --------------------------------
(***************************************************************************)
(* protocols/prime: every replica broadcasts the commands of its clients   *)
(* (PORequest), a command is pre-ordered at a replica when 2f + 1 replicas *)
(* acknowledge it, and a replica's summary says up to which index it has   *)
(* pre-ordered the commands of each owner.  The primary proposes the       *)
(* matrix of the summaries that it has; the matrix takes PBFT's three      *)
(* phases, and executing it means: the commands of every owner up to the   *)
(* (f + 1)-st smallest index in its column.  Indices count from 0 here, in *)
(* the code from 1; a summary counts commands.                             *)
(*                                                                         *)
(* The primary's own row of a matrix is the slice p.poSummary itself, once *)
(* sendSummary has stored it there: it goes on changing after the matrix   *)
(* is proposed, in the primary's log but not in the message.  Such a row   *)
(* is Nil here.  Nothing is faulty: certificates name no sender.           *)
(*                                                                         *)
(* Messages are signed by a pool of workers, so those of one replica       *)
(* arrive in any order: chan holds the summaries on their way.             *)
(***************************************************************************)
EXTENDS DqCluster

VARIABLES
    poSummary,  \* [Replicas -> [clients -> Nat]], p.poSummary
    summaries,  \* [Replicas -> row], the primary's lastPreorderSummaries
    hash,       \* its lastPreorderSummariesHash, as the matrix it is the hash of
    lastHash    \* its lastPrepareHash

primeVars == <<poSummary, summaries, hash, lastHash>>

\* A summary with nothing in it; it has no entries for replicas without clients.
zero == [q \in cfg.clients |-> 0]

PrimeInit ==
    /\ Init
    /\ poSummary = [r \in Replicas |-> zero]
    /\ summaries = [r \in Replicas |-> zero]
    /\ hash = summaries /\ lastHash = summaries

\* A matrix as the primary sees it when its own summary is own.
resolve(mat, own) == [q \in Replicas |-> IF mat[q] = Nil THEN own ELSE mat[q]]

-----------------------------------------------------------------------------
(* Pre-ordering *)

makeInstance(status, command) == [status |-> status, command |-> command, val |-> command]

\* The replicas whose PORequest or POAck for id has been sent.
voters(id) == {q \in cfg.members : has(q, id)}

Majority(votes) == Cardinality(votes) > 2 * cfg.f

\* The results that testing a quorum may have that has some votes and may have others.
outcomes(votes, others) ==
    {b \in BOOLEAN : IF b THEN Majority(votes \cup others) ELSE ~Majority(votes)}

\* summarize: the first index of the owner that is not pre-ordered in L; the commands
\* that are executed have been counted before.
counted(r, L, owner) ==
    Min({i \in poSummary[r][owner] .. cfg.commands :
            i = cfg.commands \/ instanceID(owner, i) \notin DOMAIN L
            \/ L[instanceID(owner, i)].status # "PreOrderAck"})

summarize(r, L, owner) == poSummary' = [poSummary EXCEPT ![r][owner] = counted(r, L, owner)]

onRequest(r, c) ==
    /\ newCommand(r, c)
    /\ requested' = requested \cup {c}
    /\ index' = [index EXCEPT ![r] = @ + 1]
    /\ log' = [log EXCEPT ![r] = put(@, instanceID(r, index[r]), makeInstance("PreOrder", c))]
    /\ UNCHANGED <<cfg, oindex, cReqBuffer, chan, jobs, oexecIdx, executed, crashed, panicked, primeVars>>

\* onPORequest: the owner's vote, its own and those that came before.
onPORequest(r, id) ==
    /\ ~isBatch(id) /\ r \in Alive \ {id.owner} /\ has(id.owner, id) /\ ~has(r, id)
    /\ \E acked \in outcomes({id.owner, r}, voters(id)) :
          LET L == put(log[r], id, makeInstance(IF acked THEN "PreOrderAck" ELSE "PreOrder",
                                                log[id.owner][id].val))
          IN  /\ log' = [log EXCEPT ![r] = L]
              /\ IF acked THEN summarize(r, L, id.owner) ELSE UNCHANGED poSummary
    /\ UNCHANGED <<cfg, requested, index, oindex, cReqBuffer, chan, jobs, oexecIdx, executed, crashed,
                   panicked, summaries, hash, lastHash>>

unacked(r, id, replicas) ==
    ~isBatch(id) /\ has(r, id) /\ log[r][id].status = "PreOrder" /\ Majority(voters(id) \cap replicas)

\* onPOAck, with the acknowledgement that completes the quorum.
onPOAck(r, id) ==
    LET L == [log[r] EXCEPT ![id].status = "PreOrderAck"]
    IN  /\ r \in Alive /\ unacked(r, id, cfg.members)
        /\ log' = [log EXCEPT ![r] = L]
        /\ summarize(r, L, id.owner)
        /\ UNCHANGED <<cfg, requested, index, oindex, cReqBuffer, chan, jobs, oexecIdx, executed, crashed,
                       panicked, summaries, hash, lastHash>>

\* sendSummary at a follower, by a timer.  One that the primary has, or that is on its
\* way, need not be sent again: it would be when an older one has taken its place.
sendSummary(r) ==
    /\ r \in Alive \ {Primary} /\ poSummary[r] \notin {summaries[r]} \cup Range(chan[r][Primary])
    /\ chan' = broadcast(chan, r, {Primary}, poSummary[r])
    /\ UNCHANGED <<cfg, requested, index, oindex, cReqBuffer, log, jobs, oexecIdx, executed, crashed,
                   panicked, primeVars>>

\* sendSummary at the primary, whose row becomes the slice itself.
sendOwnSummary ==
    /\ Primary \in Alive
    /\ summaries' = [summaries EXCEPT ![Primary] = Nil]
    /\ hash' = resolve(summaries', poSummary[Primary])
    /\ UNCHANGED <<cfg, requested, index, oindex, cReqBuffer, log, chan, jobs, oexecIdx, executed,
                   crashed, panicked, poSummary, lastHash>>

\* onPOSummary at the primary, which keeps the summary that comes last, be it an older
\* one; the other replicas make no use of theirs.
onPOSummary(q) ==
    /\ Primary \in Alive
    /\ \E i \in DOMAIN chan[q][Primary] :
          /\ summaries' = [summaries EXCEPT ![q] = chan[q][Primary][i]]
          /\ chan' = [chan EXCEPT ![q][Primary] = RemoveAt(@, i)]
    /\ hash' = resolve(summaries', poSummary[Primary])
    /\ UNCHANGED <<cfg, requested, index, oindex, cReqBuffer, log, jobs, oexecIdx, executed,
                   crashed, panicked, poSummary, lastHash>>

-----------------------------------------------------------------------------
(* Ordering *)

\* The replicas whose vote of a phase has been sent: the PrePrepare and the Prepares,
\* or the Commits.
prepares(id) == {q \in cfg.members : has(q, id)}
commits(id) == {q \in prepares(id) : log[q][id].status # "PrePrepared"}

\* sendPrePrepare, by a timer: only if the matrix has changed since the last one.
sendPrePrepare ==
    LET sent == resolve(summaries, poSummary[Primary])
    IN  /\ Primary \in Alive /\ hash # lastHash /\ oindex < MaxIndex
        /\ log' = [log EXCEPT ![Primary] = put(@, batchID(oindex),
                      [status |-> "PrePrepared", command |-> summaries, val |-> sent])]
        /\ oindex' = oindex + 1
        /\ lastHash' = hash
        /\ UNCHANGED <<cfg, requested, index, cReqBuffer, chan, jobs, oexecIdx, executed, crashed, panicked,
                       poSummary, summaries, hash>>

\* counts[p.f] for the column of an owner: the rows that are smaller are f at most.
executable(mat, owner) ==
    Max({n \in {mat[q][owner] : q \in cfg.members} :
            Cardinality({q \in cfg.members : mat[q][owner] < n}) <= cfg.f})

\* How far the n-th ordering instance reaches, read off the matrix as it is in r's log L when
\* exec looks at it.
counts(r, L, n) ==
    LET mat == resolve(L[batchID(n)].command, poSummary[r])
    IN  [owner \in cfg.clients |-> executable(mat, owner)]

available(r, L, n) ==
    /\ batchID(n) \in DOMAIN L /\ L[batchID(n)].status = "Committed"
    /\ \E upTo \in {counts(r, L, n)} : \A owner \in cfg.clients : \A i \in 0 .. upTo[owner] - 1 :
          instanceID(owner, i) \in DOMAIN L /\ L[instanceID(owner, i)].status # "PreOrder"

\* The order in which exec meets the instances, whose first ordering instances are given.
before(first, id, other) ==
    LET pos(owner) == IndexFirstSubSeq(<<owner>>, cfg.peers)
    IN  \/ first[id] < first[other]
        \/ /\ first[id] = first[other]
           /\ \/ pos(id.owner) < pos(other.owner)
              \/ id.owner = other.owner /\ id.index < other.index

\* exec: the ordering instances in turn, up to one that cannot be executed yet.
execMatrices(r, L) ==
    LET next == Min({n \in oexecIdx[r] .. MaxIndex : n = MaxIndex \/ ~available(r, L, n)})
        turn == oexecIdx[r] .. next - 1
    IN  \E upTo \in {[n \in turn |-> counts(r, L, n)]} :
        LET covers(n, id) == id.index < upTo[n][id.owner]
            new == {id \in DOMAIN L : /\ ~isBatch(id) /\ L[id].status = "PreOrderAck"
                                      /\ \E n \in turn : covers(n, id)}
            first == [id \in new |-> Min({n \in turn : covers(n, id)})]
            ids == SetToSortSeq(new, LAMBDA a, b : before(first, a, b))
        IN  /\ log' = [log EXCEPT ![r] = [id \in DOMAIN L |->
                          IF id \in new \/ (isBatch(id) /\ id.index \in turn)
                          THEN [L[id] EXCEPT !.status = "Executed"] ELSE L[id]]]
            /\ executed' = [executed EXCEPT ![r] = @ \o [k \in DOMAIN ids |-> L[ids[k]].command]]
            /\ oexecIdx' = [oexecIdx EXCEPT ![r] = next]

rest == <<cfg, requested, index, oindex, cReqBuffer, chan, jobs, crashed, panicked, primeVars>>

\* The tests at the end of onPrePrepare and onPrepare for id of L: the quorum of Prepares
\* is complete or not, and that of Commits is, with some that came before, or not.
prepare(r, id, L, prepared) ==
    \E committed \in outcomes({r}, commits(id)) :
        LET status == IF ~prepared THEN "PrePrepared" ELSE IF committed THEN "Committed" ELSE "Prepared"
            M == [L EXCEPT ![id].status = status]
        IN  IF status = "Committed" THEN execMatrices(r, M) ELSE noExec(r, M)

\* onPrePrepare: the primary's vote, its own and those that came before.
onPrePrepare(r, id) ==
    /\ isBatch(id) /\ r \in Alive \ {Primary} /\ has(Primary, id) /\ ~has(r, id)
    /\ \E prepared \in outcomes({Primary, r}, prepares(id)) :
          prepare(r, id, put(log[r], id, [status |-> "PrePrepared", command |-> log[Primary][id].val,
                                          val |-> log[Primary][id].val]), prepared)
    /\ UNCHANGED rest

unprepared(r, id, replicas) ==
    isBatch(id) /\ has(r, id) /\ log[r][id].status = "PrePrepared" /\ Majority(prepares(id) \cap replicas)

\* onPrepare, with the Prepare that completes the quorum, and Commits that came before.
onPrepare(r, id) ==
    /\ r \in Alive /\ unprepared(r, id, cfg.members)
    /\ prepare(r, id, log[r], TRUE)
    /\ UNCHANGED rest

uncommitted(r, id, replicas) ==
    isBatch(id) /\ has(r, id) /\ log[r][id].status = "Prepared" /\ Majority(commits(id) \cap replicas)

\* onCommit, with the Commit that completes the quorum, or a further one, after which
\* exec is tried again.
onCommit(r, id) ==
    /\ r \in Alive
    /\ \/ uncommitted(r, id, cfg.members) /\ execMatrices(r, [log[r] EXCEPT ![id].status = "Committed"])
       \/ /\ isBatch(id) /\ has(r, id) /\ log[r][id].status = "Committed"
          /\ Cardinality(commits(id)) > 2 * cfg.f + 1
          /\ execMatrices(r, log[r])
    /\ UNCHANGED rest

-----------------------------------------------------------------------------
Next ==
    \/ \E r \in cfg.members, c \in Commands : onRequest(r, c)
    \/ \E r \in cfg.members, id \in Ids : onPORequest(r, id) \/ onPOAck(r, id)
    \/ \E r \in cfg.members : sendSummary(r) \/ onPOSummary(r)
    \/ sendOwnSummary \/ sendPrePrepare
    \/ \E r \in cfg.members, i \in 0 .. MaxIndex - 1 :
          onPrePrepare(r, batchID(i)) \/ onPrepare(r, batchID(i)) \/ onCommit(r, batchID(i))
    \/ \E r \in cfg.members : Crash(r) /\ UNCHANGED primeVars

\* No message is left to act on at the replicas that run, and no timer has anything to send.
quiet ==
    /\ hash = lastHash /\ hash = resolve([summaries EXCEPT ![Primary] = Nil], poSummary[Primary])
    /\ \A r \in Alive : chan[r][Primary] = << >> /\ (r # Primary => poSummary[r] = summaries[r])
    /\ \A r \in Alive, id \in Ids \cup {batchID(i) : i \in 0 .. MaxIndex - 1} :
          /\ has(proposer(id), id) => has(r, id)
          /\ ~unacked(r, id, Alive) /\ ~unprepared(r, id, Alive) /\ ~uncommitted(r, id, Alive)
=============================================================================
