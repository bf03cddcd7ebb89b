---------------------------- MODULE ChainsProofs ----------------------------
(***************************************************************************)
(* Proofs about Chains: a leader proposes every height of its chain once,  *)
(* and with one verifying worker a replica of chained HotStuff commits the *)
(* blocks of the chain in order, for any number of replicas and any order  *)
(* of messages, verifications and requests.                                *)
(***************************************************************************)
EXTENDS Chains, LogLemmas

-----------------------------------------------------------------------------
(* The votes that waited for a block: what FoldLeft(onVote, base, q) makes *)

Folds(f, base, q, n) ==
    f = [S \in SUBSET (1 .. n) |->
            IF S = {} THEN base ELSE onVote(f[S \ {Max(S)}], q[Max(S)])]

LEMMA FoldsExists ==
  ASSUME NEW base, NEW q, NEW n \in Nat
  PROVE  \E f : Folds(f, base, q, n)
  <1> DEFINE Bad == {k \in Nat : ~\E f : Folds(f, base, q, k)}
  <1>1. SUFFICES ASSUME Bad # {} PROVE FALSE
    OBVIOUS
  <1>2. PICK k \in Bad : \A m \in Bad : k <= m
    <2>1. Bad \in SUBSET Nat
      OBVIOUS
    <2> HIDE DEF Bad
    <2> QED BY <1>1, <2>1, LeastNumber
  <1>3. CASE k = 0
    <2>1. SUBSET (1 .. 0) = {{}}
      OBVIOUS
    <2>2. Folds([S \in SUBSET (1 .. 0) |-> base], base, q, 0)
      BY <2>1 DEF Folds
    <2> QED BY <1>3, <2>2
  <1>4. CASE k # 0
    <2>1. k - 1 \in Nat /\ k - 1 \notin Bad /\ k \in Nat
      BY <1>2, <1>4
    <2>2. PICK f : Folds(f, base, q, k - 1)
      BY <2>1
    <2> DEFINE g == [S \in SUBSET (1 .. k) |-> IF k \in S THEN onVote(f[S \ {k}], q[k]) ELSE f[S]]
    <2> HIDE DEF Bad
    <2>3. ASSUME NEW S \in SUBSET (1 .. k)
          PROVE  g[S] = IF S = {} THEN base ELSE onVote(g[S \ {Max(S)}], q[Max(S)])
      <3>1. CASE k \in S
        <4>1. Max(S) = k
          BY <2>1, <3>1, MaxIs
        <4>2. S # {} /\ S \ {k} \in SUBSET (1 .. k) /\ k \notin S \ {k}
          BY <3>1
        <4>3. g[S] = onVote(f[S \ {k}], q[k]) /\ g[S \ {k}] = f[S \ {k}]
          BY <3>1, <4>2
        <4> HIDE DEF g
        <4> QED BY <4>1, <4>2, <4>3
      <3>2. CASE k \notin S
        <4>1. S \in SUBSET (1 .. (k - 1)) /\ S \ {Max(S)} \in SUBSET (1 .. k) /\ k \notin S \ {Max(S)}
          <5>1. \A x \in S : x \in 1 .. k /\ x # k
            BY <3>2
          <5>2. \A x \in S : x \in 1 .. (k - 1)
            BY <2>1, <5>1
          <5> QED BY <3>2, <5>1, <5>2
        <4>2. f[S] = IF S = {} THEN base ELSE onVote(f[S \ {Max(S)}], q[Max(S)])
          BY <2>2, <4>1 DEF Folds
        <4>3. g[S] = f[S] /\ g[S \ {Max(S)}] = f[S \ {Max(S)}]
          BY <3>2, <4>1
        <4> HIDE DEF g
        <4> QED BY <4>2, <4>3
      <3> QED BY <3>1, <3>2
    <2>4. Folds(g, base, q, k)
      <3>1. g = [S \in SUBSET (1 .. k) |-> g[S]]
        OBVIOUS
      <3> HIDE DEF g
      <3> QED BY <2>3, <3>1 DEF Folds
    <2> QED BY <1>2, <2>4 DEF Bad
  <1> QED BY <1>3, <1>4

VotesTaken(base, q) == FoldLeft(onVote, base, q)

\* The votes are taken one after the other.
LEMMA FoldVotes ==
  ASSUME NEW base, NEW q \in Seq(Votes)
  PROVE  \E f : /\ f[0] = base /\ VotesTaken(base, q) = f[Len(q)]
                /\ \A k \in 1 .. Len(q) : f[k] = onVote(f[k - 1], q[k])
  <1> DEFINE iter == CHOOSE g : g = [S \in SUBSET (DOMAIN q) |->
                        IF S = {} THEN base ELSE onVote(g[S \ {Max(S)}], q[Max(S)])]
             n == Len(q)
             f == [k \in 0 .. n |-> iter[1 .. k]]
  <1>1. n \in Nat /\ DOMAIN q = 1 .. n
    BY LenProperties
  <1>2. iter = [S \in SUBSET (DOMAIN q) |->
                   IF S = {} THEN base ELSE onVote(iter[S \ {Max(S)}], q[Max(S)])]
    <2>1. \E g : Folds(g, base, q, n)
      BY <1>1, FoldsExists
    <2> QED BY <1>1, <2>1 DEF Folds
  <1>3. VotesTaken(base, q) = iter[DOMAIN q]
    BY Zenon DEF VotesTaken, FoldLeft, MapThenFoldSet
  <1> HIDE DEF iter
  <1>4. f[0] = base
    <2>1. 1 .. 0 = {} /\ 0 \in 0 .. n
      BY <1>1
    <2> QED BY <1>2, <2>1
  <1>5. f[n] = iter[DOMAIN q]
    BY <1>1
  <1>6. ASSUME NEW k \in 1 .. n PROVE f[k] = onVote(f[k - 1], q[k])
    <2>1. /\ 1 .. k \in SUBSET (1 .. n) /\ 1 .. k # {} /\ k \in 1 .. k /\ k \in Nat
          /\ (1 .. k) \ {k} = 1 .. (k - 1) /\ k \in 0 .. n /\ k - 1 \in 0 .. n
      <3> HIDE DEF n, f
      <3>1. k \in Nat /\ k \in 1 .. k /\ k \in 0 .. n /\ k - 1 \in 0 .. n
        BY <1>1
      <3>2. \A x \in 1 .. k : x \in 1 .. n
        BY <1>1
      <3>3. (1 .. k) \ {k} = 1 .. (k - 1)
        BY <3>1
      <3> QED BY <3>1, <3>2, <3>3
    <2>2. Max(1 .. k) = k
      BY <2>1, MaxIs
    <2>3. iter[1 .. k] = onVote(iter[1 .. (k - 1)], q[k])
      BY <1>1, <1>2, <2>1, <2>2
    <2> QED BY <2>1, <2>3
  <1> HIDE DEF f
  <1> QED BY <1>3, <1>4, <1>5, <1>6

-----------------------------------------------------------------------------
(* The handlers of chained HotStuff *)

\* t is s with votes counted, kept or sent to verification.
VoteStep(s, t) ==
    /\ t \in State /\ IsFiniteSet(t.pendingVotes)
    /\ t.blocks = s.blocks /\ t.lastVote = s.lastVote /\ t.bLock = s.bLock /\ t.bExec = s.bExec
    /\ t.bLeaf = s.bLeaf /\ t.highQC = s.highQC /\ t.pendingProposals = s.pendingProposals
    /\ t.lastBeat = s.lastBeat /\ t.committed = s.committed
    /\ Len(t.jobs) >= Len(s.jobs) /\ \A k \in 1 .. Len(s.jobs) : t.jobs[k] = s.jobs[k]
    /\ \A k \in DOMAIN t.jobs : k > Len(s.jobs) => t.jobs[k].type = "Vote"

LEMMA JobsType ==
  ASSUME NEW s \in State
  PROVE  /\ s.jobs \in Seq(Job) /\ Len(s.jobs) \in Nat /\ DOMAIN s.jobs = 1 .. Len(s.jobs)
         /\ \A k \in DOMAIN s.jobs : s.jobs[k] \in Job
  <1>1. s.jobs \in Seq(Job)
    BY DEF State
  <1> QED BY <1>1, LenProperties, ElementOfSeq

LEMMA VoteStepRefl ==
  ASSUME NEW s \in State, IsFiniteSet(s.pendingVotes)
  PROVE  VoteStep(s, s)
  BY JobsType DEF VoteStep

\* A change of the votes a replica keeps.
LEMMA VoteStepKept ==
  ASSUME NEW s \in State, NEW V \in SUBSET Votes, NEW W \in SUBSET Votes, IsFiniteSet(W)
  PROVE  VoteStep(s, [s EXCEPT !.verifiedVotes = V, !.pendingVotes = W])
  <1> DEFINE t == [s EXCEPT !.verifiedVotes = V, !.pendingVotes = W]
  <1>1. t \in State
    BY DEF State
  <1>2. /\ t.blocks = s.blocks /\ t.lastVote = s.lastVote /\ t.bLock = s.bLock /\ t.bExec = s.bExec
        /\ t.bLeaf = s.bLeaf /\ t.highQC = s.highQC /\ t.pendingProposals = s.pendingProposals
        /\ t.lastBeat = s.lastBeat /\ t.committed = s.committed /\ t.jobs = s.jobs
        /\ t.pendingVotes = W
    BY DEF State
  <1> HIDE DEF t
  <1>3. VoteStep(s, t)
    BY <1>1, <1>2, JobsType DEF VoteStep
  <1> QED BY <1>3 DEF t

LEMMA VoteStepTrans ==
  ASSUME NEW s \in State, NEW t, NEW u, VoteStep(s, t), VoteStep(t, u)
  PROVE  VoteStep(s, u)
  <1>1. t \in State /\ u \in State
    BY DEF VoteStep
  <1>2. /\ Len(s.jobs) \in Nat /\ Len(t.jobs) \in Nat /\ Len(u.jobs) \in Nat
        /\ DOMAIN t.jobs = 1 .. Len(t.jobs) /\ DOMAIN u.jobs = 1 .. Len(u.jobs)
    BY <1>1, JobsType
  <1>3. Len(u.jobs) >= Len(s.jobs)
    BY <1>2 DEF VoteStep
  <1>4. \A k \in 1 .. Len(s.jobs) : u.jobs[k] = s.jobs[k]
    BY <1>2 DEF VoteStep
  <1>5. ASSUME NEW k \in DOMAIN u.jobs, k > Len(s.jobs)
        PROVE  u.jobs[k].type = "Vote"
    <2>1. CASE k > Len(t.jobs)
      BY <2>1 DEF VoteStep
    <2>2. CASE ~(k > Len(t.jobs))
      <3>1. k \in 1 .. Len(t.jobs)
        BY <1>2, <2>2
      <3> QED BY <1>2, <1>5, <3>1 DEF VoteStep
    <2> QED BY <2>1, <2>2
  <1> QED BY <1>3, <1>4, <1>5 DEF VoteStep

LEMMA OnVoteStep ==
  ASSUME NEW s \in State, IsFiniteSet(s.pendingVotes), NEW v \in Votes
  PROVE  VoteStep(s, onVote(s, v))
  <1> DEFINE u == IF v.block \notin s.blocks THEN [s EXCEPT !.pendingVotes = @ \cup {v}]
                  ELSE IF Height(v.block) <= Height(s.bLeaf) THEN s
                  ELSE [s EXCEPT !.jobs = Append(@, [type |-> "Vote", vote |-> v])]
             kept == {w \in u.verifiedVotes : w.block \in u.blocks /\ Height(w.block) > Height(u.bLeaf)}
  <1>1. onVote(s, v) = [u EXCEPT !.verifiedVotes = kept]
    BY DEF onVote, cleanVotes
  <1>2. VoteStep(s, u)
    <2>1. CASE v.block \notin s.blocks
      <3>1. u = [s EXCEPT !.pendingVotes = @ \cup {v}]
        BY <2>1
      <3>2. IsFiniteSet(s.pendingVotes \cup {v})
        BY FS_AddElement
      <3>3. u = [s EXCEPT !.verifiedVotes = s.verifiedVotes, !.pendingVotes = s.pendingVotes \cup {v}]
        BY <3>1 DEF State
      <3>4. s.verifiedVotes \in SUBSET Votes /\ s.pendingVotes \cup {v} \in SUBSET Votes
        BY DEF State
      <3> HIDE DEF u
      <3> QED BY <3>2, <3>3, <3>4, VoteStepKept
    <2>2. CASE v.block \in s.blocks /\ Height(v.block) <= Height(s.bLeaf)
      BY <2>2, VoteStepRefl
    <2>3. CASE v.block \in s.blocks /\ ~(Height(v.block) <= Height(s.bLeaf))
      <3> DEFINE j == [type |-> "Vote", vote |-> v]
      <3>1. u = [s EXCEPT !.jobs = Append(s.jobs, j)]
        BY <2>3
      <3>2. j \in Job /\ j.type = "Vote"
        BY DEF Job
      <3> HIDE DEF j, u
      <3>3. s.jobs \in Seq(Job)
        BY JobsType
      <3>4. /\ Append(s.jobs, j) \in Seq(Job) /\ Len(s.jobs) \in Nat
            /\ Len(Append(s.jobs, j)) = Len(s.jobs) + 1
            /\ DOMAIN Append(s.jobs, j) = 1 .. Len(s.jobs) + 1
            /\ \A k \in 1 .. Len(s.jobs) : Append(s.jobs, j)[k] = s.jobs[k]
            /\ Append(s.jobs, j)[Len(s.jobs) + 1] = j
        BY <3>2, <3>3, AppendIdx
      <3>5. \A k \in 1 .. Len(s.jobs) + 1 : k > Len(s.jobs) => k = Len(s.jobs) + 1
        BY <3>4
      <3>6. Len(s.jobs) + 1 >= Len(s.jobs)
        BY <3>4
      <3>7. u \in State /\ u.jobs = Append(s.jobs, j)
        BY <3>1, <3>4 DEF State
      <3> QED BY <3>1, <3>2, <3>4, <3>5, <3>6, <3>7 DEF VoteStep, State
    <2> QED BY <2>1, <2>2, <2>3
  <1>3. u \in State /\ kept \subseteq u.verifiedVotes
    BY <1>2 DEF VoteStep
  <1> HIDE DEF u, kept
  <1>4. VoteStep(u, [u EXCEPT !.verifiedVotes = kept])
    <2>1. [u EXCEPT !.verifiedVotes = kept] = [u EXCEPT !.verifiedVotes = kept, !.pendingVotes = u.pendingVotes]
      BY <1>3 DEF State
    <2>2. IsFiniteSet(u.pendingVotes)
      BY <1>2 DEF VoteStep
    <2>3. kept \in SUBSET Votes /\ u.pendingVotes \in SUBSET Votes
      BY <1>3 DEF State
    <2> QED BY <1>3, <2>1, <2>2, <2>3, VoteStepKept
  <1> QED BY <1>1, <1>2, <1>4, VoteStepTrans

LEMMA VotesStep ==
  ASSUME NEW s \in State, IsFiniteSet(s.pendingVotes), NEW q \in Seq(Votes)
  PROVE  VoteStep(s, VotesTaken(s, q))
  <1>1. PICK f : /\ f[0] = s /\ VotesTaken(s, q) = f[Len(q)]
                 /\ \A k \in 1 .. Len(q) : f[k] = onVote(f[k - 1], q[k])
    BY FoldVotes
  <1> DEFINE Bad == {k \in Nat : k <= Len(q) /\ ~VoteStep(s, f[k])}
  <1>2. Len(q) \in Nat /\ \A k \in 1 .. Len(q) : q[k] \in Votes
    BY LenProperties, ElementOfSeq
  <1>3. SUFFICES ASSUME Bad # {} PROVE FALSE
    BY <1>1, <1>2
  <1>4. PICK k \in Bad : \A m \in Bad : k <= m
    <2>1. Bad \in SUBSET Nat
      OBVIOUS
    <2> HIDE DEF Bad
    <2> QED BY <1>3, <2>1, LeastNumber
  <1>5. CASE k = 0
    BY <1>1, <1>4, <1>5, VoteStepRefl
  <1>6. CASE k # 0
    <2>1. k - 1 \in Nat /\ k - 1 <= Len(q) /\ k \in 1 .. Len(q) /\ k - 1 \notin Bad
      BY <1>2, <1>4, <1>6
    <2>2. VoteStep(s, f[k - 1])
      BY <2>1
    <2>3. f[k - 1] \in State /\ IsFiniteSet(f[k - 1].pendingVotes)
      BY <2>2 DEF VoteStep
    <2>4. VoteStep(f[k - 1], f[k])
      BY <1>1, <1>2, <2>1, <2>3, OnVoteStep
    <2>5. VoteStep(s, f[k])
      BY <2>2, <2>4, VoteStepTrans
    <2> QED BY <1>4, <2>5
  <1> QED BY <1>5, <1>6

\* No proposal enters or leaves verification.
LEMMA VoteStepVerifying ==
  ASSUME NEW s \in State, NEW t, VoteStep(s, t)
  PROVE  Verifying(t) = Verifying(s)
  <1>1. /\ Len(s.jobs) \in Nat /\ Len(t.jobs) \in Nat /\ Len(t.jobs) >= Len(s.jobs)
        /\ DOMAIN s.jobs = 1 .. Len(s.jobs) /\ DOMAIN t.jobs = 1 .. Len(t.jobs)
    BY JobsType DEF VoteStep
  <1>2. \A k \in DOMAIN s.jobs : k \in DOMAIN t.jobs /\ t.jobs[k] = s.jobs[k]
    BY <1>1 DEF VoteStep
  <1>3. \A k \in DOMAIN t.jobs : t.jobs[k].type = "Propose" => k \in DOMAIN s.jobs
    BY <1>1 DEF VoteStep
  <1> QED BY <1>2, <1>3 DEF Verifying

\* The jobs of t are those of s and after them some of votes, and at most one
\* of a proposal in P.
Longer(s, t, P) ==
    /\ Len(t.jobs) >= Len(s.jobs) /\ \A k \in 1 .. Len(s.jobs) : t.jobs[k] = s.jobs[k]
    /\ \A k \in DOMAIN t.jobs : k > Len(s.jobs) =>
          t.jobs[k].type = "Vote" \/ (t.jobs[k].type = "Propose" /\ t.jobs[k].block \in P)
    /\ \A k, m \in DOMAIN t.jobs :
          k > Len(s.jobs) /\ m > Len(s.jobs) /\ t.jobs[k].type = "Propose" /\ t.jobs[m].type = "Propose"
             => k = m

LEMMA VoteStepLonger ==
  ASSUME NEW s \in State, NEW t, VoteStep(s, t)
  PROVE  Longer(s, t, {})
  BY DEF VoteStep, Longer

LEMMA LongerVerifying ==
  ASSUME NEW s \in State, NEW t \in State, NEW P, Longer(s, t, P)
  PROVE  Verifying(s) \subseteq Verifying(t) /\ Verifying(t) \subseteq Verifying(s) \cup P
  <1>1. /\ Len(s.jobs) \in Nat /\ Len(t.jobs) \in Nat /\ Len(t.jobs) >= Len(s.jobs)
        /\ DOMAIN s.jobs = 1 .. Len(s.jobs) /\ DOMAIN t.jobs = 1 .. Len(t.jobs)
    BY JobsType DEF Longer
  <1>2. \A k \in DOMAIN s.jobs : k \in DOMAIN t.jobs /\ t.jobs[k] = s.jobs[k]
    BY <1>1 DEF Longer
  <1>3. \A k \in DOMAIN t.jobs : k \in DOMAIN s.jobs \/ k > Len(s.jobs)
    BY <1>1
  <1>4. \A k \in DOMAIN t.jobs : t.jobs[k].type = "Propose" => k \in DOMAIN s.jobs \/ t.jobs[k].block \in P
    BY <1>3 DEF Longer
  <1> QED BY <1>2, <1>4 DEF Verifying

\* t is s but for its jobs and the proposals that wait.
ProposalStep(s, t) ==
    /\ t \in State /\ IsFiniteSet(t.pendingVotes)
    /\ t.blocks = s.blocks /\ t.lastVote = s.lastVote /\ t.bLock = s.bLock /\ t.bExec = s.bExec
    /\ t.bLeaf = s.bLeaf /\ t.highQC = s.highQC /\ t.lastBeat = s.lastBeat
    /\ t.committed = s.committed

LEMMA OnProposeIs ==
  ASSUME NEW s \in State, IsFiniteSet(s.pendingVotes), NEW b \in Nat, NEW h \in Nat
  PROVE  /\ ProposalStep(s, onPropose(s, b, h))
         /\ onPropose(s, b, h).pendingProposals = s.pendingProposals
         /\ h <= s.lastVote => onPropose(s, b, h) = s
         /\ h > s.lastVote => onPropose(s, b, h).jobs = Append(s.jobs, [type |-> "Propose", block |-> b])
         /\ Longer(s, onPropose(s, b, h), IF h > s.lastVote THEN {b} ELSE {})
  <1>1. CASE h <= s.lastVote
    <2>1. onPropose(s, b, h) = s /\ ~(h > s.lastVote)
      BY <1>1 DEF onPropose, State
    <2> QED BY <1>1, <2>1, VoteStepRefl, VoteStepLonger DEF ProposalStep
  <1>2. CASE ~(h <= s.lastVote)
    <2> DEFINE j == [type |-> "Propose", block |-> b]
               t == [s EXCEPT !.jobs = Append(s.jobs, j)]
    <2>1. onPropose(s, b, h) = t /\ h > s.lastVote
      BY <1>2 DEF onPropose, State
    <2>2. j \in Job /\ j.type = "Propose" /\ j.block = b /\ s.jobs \in Seq(Job)
      BY JobsType DEF Job
    <2>3. /\ Append(s.jobs, j) \in Seq(Job) /\ Len(s.jobs) \in Nat
          /\ Len(Append(s.jobs, j)) = Len(s.jobs) + 1
          /\ DOMAIN Append(s.jobs, j) = 1 .. Len(s.jobs) + 1
          /\ \A k \in 1 .. Len(s.jobs) : Append(s.jobs, j)[k] = s.jobs[k]
          /\ Append(s.jobs, j)[Len(s.jobs) + 1] = j
      <3> HIDE DEF j
      <3> QED BY <2>2, AppendIdx
    <2>a. t.jobs = Append(s.jobs, [type |-> "Propose", block |-> b])
      BY DEF State
    <2> HIDE DEF j
    <2>4. t \in State /\ t.jobs = Append(s.jobs, j)
      BY <2>3 DEF State
    <2>5. /\ t.blocks = s.blocks /\ t.lastVote = s.lastVote /\ t.bLock = s.bLock /\ t.bExec = s.bExec
          /\ t.bLeaf = s.bLeaf /\ t.highQC = s.highQC /\ t.lastBeat = s.lastBeat
          /\ t.committed = s.committed /\ t.pendingProposals = s.pendingProposals
          /\ t.pendingVotes = s.pendingVotes
      BY DEF State
    <2> HIDE DEF t
    <2>6. \A k \in 1 .. Len(s.jobs) + 1 : k > Len(s.jobs) => k = Len(s.jobs) + 1
      BY <2>3
    <2>7. Len(s.jobs) + 1 >= Len(s.jobs)
      BY <2>3
    <2>8. Longer(s, t, {b})
      BY <2>2, <2>3, <2>4, <2>6, <2>7 DEF Longer
    <2> QED BY <1>2, <2>1, <2>a, <2>4, <2>5, <2>8 DEF ProposalStep
  <1> QED BY <1>1, <1>2

LEMMA LongerThen ==
  ASSUME NEW s \in State, NEW t \in State, NEW u \in State, NEW P, Longer(s, t, {}), Longer(t, u, P)
  PROVE  Longer(s, u, P)
  <1>1. /\ Len(s.jobs) \in Nat /\ Len(t.jobs) \in Nat /\ Len(u.jobs) \in Nat
        /\ DOMAIN t.jobs = 1 .. Len(t.jobs) /\ DOMAIN u.jobs = 1 .. Len(u.jobs)
        /\ Len(t.jobs) >= Len(s.jobs) /\ Len(u.jobs) >= Len(t.jobs)
    BY JobsType DEF Longer
  <1>2. Len(u.jobs) >= Len(s.jobs)
    BY <1>1
  <1>3. \A k \in 1 .. Len(s.jobs) : u.jobs[k] = s.jobs[k]
    BY <1>1 DEF Longer
  <1>4. ASSUME NEW k \in DOMAIN u.jobs, k > Len(s.jobs)
        PROVE  \/ u.jobs[k].type = "Vote"
               \/ u.jobs[k].type = "Propose" /\ u.jobs[k].block \in P /\ k > Len(t.jobs)
    <2>1. CASE k > Len(t.jobs)
      BY <2>1 DEF Longer
    <2>2. CASE ~(k > Len(t.jobs))
      <3>1. k \in 1 .. Len(t.jobs)
        BY <1>1, <2>2
      <3> QED BY <1>1, <1>4, <3>1 DEF Longer
    <2> QED BY <2>1, <2>2
  <1>5. \A k, m \in DOMAIN u.jobs :
           k > Len(s.jobs) /\ m > Len(s.jobs) /\ u.jobs[k].type = "Propose" /\ u.jobs[m].type = "Propose"
              => k = m
    BY <1>4 DEF Longer
  <1> QED BY <1>2, <1>3, <1>4, <1>5 DEF Longer

LEMMA DeliverIs ==
  ASSUME NEW s \in State, IsFiniteSet(s.pendingVotes), NEW b,
         \A p \in s.pendingProposals : Height(p) \in Nat
  PROVE  /\ ProposalStep(s, deliver(s, b))
         /\ deliver(s, b).pendingProposals = {p \in s.pendingProposals : chain[p].qc # b}
         /\ \E P : /\ \A p \in P : p \in s.pendingProposals /\ chain[p].qc = b /\ Height(p) > s.lastVote
                   /\ Longer(s, deliver(s, b), P)
  <1> DEFINE ready == {v \in s.pendingVotes : v.block = b}
             s0 == [s EXCEPT !.pendingVotes = s.pendingVotes \ ready]
             s1 == FoldLeft(onVote, s0, SetToSeq(ready))
             next == {p \in s1.pendingProposals : chain[p].qc = b}
             s2 == [s1 EXCEPT !.pendingProposals = s1.pendingProposals \ next]
             p0 == CHOOSE p \in next : TRUE
  <1>1. deliver(s, b) = IF next = {} THEN s2 ELSE onPropose(s2, p0, Height(p0))
    BY DEF deliver
  <1>2. s.pendingVotes \subseteq Votes /\ ready \subseteq s.pendingVotes
    BY DEF State
  <1>3. s0 \in State /\ IsFiniteSet(s0.pendingVotes) /\ VoteStep(s, s0)
    <2>1. IsFiniteSet(s.pendingVotes \ ready)
      BY FS_Subset
    <2>2. s0 = [s EXCEPT !.verifiedVotes = s.verifiedVotes, !.pendingVotes = s.pendingVotes \ ready]
      BY DEF State
    <2>3. s.verifiedVotes \in SUBSET Votes /\ s.pendingVotes \ ready \in SUBSET Votes
      BY <1>2 DEF State
    <2> HIDE DEF s0, ready
    <2>4. VoteStep(s, s0)
      BY <2>1, <2>2, <2>3, VoteStepKept
    <2> QED BY <2>4 DEF VoteStep
  <1>4. SetToSeq(ready) \in Seq(Votes)
    <2>1. IsFiniteSet(ready)
      BY <1>2, FS_Subset
    <2> HIDE DEF ready
    <2>2. SetToSeq(ready) \in Seq(ready) /\ ready \subseteq Votes
      BY <1>2, <2>1, SetToSeqIn
    <2> QED BY <2>2, SeqMonotonic
  <1>5. s1 = VotesTaken(s0, SetToSeq(ready))
    BY DEF VotesTaken
  <1> HIDE DEF s0, s1, ready
  <1>6. VoteStep(s0, s1)
    BY <1>3, <1>4, <1>5, VotesStep
  <1>7. VoteStep(s, s1) /\ s1 \in State /\ IsFiniteSet(s1.pendingVotes)
    <2>1. VoteStep(s, s1)
      BY <1>3, <1>6, VoteStepTrans
    <2> QED BY <2>1 DEF VoteStep
  <1>8. /\ s2 \in State /\ s2.blocks = s1.blocks /\ s2.lastVote = s1.lastVote /\ s2.bLock = s1.bLock
        /\ s2.bExec = s1.bExec /\ s2.bLeaf = s1.bLeaf /\ s2.highQC = s1.highQC
        /\ s2.lastBeat = s1.lastBeat /\ s2.committed = s1.committed
        /\ s2.pendingVotes = s1.pendingVotes /\ s2.jobs = s1.jobs
        /\ s2.pendingProposals = s1.pendingProposals \ next
    <2>1. s1.pendingProposals \ next \in SUBSET Nat
      BY <1>7 DEF State
    <2> HIDE DEF next
    <2> QED BY <1>7, <2>1 DEF State
  <1>9. /\ ProposalStep(s, s2) /\ Longer(s, s2, {}) /\ s2.lastVote = s.lastVote
        /\ s2.pendingProposals = {p \in s.pendingProposals : chain[p].qc # b}
        /\ next = {p \in s.pendingProposals : chain[p].qc = b}
    <2>1. s1.pendingProposals = s.pendingProposals
      BY <1>7 DEF VoteStep
    <2>2. ProposalStep(s, s2)
      BY <1>7, <1>8 DEF VoteStep, ProposalStep
    <2>3. Longer(s, s2, {})
      <3>1. Longer(s, s1, {})
        BY <1>7, VoteStepLonger
      <3> QED BY <1>8, <3>1 DEF Longer
    <2> QED BY <1>8, <2>1, <2>2, <2>3 DEF ProposalStep
  <1>10. CASE next = {}
    <2>1. deliver(s, b) = s2
      BY <1>1, <1>10
    <2> HIDE DEF s2
    <2> QED BY <1>9, <2>1
  <1>11. CASE next # {}
    <2>1. p0 \in s.pendingProposals /\ chain[p0].qc = b /\ deliver(s, b) = onPropose(s2, p0, Height(p0))
      BY <1>1, <1>9, <1>11
    <2>2. p0 \in Nat /\ Height(p0) \in Nat
      BY <2>1 DEF State
    <2>a. s2 \in State /\ IsFiniteSet(s2.pendingVotes)
      BY <1>7, <1>8
    <2> HIDE DEF s2, p0
    <2>3. /\ ProposalStep(s2, deliver(s, b))
          /\ deliver(s, b).pendingProposals = s2.pendingProposals
          /\ Longer(s2, deliver(s, b), IF Height(p0) > s2.lastVote THEN {p0} ELSE {})
      <3> DEFINE h == Height(p0)
      <3>1. h \in Nat /\ deliver(s, b) = onPropose(s2, p0, h)
        BY <2>1, <2>2
      <3> HIDE DEF h
      <3>2. /\ ProposalStep(s2, onPropose(s2, p0, h))
            /\ onPropose(s2, p0, h).pendingProposals = s2.pendingProposals
            /\ Longer(s2, onPropose(s2, p0, h), IF h > s2.lastVote THEN {p0} ELSE {})
        BY <2>2, <2>a, <3>1, OnProposeIs
      <3> QED BY <3>1, <3>2, Zenon DEF h
    <2>4. ProposalStep(s, deliver(s, b))
      BY <1>9, <2>3 DEF ProposalStep
    <2>5. Longer(s, deliver(s, b), IF Height(p0) > s2.lastVote THEN {p0} ELSE {})
      <3>1. deliver(s, b) \in State
        BY <2>3 DEF ProposalStep
      <3> QED BY <1>9, <2>a, <2>3, <3>1, LongerThen
    <2> QED BY <1>9, <2>1, <2>3, <2>4, <2>5
  <1> QED BY <1>10, <1>11

LEMMA ChainTypes ==
  ASSUME TypeOK
  PROVE  /\ Len(chain) \in Nat /\ DOMAIN chain = 1 .. Len(chain)
         /\ \A b \in DOMAIN chain : chain[b] \in Block
  <1>1. chain \in Seq(Block)
    BY DEF TypeOK
  <1> QED BY <1>1, LenProperties, ElementOfSeq

LEMMA LinearIs ==
  ASSUME TypeOK, Linear, NEW b \in DOMAIN chain
  PROVE  /\ b \in Nat \ {0} /\ Height(b) = b - 1 /\ Height(b) \in Nat
         /\ chain[b].parent = b - 1 /\ chain[b].qc = b - 1
  BY ChainTypes DEF Linear, Height

\* f is the function path of commit.
PathOf(f, s, n) ==
    f = [x \in 0 .. n |->
            IF x = None \/ Height(x) <= Height(s.bExec) THEN << >>
            ELSE IF chain[x].parent \in s.blocks THEN Append(f[chain[x].parent], x) ELSE <<x>>]

LEMMA PathExists ==
  ASSUME TypeOK, Linear, NEW s, NEW n \in Nat, n <= Len(chain)
  PROVE  \E f : PathOf(f, s, n)
  <1> DEFINE Bad == {k \in Nat : k <= Len(chain) /\ ~\E f : PathOf(f, s, k)}
  <1>1. SUFFICES ASSUME Bad # {} PROVE FALSE
    OBVIOUS
  <1>2. PICK k \in Bad : \A m \in Bad : k <= m
    <2>1. Bad \in SUBSET Nat
      OBVIOUS
    <2> HIDE DEF Bad
    <2> QED BY <1>1, <2>1, LeastNumber
  <1>3. CASE k = 0
    <2> DEFINE f == [x \in 0 .. 0 |-> << >>]
    <2>1. \A x \in 0 .. 0 : x = None
      BY DEF None
    <2>2. PathOf(f, s, 0)
      BY <2>1 DEF PathOf
    <2> QED BY <1>2, <1>3, <2>2
  <1>4. CASE k # 0
    <2>0. Len(chain) \in Nat /\ DOMAIN chain = 1 .. Len(chain)
      BY ChainTypes
    <2>1. /\ k - 1 \in Nat /\ k \in Nat /\ k \in DOMAIN chain
          /\ k - 1 <= Len(chain) /\ k - 1 \notin Bad /\ k - 1 \in 0 .. (k - 1) /\ k \in 0 .. k
          /\ \A x \in 0 .. k : x = k \/ x \in 0 .. (k - 1)
          /\ \A x \in 0 .. (k - 1) : x # k /\ x \in 0 .. k
      BY <1>2, <1>4, <2>0
    <2>2. PICK f : PathOf(f, s, k - 1)
      BY <2>1
    <2>3. chain[k].parent = k - 1
      BY <2>1, LinearIs
    <2> DEFINE last == IF k = None \/ Height(k) <= Height(s.bExec) THEN << >>
                       ELSE IF chain[k].parent \in s.blocks THEN Append(f[k - 1], k) ELSE <<k>>
               g == [x \in 0 .. k |-> IF x = k THEN last ELSE f[x]]
    <2>4. ASSUME NEW x \in 0 .. k
          PROVE  g[x] = IF x = None \/ Height(x) <= Height(s.bExec) THEN << >>
                        ELSE IF chain[x].parent \in s.blocks THEN Append(g[chain[x].parent], x) ELSE <<x>>
      <3>1. CASE x = k
        <4>1. g[k - 1] = f[k - 1] /\ g[k] = last
          BY <2>1
        <4> HIDE DEF g
        <4> QED BY <2>3, <3>1, <4>1
      <3>2. CASE x # k /\ x = None
        <4>1. f[x] = << >> /\ g[x] = f[x]
          BY <2>1, <2>2, <3>2 DEF PathOf
        <4> QED BY <3>2, <4>1
      <3>3. CASE x # k /\ x # None
        <4>1. x \in 0 .. (k - 1) /\ x - 1 \in 0 .. (k - 1) /\ x \in DOMAIN chain
          BY <2>0, <2>1, <3>3 DEF None
        <4>2. chain[x].parent = x - 1
          BY <4>1, LinearIs
        <4>3. f[x] = IF x = None \/ Height(x) <= Height(s.bExec) THEN << >>
                     ELSE IF chain[x].parent \in s.blocks THEN Append(f[chain[x].parent], x) ELSE <<x>>
          BY <2>2, <4>1 DEF PathOf
        <4>4. g[x] = f[x] /\ g[x - 1] = f[x - 1]
          BY <2>1, <4>1
        <4> HIDE DEF g
        <4> QED BY <4>2, <4>3, <4>4
      <3> QED BY <3>1, <3>2, <3>3
    <2>5. PathOf(g, s, k)
      <3>1. g = [x \in 0 .. k |-> g[x]]
        OBVIOUS
      <3> HIDE DEF g
      <3> QED BY <2>4, <3>1 DEF PathOf
    <2> QED BY <1>2, <2>5
  <1> QED BY <1>3, <1>4

LEMMA CommitIs ==
  ASSUME TypeOK, Linear, NEW s \in State, NEW b \in DOMAIN chain
  PROVE  \E q \in Seq(Nat) :
            /\ commit(s, b) = [s EXCEPT !.committed = s.committed \o q]
            /\ s.bExec \in DOMAIN chain /\ b <= s.bExec => q = << >>
            /\ s.bExec \in DOMAIN chain /\ b > s.bExec => q # << >> /\ Last(q) = b
  <1> DEFINE path == CHOOSE f : f = [x \in 0 .. b |->
                        IF x = None \/ Height(x) <= Height(s.bExec) THEN << >>
                        ELSE IF chain[x].parent \in s.blocks THEN Append(f[chain[x].parent], x) ELSE <<x>>]
  <1>1. commit(s, b) = [s EXCEPT !.committed = s.committed \o path[b]]
    BY DEF commit
  <1>2. b \in Nat /\ b <= Len(chain) /\ b # 0 /\ Len(chain) \in Nat /\ DOMAIN chain = 1 .. Len(chain)
    BY ChainTypes
  <1>3. PathOf(path, s, b)
    <2>1. \E f : PathOf(f, s, b)
      BY <1>2, PathExists
    <2> QED BY <2>1 DEF PathOf
  <1> HIDE DEF path
  <1>4. \A x \in 0 .. b : path[x] \in Seq(Nat)
    <2> DEFINE Bad == {k \in Nat : k <= b /\ path[k] \notin Seq(Nat)}
    <2>1. SUFFICES ASSUME Bad # {} PROVE FALSE
      BY <1>2
    <2>2. PICK k \in Bad : \A m \in Bad : k <= m
      <3>1. Bad \in SUBSET Nat
        OBVIOUS
      <3> HIDE DEF Bad
      <3> QED BY <2>1, <3>1, LeastNumber
    <2>3. path[k] = IF k = None \/ Height(k) <= Height(s.bExec) THEN << >>
                    ELSE IF chain[k].parent \in s.blocks THEN Append(path[chain[k].parent], k) ELSE <<k>>
      <3>1. k \in 0 .. b
        BY <1>2, <2>2
      <3> HIDE DEF Bad
      <3> QED BY <1>3, <3>1 DEF PathOf
    <2>4. << >> \in Seq(Nat) /\ <<k>> \in Seq(Nat)
      OBVIOUS
    <2>5. k # None
      BY <2>2, <2>3, <2>4
    <2>6. k \in DOMAIN chain /\ k - 1 \in Nat /\ k - 1 \notin Bad /\ k - 1 <= b
      BY <1>2, <2>2, <2>5 DEF None
    <2>7. chain[k].parent = k - 1 /\ path[k - 1] \in Seq(Nat)
      BY <2>6, LinearIs
    <2>8. Append(path[k - 1], k) \in Seq(Nat)
      BY <2>7, AppendProperties
    <2> QED BY <2>2, <2>3, <2>4, <2>7, <2>8
  <1>5. b \in 0 .. b /\ b # None /\ b - 1 \in 0 .. b /\ chain[b].parent = b - 1
    BY <1>2, LinearIs DEF None
  <1>6. path[b] = IF Height(b) <= Height(s.bExec) THEN << >>
                  ELSE IF b - 1 \in s.blocks THEN Append(path[b - 1], b) ELSE <<b>>
    BY <1>3, <1>5 DEF PathOf
  <1>7. ASSUME s.bExec \in DOMAIN chain, b <= s.bExec PROVE path[b] = << >>
    <2>1. Height(b) <= Height(s.bExec)
      BY <1>7, LinearIs
    <2> QED BY <1>6, <2>1
  <1>8. ASSUME s.bExec \in DOMAIN chain, b > s.bExec PROVE path[b] # << >> /\ Last(path[b]) = b
    <2>1. ~(Height(b) <= Height(s.bExec))
      BY <1>8, LinearIs
    <2>2. CASE b - 1 \in s.blocks
      <3>1. path[b] = Append(path[b - 1], b) /\ path[b - 1] \in Seq(Nat)
        BY <1>4, <1>5, <1>6, <2>1, <2>2
      <3>2. Append(path[b - 1], b) # << >> /\ Last(Append(path[b - 1], b)) = b
        BY <1>2, <3>1, AppendProperties DEF Last
      <3> QED BY <3>1, <3>2
    <2>3. CASE b - 1 \notin s.blocks
      BY <1>6, <2>1, <2>3 DEF Last
    <2> QED BY <2>2, <2>3
  <1>9. path[b] \in Seq(Nat)
    BY <1>4, <1>5
  <1> QED BY <1>1, <1>7, <1>8, <1>9

LEMMA UpdateHighQCIs ==
  ASSUME NEW s \in State, NEW qc \in Nat
  PROVE  LET t == updateHighQC(s, qc) IN
         /\ t \in State /\ t.pendingVotes = s.pendingVotes
         /\ t.blocks = s.blocks /\ t.lastVote = s.lastVote /\ t.bLock = s.bLock /\ t.bExec = s.bExec
         /\ t.pendingProposals = s.pendingProposals /\ t.lastBeat = s.lastBeat /\ t.jobs = s.jobs
         /\ t.committed = s.committed /\ t.cmdQueue = s.cmdQueue
         /\ \/ t.bLeaf = s.bLeaf /\ t.highQC = s.highQC
            \/ qc \in s.blocks /\ t.bLeaf = qc /\ t.highQC = qc
  <1>1. CASE qc \in s.blocks /\ Height(qc) > Height(s.highQC)
    <2>1. updateHighQC(s, qc) = [s EXCEPT !.highQC = qc, !.bLeaf = qc]
      BY <1>1 DEF updateHighQC
    <2> QED BY <1>1, <2>1 DEF State
  <1>2. CASE ~(qc \in s.blocks /\ Height(qc) > Height(s.highQC))
    BY <1>2 DEF updateHighQC
  <1> QED BY <1>1, <1>2

\* What update leaves alone, and what it commits.
UpdateStep(s, t, b) ==
    /\ t \in State /\ t.pendingVotes = s.pendingVotes
    /\ t.blocks = s.blocks /\ t.lastVote = s.lastVote /\ t.pendingProposals = s.pendingProposals
    /\ t.lastBeat = s.lastBeat /\ t.jobs = s.jobs
    /\ \/ t.bLeaf = s.bLeaf /\ t.highQC = s.highQC
       \/ b - 1 \in s.blocks /\ t.bLeaf = b - 1 /\ t.highQC = b - 1
    /\ t.bLock = s.bLock \/ (b - 2 \in s.blocks /\ t.bLock = b - 2)
    /\ \/ t.bExec = s.bExec /\ t.committed = s.committed
       \/ /\ b - 3 \in s.blocks /\ t.bExec = b - 3
          /\ \E q \in Seq(Nat) :
                /\ t.committed = s.committed \o q
                /\ s.bExec \in DOMAIN chain /\ b - 3 <= s.bExec => q = << >>
                /\ s.bExec \in DOMAIN chain /\ b - 3 > s.bExec => q # << >> /\ Last(q) = b - 3

LEMMA UpdateIs ==
  ASSUME TypeOK, Linear, NEW s \in State, s.blocks \subseteq DOMAIN chain, NEW b \in DOMAIN chain
  PROVE  UpdateStep(s, update(s, b), b)
  <1> DEFINE b1 == chain[b].qc
             s1 == updateHighQC(s, b1)
             b2 == chain[b1].qc
             s2 == IF Height(b2) > Height(s1.bLock) THEN [s1 EXCEPT !.bLock = b2] ELSE s1
             b3 == chain[b2].qc
  <1>1. update(s, b) = IF b1 \notin s.blocks THEN s
                       ELSE IF b2 \notin s.blocks THEN s1
                       ELSE IF b3 \notin s.blocks \/ chain[b1].parent # b2 \/ chain[b2].parent # b3 THEN s2
                       ELSE [commit(s2, b3) EXCEPT !.bExec = b3]
    BY DEF update
  <1>2. b1 = b - 1 /\ b1 \in Nat
    BY LinearIs
  <1>3. /\ s1 \in State /\ s1.pendingVotes = s.pendingVotes
        /\ s1.blocks = s.blocks /\ s1.lastVote = s.lastVote /\ s1.bLock = s.bLock /\ s1.bExec = s.bExec
        /\ s1.pendingProposals = s.pendingProposals /\ s1.lastBeat = s.lastBeat /\ s1.jobs = s.jobs
        /\ s1.committed = s.committed
        /\ \/ s1.bLeaf = s.bLeaf /\ s1.highQC = s.highQC
           \/ b1 \in s.blocks /\ s1.bLeaf = b1 /\ s1.highQC = b1
    <2> HIDE DEF b1
    <2> QED BY <1>2, UpdateHighQCIs
  <1>4. CASE b1 \notin s.blocks
    BY <1>1, <1>4 DEF UpdateStep
  <1> HIDE DEF s1
  <1>5. CASE b1 \in s.blocks /\ b2 \notin s.blocks
    <2>1. update(s, b) = s1
      BY <1>1, <1>5
    <2> QED BY <1>2, <1>3, <2>1 DEF UpdateStep
  <1>6. CASE b1 \in s.blocks /\ b2 \in s.blocks
    <2>1. b1 \in DOMAIN chain /\ b2 = b - 2 /\ b2 \in Nat /\ b2 \in DOMAIN chain
      <3>1. b1 \in DOMAIN chain /\ b2 \in DOMAIN chain
        BY <1>6
      <3>2. b2 = b1 - 1 /\ b1 \in Nat \ {0} /\ b2 \in Nat \ {0}
        BY <3>1, LinearIs
      <3>3. (b - 1) - 1 = b - 2
        BY LinearIs
      <3> QED BY <1>2, <3>1, <3>2, <3>3
    <2> HIDE DEF b1, b2
    <2>2. /\ s2 \in State /\ s2.pendingVotes = s.pendingVotes
          /\ s2.blocks = s.blocks /\ s2.lastVote = s.lastVote /\ s2.bExec = s.bExec
          /\ s2.pendingProposals = s.pendingProposals /\ s2.lastBeat = s.lastBeat /\ s2.jobs = s.jobs
          /\ s2.committed = s.committed /\ s2.bLeaf = s1.bLeaf /\ s2.highQC = s1.highQC
          /\ s2.bLock = s.bLock \/ s2.bLock = b2
      <3>1. CASE Height(b2) > Height(s1.bLock)
        <4>1. s2 = [s1 EXCEPT !.bLock = b2]
          BY <3>1
        <4> HIDE DEF s2
        <4> QED BY <1>3, <2>1, <4>1 DEF State
      <3>2. CASE ~(Height(b2) > Height(s1.bLock))
        BY <1>3, <3>2
      <3> QED BY <3>1, <3>2
    <2> HIDE DEF s2
    <2>3. CASE b3 \notin s.blocks \/ chain[b1].parent # b2 \/ chain[b2].parent # b3
      <3>1. update(s, b) = s2
        BY <1>1, <1>6, <2>3
      <3> QED BY <1>2, <1>3, <1>6, <2>1, <2>2, <3>1 DEF UpdateStep
    <2>4. CASE ~(b3 \notin s.blocks \/ chain[b1].parent # b2 \/ chain[b2].parent # b3)
      <3>1. update(s, b) = [commit(s2, b3) EXCEPT !.bExec = b3] /\ b3 \in s.blocks /\ b3 \in DOMAIN chain
        BY <1>1, <1>6, <2>4
      <3>2. b3 = b - 3 /\ b3 \in Nat
        <4>1. b3 = b2 - 1 /\ b3 \in Nat \ {0}
          BY <2>1, <3>1, LinearIs DEF b3
        <4>2. (b - 2) - 1 = b - 3
          BY LinearIs
        <4> QED BY <2>1, <4>1, <4>2
      <3> HIDE DEF b3
      <3>3. PICK q \in Seq(Nat) :
               /\ commit(s2, b3) = [s2 EXCEPT !.committed = s2.committed \o q]
               /\ s2.bExec \in DOMAIN chain /\ b3 <= s2.bExec => q = << >>
               /\ s2.bExec \in DOMAIN chain /\ b3 > s2.bExec => q # << >> /\ Last(q) = b3
        BY <2>2, <3>1, CommitIs
      <3>4. s2.committed \o q \in Seq(Nat)
        <4>1. s2.committed \in Seq(Nat)
          BY <2>2 DEF State
        <4> QED BY <4>1, ConcatProperties
      <3> DEFINE t == [s2 EXCEPT !.committed = s2.committed \o q, !.bExec = b3]
      <3>5. update(s, b) = t
        BY <2>2, <3>1, <3>3
      <3>6. /\ t \in State /\ t.pendingVotes = s2.pendingVotes
            /\ t.blocks = s2.blocks /\ t.lastVote = s2.lastVote /\ t.bLock = s2.bLock
            /\ t.pendingProposals = s2.pendingProposals /\ t.lastBeat = s2.lastBeat /\ t.jobs = s2.jobs
            /\ t.bLeaf = s2.bLeaf /\ t.highQC = s2.highQC /\ t.bExec = b3 /\ t.committed = s2.committed \o q
        BY <2>2, <3>2, <3>4 DEF State
      <3> HIDE DEF t
      <3>7. \E x \in Seq(Nat) :
               /\ t.committed = s.committed \o x
               /\ s.bExec \in DOMAIN chain /\ b - 3 <= s.bExec => x = << >>
               /\ s.bExec \in DOMAIN chain /\ b - 3 > s.bExec => x # << >> /\ Last(x) = b - 3
        BY <2>2, <3>2, <3>3, <3>6
      <3> QED BY <1>2, <1>3, <1>6, <2>1, <2>2, <3>1, <3>2, <3>5, <3>6, <3>7 DEF UpdateStep
    <2> QED BY <2>3, <2>4
  <1> QED BY <1>4, <1>5, <1>6

-----------------------------------------------------------------------------
(* A height is proposed once: ChainInv is an invariant *)

\* The part of Known that is about the state s of a replica alone.
Fits(s) ==
    /\ s \in State /\ IsFiniteSet(s.pendingVotes)
    /\ genesis \in s.blocks /\ s.bLeaf \in s.blocks /\ s.highQC = s.bLeaf
    /\ s.blocks \subseteq DOMAIN chain /\ s.pendingProposals \subseteq DOMAIN chain
    /\ Verifying(s) \subseteq DOMAIN chain

LEMMA KnownFits ==
  ASSUME ChainInv, NEW r \in Replicas
  PROVE  Fits(rep[r]) /\ proposed[r] \subseteq DOMAIN chain /\ TypeOK /\ Linear
  BY DEF ChainInv, TypeOK, Known, Fits

LEMMA LeaderIn ==
  ASSUME NEW h \in Nat
  PROVE  getLeader(h) \in Replicas
  <1>1. N \in Nat \ {0}
    BY HotstuffAssumption
  <1>2. h % N \in 0 .. N - 1
    BY <1>1
  <1> QED BY <1>2 DEF getLeader, Replicas

\* A replica takes a step without a proposal of its own.
LEMMA ChainKept ==
  ASSUME ChainInv, NEW r \in Replicas, NEW t, Fits(t), t.lastBeat = rep[r].lastBeat,
         rep' = [rep EXCEPT ![r] = t], chain' = chain, requested' \subseteq Commands,
         votes' \subseteq Votes, proposed' \in [Replicas -> SUBSET Nat],
         \A q \in Replicas : proposed'[q] \subseteq proposed[q]
  PROVE  ChainInv'
  <1>1. rep \in [Replicas -> State] /\ chain \in Seq(Block) /\ t \in State
    BY DEF ChainInv, TypeOK, Fits
  <1>2. rep' \in [Replicas -> State] /\ \A q \in Replicas : rep'[q] = IF q = r THEN t ELSE rep[q]
    BY <1>1
  <1>3. TypeOK'
    <2>1. \A q \in Replicas : IsFiniteSet(rep'[q].pendingVotes)
      BY <1>2 DEF ChainInv, TypeOK, Fits
    <2> QED BY <1>1, <1>2, <2>1 DEF TypeOK, Block, State, Job, Votes
  <1>4. Linear'
    <2>1. \A b \in 2 .. Len(chain) : rep'[getLeader(b - 1)].lastBeat >= b - 2
      <3>1. Len(chain) \in Nat
        BY ChainTypes DEF ChainInv
      <3>2. \A q \in Replicas : rep'[q].lastBeat = rep[q].lastBeat
        BY <1>2
      <3>3. \A b \in 2 .. Len(chain) : getLeader(b - 1) \in Replicas
        BY <3>1, LeaderIn
      <3> QED BY <3>2, <3>3 DEF ChainInv, Linear
    <2> QED BY <2>1 DEF ChainInv, Linear, getLeader
  <1>5. ASSUME NEW q \in Replicas PROVE Known(q, rep[q])'
    <2>1. CASE q = r
      <3>1. rep'[q] = t /\ proposed'[q] \subseteq DOMAIN chain
        BY <1>2, <2>1, KnownFits
      <3> QED BY <3>1 DEF Known, Fits, Verifying, genesis
    <2>2. CASE q # r
      <3>1. rep'[q] = rep[q] /\ proposed'[q] \subseteq proposed[q] /\ Known(q, rep[q])
        BY <1>2, <2>2 DEF ChainInv
      <3> QED BY <3>1 DEF Known, Verifying, genesis
    <2> QED BY <2>1, <2>2
  <1> QED BY <1>3, <1>4, <1>5 DEF ChainInv, Replicas

\* What propose does, the guards of beat being true: the block is the child of the last
\* one of the chain.
LEMMA ProposeIs ==
  ASSUME ChainInv, NEW r \in Replicas, NEW s, Fits(s), s.lastBeat = rep[r].lastBeat,
         mayBeat(r, s), propose(r, [s EXCEPT !.lastBeat = Height(s.bLeaf)])
  PROVE  LET B == Len(chain) + 1
             t == rep'[r]
         IN  /\ s.bLeaf = Len(chain) /\ r = getLeader(Len(chain)) /\ Len(chain) \in Nat \ {0}
             /\ \E x \in Block : /\ chain' = Append(chain, x) /\ x.height = Len(chain)
                                 /\ x.parent = Len(chain) /\ x.qc = Len(chain)
             /\ t \in State /\ IsFiniteSet(t.pendingVotes) /\ rep' = [rep EXCEPT ![r] = t]
             /\ t.blocks = s.blocks \cup {B} /\ t.bLeaf = s.bLeaf /\ t.highQC = s.highQC
             /\ t.lastBeat = Len(chain) - 1 /\ t.pendingProposals = s.pendingProposals
             /\ t.lastVote = s.lastVote /\ t.bLock = s.bLock /\ t.bExec = s.bExec
             /\ t.committed = s.committed
             /\ t.jobs = IF Len(chain) <= s.lastVote THEN s.jobs
                         ELSE Append(s.jobs, [type |-> "Propose", block |-> B])
             /\ Longer(s, t, IF Len(chain) > s.lastVote THEN {B} ELSE {})
             /\ proposed' = [q \in Replicas |-> IF q = r THEN proposed[q] ELSE proposed[q] \cup {B}]
  <1> DEFINE B == Len(chain) + 1
             L == Len(chain)
             h == Height(s.bLeaf)
             s0 == [s EXCEPT !.lastBeat = h]
             made == [s0 EXCEPT !.blocks = s0.blocks \cup {B},
                                !.cmdQueue = IF s0.cmdQueue = << >> THEN s0.cmdQueue ELSE Tail(s0.cmdQueue)]
             cmd == IF s0.cmdQueue = << >> THEN Nil ELSE Head(s0.cmdQueue)
             x == newBlock(s0.bLeaf, cmd, s0.highQC, Height(s0.bLeaf) + 1, r)
  <1>1. TypeOK /\ Linear /\ s \in State /\ s.bLeaf \in DOMAIN chain
    BY DEF ChainInv, Fits
  <1>2. L \in Nat /\ DOMAIN chain = 1 .. L /\ s.bLeaf \in Nat \ {0} /\ h = s.bLeaf - 1 /\ h \in Nat
    BY <1>1, ChainTypes, LinearIs
  <1>3. s.bLeaf = L
    <2>1. SUFFICES ASSUME s.bLeaf # L PROVE FALSE
      OBVIOUS
    <2>2. s.bLeaf + 1 \in 2 .. L /\ (s.bLeaf + 1) - 1 = s.bLeaf /\ (s.bLeaf + 1) - 2 = h
      BY <1>1, <1>2, <2>1
    <2>3. r = getLeader(s.bLeaf) /\ h > rep[r].lastBeat
      <3>1. h + 1 = s.bLeaf
        BY <1>2
      <3> QED BY <3>1 DEF mayBeat
    <2>4. rep[r].lastBeat >= h
      BY <1>1, <2>2, <2>3 DEF Linear
    <2>5. rep[r].lastBeat \in Nat
      BY <1>1 DEF TypeOK, State
    <2> QED BY <1>2, <2>3, <2>4, <2>5
  <1>4. h + 1 = L /\ L \in Nat \ {0} /\ r = getLeader(L) /\ h = L - 1
    BY <1>2, <1>3 DEF mayBeat
  <1>5. /\ s0 \in State /\ s0.blocks = s.blocks /\ s0.bLeaf = s.bLeaf /\ s0.highQC = s.highQC
        /\ s0.lastBeat = h /\ s0.pendingProposals = s.pendingProposals
        /\ s0.lastVote = s.lastVote /\ s0.bLock = s.bLock /\ s0.bExec = s.bExec
        /\ s0.committed = s.committed /\ s0.jobs = s.jobs /\ s0.pendingVotes = s.pendingVotes
        /\ s0.cmdQueue = s.cmdQueue
    <2> HIDE DEF h
    <2> QED BY <1>1, <1>2 DEF State
  <1>6. /\ chain' = Append(chain, x) /\ rep' = [rep EXCEPT ![r] = onPropose(made, B, h + 1)]
        /\ proposed' = [q \in Replicas |-> IF q = r THEN proposed[q] ELSE proposed[q] \cup {B}]
    BY <1>5 DEF propose
  <1>7. x \in Block /\ x.height = L /\ x.parent = L /\ x.qc = L
    <2>1. cmd \in Commands \cup {Nil}
      <3>1. s0.cmdQueue \in Seq(Commands)
        BY <1>5 DEF State
      <3> QED BY <3>1, HeadTailProperties
    <2>2. r \in Nat
      BY HotstuffAssumption DEF Replicas
    <2>3. s0.bLeaf = L /\ s0.highQC = L /\ Height(s0.bLeaf) + 1 = L
      BY <1>3, <1>4, <1>5 DEF Fits
    <2> HIDE DEF s0, cmd, h, L
    <2> QED BY <1>4, <2>1, <2>2, <2>3 DEF newBlock, Block
  <1>8. /\ made \in State /\ made.blocks = s.blocks \cup {B} /\ made.bLeaf = s.bLeaf /\ made.highQC = s.highQC
        /\ made.lastBeat = h /\ made.pendingProposals = s.pendingProposals
        /\ made.lastVote = s.lastVote /\ made.bLock = s.bLock /\ made.bExec = s.bExec
        /\ made.committed = s.committed /\ made.jobs = s.jobs /\ made.pendingVotes = s.pendingVotes
    <2>1. s0.cmdQueue \in Seq(Commands)
      BY <1>5 DEF State
    <2>2. (IF s0.cmdQueue = << >> THEN s0.cmdQueue ELSE Tail(s0.cmdQueue)) \in Seq(Commands)
      BY <2>1, HeadTailProperties
    <2>3. s0.blocks \cup {B} \in SUBSET Nat
      <3>1. s.blocks \in SUBSET Nat
        BY <1>1 DEF State
      <3>2. B \in Nat /\ s0.blocks = s.blocks
        BY <1>2, <1>5
      <3> QED BY <3>1, <3>2
    <2> HIDE DEF s0, B, h
    <2> QED BY <1>5, <2>2, <2>3 DEF State
  <1> DEFINE t == onPropose(made, B, L)
  <1>9. rep' = [rep EXCEPT ![r] = t] /\ rep'[r] = t
    BY <1>1, <1>4, <1>6 DEF TypeOK
  <1>10. IsFiniteSet(made.pendingVotes) /\ B \in Nat
    BY <1>2, <1>8 DEF Fits
  <1> HIDE DEF made, x, h
  <1>11. /\ ProposalStep(made, t) /\ t.pendingProposals = made.pendingProposals
         /\ L <= made.lastVote => t = made
         /\ L > made.lastVote => t.jobs = Append(made.jobs, [type |-> "Propose", block |-> B])
         /\ Longer(made, t, IF L > made.lastVote THEN {B} ELSE {})
    <2> HIDE DEF B, L
    <2> QED BY <1>2, <1>8, <1>10, OnProposeIs
  <1>12. Longer(s, t, IF L > s.lastVote THEN {B} ELSE {})
    BY <1>8, <1>11 DEF Longer
  <1>13. t.jobs = IF L <= s.lastVote THEN s.jobs ELSE Append(s.jobs, [type |-> "Propose", block |-> B])
    <2>1. s.lastVote \in Nat
      BY <1>1 DEF State
    <2>2. CASE L <= s.lastVote
      BY <1>8, <1>11, <2>2
    <2>3. CASE ~(L <= s.lastVote)
      <3>1. L > made.lastVote
        BY <1>2, <1>8, <2>1, <2>3
      <3> QED BY <1>8, <1>11, <2>3, <3>1
    <2> QED BY <2>2, <2>3
  <1> HIDE DEF t
  <1> QED BY <1>3, <1>4, <1>6, <1>7, <1>8, <1>9, <1>11, <1>12, <1>13 DEF ProposalStep

LEMMA BeatKeepsChainInv ==
  ASSUME ChainInv, NEW r \in Replicas, NEW s, Fits(s), s.lastBeat = rep[r].lastBeat, beat(r, s),
         requested' \subseteq Commands, votes' \subseteq Votes
  PROVE  ChainInv'
  <1>1. CASE ~mayBeat(r, s)
    <2>1. rep' = [rep EXCEPT ![r] = s] /\ chain' = chain /\ proposed' = proposed
      BY <1>1 DEF beat
    <2>2. proposed \in [Replicas -> SUBSET Nat]
      BY DEF ChainInv, TypeOK
    <2> QED BY <2>1, <2>2, ChainKept
  <1>2. CASE mayBeat(r, s)
    <2> DEFINE B == Len(chain) + 1
               t == rep'[r]
    <2>1. propose(r, [s EXCEPT !.lastBeat = Height(s.bLeaf)])
      BY <1>2 DEF beat
    <2>2. /\ s.bLeaf = Len(chain) /\ r = getLeader(Len(chain)) /\ Len(chain) \in Nat \ {0}
          /\ \E x \in Block : /\ chain' = Append(chain, x) /\ x.height = Len(chain)
                              /\ x.parent = Len(chain) /\ x.qc = Len(chain)
          /\ t \in State /\ IsFiniteSet(t.pendingVotes) /\ rep' = [rep EXCEPT ![r] = t]
          /\ t.blocks = s.blocks \cup {B} /\ t.bLeaf = s.bLeaf /\ t.highQC = s.highQC
          /\ t.lastBeat = Len(chain) - 1 /\ t.pendingProposals = s.pendingProposals
          /\ Longer(s, t, IF Len(chain) > s.lastVote THEN {B} ELSE {})
          /\ proposed' = [q \in Replicas |-> IF q = r THEN proposed[q] ELSE proposed[q] \cup {B}]
      BY <1>2, <2>1, ProposeIs
    <2>3. PICK x \in Block : /\ chain' = Append(chain, x) /\ x.height = Len(chain)
                             /\ x.parent = Len(chain) /\ x.qc = Len(chain)
      BY <2>2
    <2> HIDE DEF t
    <2>4. rep \in [Replicas -> State] /\ chain \in Seq(Block) /\ proposed \in [Replicas -> SUBSET Nat]
      BY DEF ChainInv, TypeOK
    <2>5. /\ chain' \in Seq(Block) /\ DOMAIN chain = 1 .. Len(chain) /\ DOMAIN chain' = 1 .. B
          /\ Len(chain') = B /\ chain'[B] = x /\ \A b \in DOMAIN chain : chain'[b] = chain[b]
      BY <2>3, <2>4, AppendIdx
    <2>6. rep' \in [Replicas -> State] /\ \A q \in Replicas : rep'[q] = IF q = r THEN t ELSE rep[q]
      BY <2>2, <2>4
    <2>7. B \in Nat /\ B = Len(chain) + 1 /\ Len(chain) \in Nat
      BY <2>2
    <2> HIDE DEF B
    <2>8. TypeOK'
      <3>1. \A q \in Replicas : IsFiniteSet(rep'[q].pendingVotes)
        BY <2>2, <2>6 DEF ChainInv, TypeOK
      <3>2. proposed' \in [Replicas -> SUBSET Nat]
        BY <2>2, <2>4, <2>7
      <3> QED BY <2>5, <2>6, <3>1, <3>2 DEF TypeOK, Block, State, Job, Votes
    <2>9. Linear'
      <3>1. \A b \in 1 .. B : /\ chain'[b].height = b - 1
                              /\ chain'[b].parent = b - 1 /\ chain'[b].qc = b - 1
        <4>1. \A b \in 1 .. B : b \in DOMAIN chain \/ b = B
          BY <2>5, <2>7
        <4>2. B - 1 = Len(chain)
          BY <2>7
        <4> QED BY <2>3, <2>5, <4>1, <4>2 DEF ChainInv, Linear
      <3>2. ASSUME NEW b \in 2 .. B PROVE rep'[getLeader(b - 1)].lastBeat >= b - 2
        <4>1. getLeader(b - 1) \in Replicas /\ b - 1 \in Nat
          BY <2>7, LeaderIn
        <4>2. CASE getLeader(b - 1) = r
          BY <2>2, <2>6, <2>7, <4>2
        <4>3. CASE getLeader(b - 1) # r
          <5>1. b \in 2 .. Len(chain)
            <6>1. b # B
              BY <2>2, <2>7, <4>3
            <6> QED BY <2>7, <6>1
          <5> QED BY <2>6, <4>1, <4>3, <5>1 DEF ChainInv, Linear
        <4> QED BY <4>2, <4>3
      <3> QED BY <2>5, <3>1, <3>2 DEF Linear, getLeader
    <2>10. DOMAIN chain \subseteq DOMAIN chain' /\ B \in DOMAIN chain'
      BY <2>5, <2>7
    <2>11. ASSUME NEW q \in Replicas PROVE Known(q, rep[q])'
      <3>1. CASE q = r
        <4>1. rep'[q] = t /\ proposed'[q] \subseteq DOMAIN chain
          BY <2>2, <2>6, <3>1, KnownFits
        <4>2. s \in State /\ Verifying(t) \subseteq Verifying(s) \cup {B}
          <5>1. s \in State
            BY DEF Fits
          <5> QED BY <2>2, <5>1, LongerVerifying
        <4>3. Verifying(t) \subseteq DOMAIN chain' /\ t.blocks \subseteq DOMAIN chain'
          BY <2>2, <2>10, <4>2 DEF Fits
        <4>4. /\ genesis \in t.blocks /\ t.bLeaf \in t.blocks /\ t.highQC = t.bLeaf
              /\ t.pendingProposals \subseteq DOMAIN chain' /\ proposed'[q] \subseteq DOMAIN chain'
          BY <2>2, <2>10, <4>1 DEF Fits
        <4> QED BY <4>1, <4>3, <4>4 DEF Known, Verifying, genesis
      <3>2. CASE q # r
        <4>1. rep'[q] = rep[q] /\ proposed'[q] = proposed[q] \cup {B} /\ Known(q, rep[q])
          BY <2>2, <2>6, <3>2 DEF ChainInv
        <4> QED BY <2>10, <4>1 DEF Known, Verifying, genesis
      <3> QED BY <3>1, <3>2
    <2> QED BY <2>8, <2>9, <2>11 DEF ChainInv, Replicas
  <1> QED BY <1>1, <1>2

LEMMA ChainInit ==
  ASSUME Init
  PROVE  ChainInv
  <1> DEFINE leader == getLeader(1)
             job == [type |-> "Propose", block |-> 2]
             own == [Start EXCEPT !.blocks = @ \cup {2}, !.jobs = <<job>>]
  <1>1. leader \in Replicas
    BY LeaderIn
  <1>2. leader \in Nat
    BY <1>1, HotstuffAssumption DEF Replicas
  <1>3. /\ chain = <<newBlock(None, Nil, None, 0, 0), newBlock(genesis, Nil, genesis, 1, leader)>>
        /\ rep = [r \in Replicas |-> IF r = leader THEN own ELSE Start]
        /\ requested = {} /\ votes = {}
        /\ proposed = [r \in Replicas |-> IF r = leader THEN {} ELSE {2}]
    BY DEF Init
  <1>4. /\ chain \in Seq(Block) /\ Len(chain) = 2 /\ DOMAIN chain = 1 .. 2
        /\ chain[1].height = 0 /\ chain[1].parent = 0 /\ chain[1].qc = 0
        /\ chain[2].height = 1 /\ chain[2].parent = 1 /\ chain[2].qc = 1
    <2> HIDE DEF leader
    <2> QED BY <1>2, <1>3 DEF newBlock, Block, None, genesis
  <1>5. Start \in State /\ Start.jobs = << >> /\ IsFiniteSet(Start.pendingVotes) /\ Start.lastBeat = 0
    <2>1. << >> \in Seq(Commands) /\ << >> \in Seq(Job) /\ << >> \in Seq(Nat)
      OBVIOUS
    <2> QED BY <2>1, FS_EmptySet DEF Start, State, genesis
  <1>6. /\ own \in State /\ own.jobs = <<job>> /\ own.blocks = {genesis, 2} /\ own.bLeaf = genesis
        /\ own.highQC = genesis /\ own.pendingProposals = {} /\ own.lastBeat = 0 /\ own.pendingVotes = {}
    <2>1. job \in Job
      BY DEF Job
    <2>2. <<job>> \in Seq(Job)
      BY <2>1
    <2>3. {genesis} \cup {2} \in SUBSET Nat /\ Start.blocks = {genesis}
      BY DEF genesis, Start
    <2> HIDE DEF job
    <2>4. /\ Start.bLeaf = genesis /\ Start.highQC = genesis /\ Start.pendingProposals = {}
          /\ Start.pendingVotes = {}
      BY DEF Start
    <2> QED BY <1>5, <2>2, <2>3, <2>4 DEF State
  <1>7. Verifying(Start) = {} /\ Verifying(own) \subseteq {2}
    <2>1. Verifying(Start) = {}
      BY <1>5 DEF Verifying
    <2>2. \A k \in DOMAIN <<job>> : <<job>>[k].block = 2
      OBVIOUS
    <2> HIDE DEF own
    <2> QED BY <1>6, <2>1, <2>2 DEF Verifying
  <1> HIDE DEF own, leader
  <1>8. TypeOK
    <2>1. \A r \in Replicas : IsFiniteSet(rep[r].pendingVotes)
      BY <1>3, <1>5, <1>6, FS_EmptySet
    <2>2. rep \in [Replicas -> State] /\ proposed \in [Replicas -> SUBSET Nat]
      BY <1>3, <1>5, <1>6
    <2> QED BY <1>3, <1>4, <2>1, <2>2 DEF TypeOK
  <1>9. Linear
    <2>1. \A b \in DOMAIN chain : b = 1 \/ b = 2
      BY <1>4
    <2>2. \A b \in 2 .. Len(chain) : b = 2
      BY <1>4
    <2>3. rep[getLeader(2 - 1)].lastBeat >= 2 - 2
      <3>1. getLeader(2 - 1) \in Replicas
        BY <1>1 DEF leader
      <3>2. rep[getLeader(2 - 1)].lastBeat = 0
        BY <1>3, <1>5, <1>6, <3>1
      <3> QED BY <3>2
    <2> QED BY <1>4, <2>1, <2>2, <2>3 DEF Linear
  <1>10. ASSUME NEW r \in Replicas PROVE Known(r, rep[r])
    <2>1. 1 \in DOMAIN chain /\ 2 \in DOMAIN chain /\ genesis = 1
      BY <1>4 DEF genesis
    <2>2. proposed[r] \subseteq {2}
      BY <1>3
    <2>3. CASE r = leader
      <3>1. rep[r] = own
        BY <1>3, <2>3
      <3> QED BY <1>6, <1>7, <2>1, <2>2, <3>1 DEF Known
    <2>4. CASE r # leader
      <3>1. rep[r] = Start
        BY <1>3, <2>4
      <3> QED BY <1>7, <2>1, <2>2, <3>1 DEF Known, Start
    <2> QED BY <2>3, <2>4
  <1> QED BY <1>8, <1>9, <1>10 DEF ChainInv

LEMMA FitsVote ==
  ASSUME NEW s, NEW t, Fits(s), VoteStep(s, t)
  PROVE  Fits(t)
  <1>1. s \in State
    BY DEF Fits
  <1>2. Verifying(t) = Verifying(s)
    BY <1>1, VoteStepVerifying
  <1> QED BY <1>2 DEF Fits, VoteStep

LEMMA FitsProposal ==
  ASSUME NEW s, NEW t, NEW P \in SUBSET DOMAIN chain, Fits(s), ProposalStep(s, t),
         t.pendingProposals \subseteq DOMAIN chain, Longer(s, t, P)
  PROVE  Fits(t)
  <1>1. s \in State /\ t \in State
    BY DEF Fits, ProposalStep
  <1>2. Verifying(t) \subseteq Verifying(s) \cup P
    BY <1>1, LongerVerifying
  <1> QED BY <1>2 DEF Fits, ProposalStep

\* A job leaves verification.
LEMMA JobTaken ==
  ASSUME NEW s \in State, NEW i \in 1 .. Len(s.jobs)
  PROVE  LET t == [s EXCEPT !.jobs = RemoveAt(s.jobs, i)]
         IN  /\ t \in State /\ t.blocks = s.blocks /\ t.lastVote = s.lastVote /\ t.bLock = s.bLock
             /\ t.bExec = s.bExec /\ t.bLeaf = s.bLeaf /\ t.highQC = s.highQC
             /\ t.pendingProposals = s.pendingProposals /\ t.pendingVotes = s.pendingVotes
             /\ t.lastBeat = s.lastBeat /\ t.committed = s.committed
             /\ Len(s.jobs) \in Nat /\ Len(t.jobs) = Len(s.jobs) - 1
             /\ DOMAIN s.jobs = 1 .. Len(s.jobs) /\ DOMAIN t.jobs = 1 .. Len(s.jobs) - 1
             /\ \A k \in 1 .. Len(s.jobs) - 1 : t.jobs[k] = IF k < i THEN s.jobs[k] ELSE s.jobs[k + 1]
             /\ s.jobs[i] \in Job /\ Verifying(t) \subseteq Verifying(s)
  <1> DEFINE q == RemoveAt(s.jobs, i)
             t == [s EXCEPT !.jobs = q]
  <1>1. s.jobs \in Seq(Job) /\ s.jobs[i] \in Job
    BY JobsType
  <1>2. /\ q \in Seq(Job) /\ Len(s.jobs) \in Nat /\ Len(q) = Len(s.jobs) - 1
        /\ DOMAIN s.jobs = 1 .. Len(s.jobs) /\ DOMAIN q = 1 .. Len(s.jobs) - 1
        /\ \A k \in 1 .. Len(s.jobs) - 1 : q[k] = IF k < i THEN s.jobs[k] ELSE s.jobs[k + 1]
    BY <1>1, RemoveIdx
  <1> HIDE DEF q
  <1>3. /\ t \in State /\ t.blocks = s.blocks /\ t.lastVote = s.lastVote /\ t.bLock = s.bLock
        /\ t.bExec = s.bExec /\ t.bLeaf = s.bLeaf /\ t.highQC = s.highQC
        /\ t.pendingProposals = s.pendingProposals /\ t.pendingVotes = s.pendingVotes
        /\ t.lastBeat = s.lastBeat /\ t.committed = s.committed /\ t.jobs = q
    BY <1>2 DEF State
  <1> HIDE DEF t
  <1>4. \A k \in 1 .. Len(s.jobs) - 1 : k \in DOMAIN s.jobs /\ k + 1 \in DOMAIN s.jobs
    BY <1>2
  <1>5. \A k \in DOMAIN q : \E m \in DOMAIN s.jobs : q[k] = s.jobs[m]
    BY <1>2, <1>4
  <1>6. Verifying(t) \subseteq Verifying(s)
    BY <1>3, <1>5 DEF Verifying
  <1> QED BY <1>1, <1>2, <1>3, <1>6 DEF t, q

\* A replica accepts block b: t is s after the block, its certificates, and the votes and
\* the proposal that waited for it have been handled.
Accepted(s, b) == deliver(update([s EXCEPT !.blocks = @ \cup {b}, !.lastVote = Height(b)], b), b)

AcceptStep(s, t, b) ==
    /\ Fits(t) /\ t.blocks = s.blocks \cup {b} /\ t.lastVote = b - 1 /\ t.lastBeat = s.lastBeat
    /\ t.pendingProposals = {p \in s.pendingProposals : chain[p].qc # b}
    /\ t.bLock = s.bLock \/ (b - 2 \in t.blocks /\ t.bLock = b - 2)
    /\ \/ t.bExec = s.bExec /\ t.committed = s.committed
       \/ /\ b - 3 \in t.blocks /\ t.bExec = b - 3
          /\ \E q \in Seq(Nat) :
                /\ t.committed = s.committed \o q
                /\ s.bExec \in DOMAIN chain /\ b - 3 <= s.bExec => q = << >>
                /\ s.bExec \in DOMAIN chain /\ b - 3 > s.bExec => q # << >> /\ Last(q) = b - 3
    /\ \E P : /\ \A p \in P : p \in s.pendingProposals /\ chain[p].qc = b /\ p - 1 > b - 1
              /\ Longer(s, t, P)

LEMMA AcceptedIs ==
  ASSUME ChainInv, NEW s, Fits(s), NEW b \in DOMAIN chain
  PROVE  AcceptStep(s, Accepted(s, b), b)
  <1> DEFINE a == [s EXCEPT !.blocks = s.blocks \cup {b}, !.lastVote = Height(b)]
             u == update(a, b)
             t == deliver(u, b)
  <1>1. TypeOK /\ Linear /\ s \in State /\ b \in Nat /\ Height(b) = b - 1 /\ Height(b) \in Nat
    BY LinearIs DEF ChainInv, Fits
  <1>2. Accepted(s, b) = t
    BY DEF Accepted
  <1>3. /\ a \in State /\ a.blocks = s.blocks \cup {b} /\ a.lastVote = b - 1 /\ a.bLock = s.bLock
        /\ a.bExec = s.bExec /\ a.bLeaf = s.bLeaf /\ a.highQC = s.highQC
        /\ a.pendingProposals = s.pendingProposals /\ a.pendingVotes = s.pendingVotes
        /\ a.lastBeat = s.lastBeat /\ a.committed = s.committed /\ a.jobs = s.jobs
    <2> DEFINE h == Height(b)
    <2>1. s.blocks \cup {b} \in SUBSET Nat
      BY <1>1 DEF State
    <2>2. h \in Nat /\ h = b - 1
      BY <1>1
    <2> HIDE DEF h
    <2> QED BY <1>1, <2>1, <2>2 DEF State
  <1> HIDE DEF a
  <1>4. UpdateStep(a, u, b)
    <2>1. a.blocks \subseteq DOMAIN chain
      BY <1>3 DEF Fits
    <2> QED BY <1>1, <1>3, <2>1, UpdateIs
  <1> HIDE DEF u
  <1>5. /\ u \in State /\ u.pendingVotes = s.pendingVotes /\ u.blocks = s.blocks \cup {b}
        /\ u.lastVote = b - 1 /\ u.pendingProposals = s.pendingProposals /\ u.jobs = s.jobs
        /\ u.lastBeat = s.lastBeat
    BY <1>3, <1>4 DEF UpdateStep
  <1>6. Fits(u)
    <2>1. u.highQC = u.bLeaf /\ u.bLeaf \in u.blocks
      BY <1>3, <1>4 DEF UpdateStep, Fits
    <2>2. u.blocks \subseteq DOMAIN chain /\ genesis \in u.blocks
      BY <1>5 DEF Fits
    <2>3. u.pendingProposals \subseteq DOMAIN chain /\ Verifying(u) \subseteq DOMAIN chain
      BY <1>5 DEF Fits, Verifying
    <2> QED BY <1>5, <2>1, <2>2, <2>3 DEF Fits
  <1>7. /\ ProposalStep(u, t)
        /\ t.pendingProposals = {p \in u.pendingProposals : chain[p].qc # b}
        /\ \E P : /\ \A p \in P : p \in u.pendingProposals /\ chain[p].qc = b /\ Height(p) > u.lastVote
                  /\ Longer(u, t, P)
    <2>1. \A p \in u.pendingProposals : Height(p) \in Nat
      BY <1>1, <1>6, LinearIs DEF Fits
    <2>2. IsFiniteSet(u.pendingVotes)
      BY <1>6 DEF Fits
    <2> QED BY <1>5, <2>1, <2>2, DeliverIs
  <1>8. PICK P : /\ \A p \in P : p \in u.pendingProposals /\ chain[p].qc = b /\ Height(p) > u.lastVote
                 /\ Longer(u, t, P)
    BY <1>7
  <1> HIDE DEF t
  <1>9. \A p \in P : p \in s.pendingProposals /\ chain[p].qc = b /\ p - 1 > b - 1 /\ p \in DOMAIN chain
    <2>1. s.pendingProposals \subseteq DOMAIN chain
      BY DEF Fits
    <2> QED BY <1>1, <1>5, <1>8, <2>1, LinearIs
  <1>10. Fits(t)
    <2>1. P \in SUBSET DOMAIN chain /\ t.pendingProposals \subseteq DOMAIN chain
      BY <1>6, <1>7, <1>9 DEF Fits
    <2> QED BY <1>6, <1>7, <1>8, <2>1, FitsProposal
  <1>11. Longer(s, t, P)
    BY <1>5, <1>8 DEF Longer
  <1>12. \E Q : /\ \A p \in Q : p \in s.pendingProposals /\ chain[p].qc = b /\ p - 1 > b - 1
                /\ Longer(s, t, Q)
    BY <1>9, <1>11
  <1>13. /\ t.blocks = s.blocks \cup {b} /\ t.lastVote = b - 1 /\ t.lastBeat = s.lastBeat
         /\ t.pendingProposals = {p \in s.pendingProposals : chain[p].qc # b}
         /\ t.bLock = u.bLock /\ t.bExec = u.bExec /\ t.committed = u.committed
    BY <1>5, <1>7 DEF ProposalStep
  <1>14. t.bLock = s.bLock \/ (b - 2 \in t.blocks /\ t.bLock = b - 2)
    BY <1>3, <1>4, <1>13 DEF UpdateStep
  <1>15. \/ t.bExec = s.bExec /\ t.committed = s.committed
         \/ /\ b - 3 \in t.blocks /\ t.bExec = b - 3
            /\ \E q \in Seq(Nat) :
                  /\ t.committed = s.committed \o q
                  /\ s.bExec \in DOMAIN chain /\ b - 3 <= s.bExec => q = << >>
                  /\ s.bExec \in DOMAIN chain /\ b - 3 > s.bExec => q # << >> /\ Last(q) = b - 3
    BY <1>3, <1>4, <1>13 DEF UpdateStep
  <1> QED BY <1>2, <1>10, <1>12, <1>13, <1>14, <1>15 DEF AcceptStep

\* The three ways in which onProposeContinue ends.
LEMMA ContinueIs ==
  ASSUME ChainInv, NEW r \in Replicas, NEW s, Fits(s), NEW b \in DOMAIN chain,
         onProposeContinue(r, s, b)
  PROVE  /\ chain' = chain /\ requested' = requested /\ proposed' = proposed
         /\ votes' \subseteq Votes
         /\ \/ ~safe(s, b) /\ rep' = [rep EXCEPT ![r] = queueBlockPropose(s, b)]
            \/ safe(s, b) /\ \E t : rep' = [rep EXCEPT ![r] = t] /\ VoteStep(Accepted(s, b), t)
  <1> DEFINE voted == [s EXCEPT !.blocks = @ \cup {b}, !.lastVote = Height(b)]
             d == deliver(update(voted, b), b)
             vote == [block |-> b, signer |-> r]
  <1>1. d = Accepted(s, b)
    BY DEF Accepted
  <1>2. vote \in Votes /\ votes \subseteq Votes
    <2>1. b \in Nat
      BY LinearIs DEF ChainInv
    <2> QED BY <2>1 DEF Votes, ChainInv, TypeOK
  <1>3. chain' = chain /\ requested' = requested /\ proposed' = proposed
    BY DEF onProposeContinue
  <1>4. IF ~safe(s, b)
        THEN rep' = [rep EXCEPT ![r] = queueBlockPropose(s, b)] /\ votes' = votes
        ELSE IF getLeader(Height(b) + 1) = r
        THEN rep' = [rep EXCEPT ![r] = onVote(d, vote)] /\ votes' = votes
        ELSE rep' = [rep EXCEPT ![r] = d] /\ votes' = votes \cup {vote}
    BY DEF onProposeContinue
  <1>5. Fits(d)
    BY <1>1, AcceptedIs DEF AcceptStep
  <1>6. d \in State /\ IsFiniteSet(d.pendingVotes)
    BY <1>5 DEF Fits
  <1> HIDE DEF d, vote
  <1>7. VoteStep(d, d) /\ VoteStep(d, onVote(d, vote))
    BY <1>2, <1>6, VoteStepRefl, OnVoteStep
  <1> QED BY <1>1, <1>2, <1>3, <1>4, <1>7

LEMMA QueueIs ==
  ASSUME NEW s, Fits(s), NEW b \in DOMAIN chain, b \in Nat
  PROVE  LET t == queueBlockPropose(s, b)
         IN  /\ Fits(t) /\ t.blocks = s.blocks /\ t.lastVote = s.lastVote /\ t.bLock = s.bLock
             /\ t.bExec = s.bExec /\ t.lastBeat = s.lastBeat /\ t.committed = s.committed
             /\ t.jobs = s.jobs
             /\ t.pendingProposals \subseteq s.pendingProposals \cup {b}
  <1> DEFINE T == {p \in s.pendingProposals : chain[p].qc # chain[b].qc} \cup {b}
             t == [s EXCEPT !.pendingProposals = T]
  <1>1. queueBlockPropose(s, b) = t
    BY DEF queueBlockPropose
  <1>2. s \in State
    BY DEF Fits
  <1>3. T \in SUBSET Nat /\ T \subseteq s.pendingProposals \cup {b}
    BY <1>2 DEF State
  <1> HIDE DEF T
  <1>4. /\ t \in State /\ t.blocks = s.blocks /\ t.lastVote = s.lastVote /\ t.bLock = s.bLock
        /\ t.bExec = s.bExec /\ t.lastBeat = s.lastBeat /\ t.committed = s.committed
        /\ t.jobs = s.jobs /\ t.pendingVotes = s.pendingVotes /\ t.bLeaf = s.bLeaf
        /\ t.highQC = s.highQC /\ t.pendingProposals = T
    BY <1>2, <1>3 DEF State
  <1> HIDE DEF t
  <1>5. Fits(t)
    BY <1>3, <1>4 DEF Fits, Verifying
  <1> QED BY <1>1, <1>3, <1>4, <1>5

\* The state s that onVoteContinue passes on: the vote is counted.
Counted(s, V, qc) == updateHighQC([s EXCEPT !.verifiedVotes = V], qc)

LEMMA CountedIs ==
  ASSUME NEW s, Fits(s), NEW V \in SUBSET Votes, NEW qc \in Nat
  PROVE  LET t == [s EXCEPT !.verifiedVotes = V]
             u == Counted(s, V, qc)
         IN  /\ Fits(t) /\ VoteStep(s, t) /\ Fits(u)
             /\ u.blocks = s.blocks /\ u.lastVote = s.lastVote /\ u.bLock = s.bLock
             /\ u.bExec = s.bExec /\ u.lastBeat = s.lastBeat /\ u.committed = s.committed
             /\ u.jobs = s.jobs /\ u.pendingProposals = s.pendingProposals
  <1> DEFINE t == [s EXCEPT !.verifiedVotes = V]
             u == updateHighQC(t, qc)
  <1>1. s \in State /\ IsFiniteSet(s.pendingVotes)
    BY DEF Fits
  <1>2. VoteStep(s, t) /\ t.jobs = s.jobs
    <2>1. t = [s EXCEPT !.verifiedVotes = V, !.pendingVotes = s.pendingVotes]
      BY <1>1 DEF State
    <2>2. s.pendingVotes \in SUBSET Votes
      BY <1>1 DEF State
    <2>3. t.jobs = s.jobs
      BY <1>1 DEF State
    <2> HIDE DEF t
    <2> QED BY <1>1, <2>1, <2>2, <2>3, VoteStepKept
  <1> HIDE DEF t
  <1>3. Fits(t) /\ t \in State
    BY <1>2, FitsVote DEF VoteStep
  <1>4. /\ u \in State /\ u.pendingVotes = t.pendingVotes
        /\ u.blocks = t.blocks /\ u.lastVote = t.lastVote /\ u.bLock = t.bLock /\ u.bExec = t.bExec
        /\ u.pendingProposals = t.pendingProposals /\ u.lastBeat = t.lastBeat /\ u.jobs = t.jobs
        /\ u.committed = t.committed
        /\ \/ u.bLeaf = t.bLeaf /\ u.highQC = t.highQC
           \/ qc \in t.blocks /\ u.bLeaf = qc /\ u.highQC = qc
    BY <1>3, UpdateHighQCIs
  <1> HIDE DEF u
  <1>5. Fits(u)
    <2>1. u.highQC = u.bLeaf /\ u.bLeaf \in u.blocks
      BY <1>3, <1>4 DEF Fits
    <2>2. Verifying(u) = Verifying(t)
      BY <1>4 DEF Verifying
    <2> QED BY <1>3, <1>4, <2>1, <2>2 DEF Fits
  <1>6. u = Counted(s, V, qc)
    BY DEF Counted, u, t
  <1> QED BY <1>2, <1>3, <1>4, <1>5, <1>6 DEF VoteStep, t

\* The two ways in which onVoteContinue ends.
LEMMA VoteContinueIs ==
  ASSUME NEW r, NEW s, Fits(s), NEW v \in Votes, onVoteContinue(r, s, v)
  PROVE  /\ requested' = requested /\ votes' = votes
         /\ \E V \in SUBSET Votes :
               \/ rep' = [rep EXCEPT ![r] = [s EXCEPT !.verifiedVotes = V]] /\ UNCHANGED <<chain, proposed>>
               \/ beat(r, Counted(s, V, v.block))
  <1> DEFINE W == s.verifiedVotes \cup {v}
             s1 == [s EXCEPT !.verifiedVotes = W]
             of == {w \in s1.verifiedVotes : w.block = v.block}
  <1>1. s \in State
    BY DEF Fits
  <1>2. W \in SUBSET Votes
    BY <1>1 DEF State
  <1>3. s1.verifiedVotes = W
    <2> HIDE DEF W
    <2> QED BY <1>1, <1>2 DEF State
  <1>4. /\ requested' = requested /\ votes' = votes
        /\ IF Cardinality(of) < 2 * F + 1
           THEN rep' = [rep EXCEPT ![r] = s1] /\ UNCHANGED <<chain, proposed>>
           ELSE beat(r, updateHighQC([s1 EXCEPT !.verifiedVotes = W \ of], v.block))
    <2>1. /\ requested' = requested /\ votes' = votes
          /\ IF Cardinality(of) < 2 * F + 1
             THEN rep' = [rep EXCEPT ![r] = s1] /\ UNCHANGED <<chain, proposed>>
             ELSE beat(r, updateHighQC([s1 EXCEPT !.verifiedVotes = s1.verifiedVotes \ of], v.block))
      BY DEF onVoteContinue
    <2> QED BY <1>3, <2>1
  <1>5. [s1 EXCEPT !.verifiedVotes = W \ of] = [s EXCEPT !.verifiedVotes = W \ of]
    <2> HIDE DEF W, of
    <2> QED BY <1>1 DEF State
  <1>6. W \ of \in SUBSET Votes
    BY <1>2
  <1>7. CASE Cardinality(of) < 2 * F + 1
    BY <1>2, <1>4, <1>7
  <1>8. CASE ~(Cardinality(of) < 2 * F + 1)
    <2>1. beat(r, Counted(s, W \ of, v.block))
      BY <1>4, <1>5, <1>8 DEF Counted
    <2> QED BY <1>4, <1>6, <2>1
  <1> QED BY <1>7, <1>8

LEMMA ChainStep ==
  ASSUME ChainInv, [Next]_vars
  PROVE  ChainInv'
  <1>0. /\ rep \in [Replicas -> State] /\ proposed \in [Replicas -> SUBSET Nat]
        /\ requested \subseteq Commands /\ votes \subseteq Votes /\ TypeOK /\ Linear
    BY DEF ChainInv, TypeOK
  <1>1. ASSUME NEW r \in Replicas, NEW c \in Commands, Request(r, c) PROVE ChainInv'
    <2> DEFINE s == [rep[r] EXCEPT !.cmdQueue = Append(rep[r].cmdQueue, c)]
    <2>1. Fits(rep[r]) /\ rep[r] \in State
      BY KnownFits DEF Fits
    <2>2. Append(rep[r].cmdQueue, c) \in Seq(Commands)
      <3>1. rep[r].cmdQueue \in Seq(Commands)
        BY <2>1 DEF State
      <3> QED BY <3>1, AppendProperties
    <2>3. beat(r, s) /\ requested' \subseteq Commands /\ votes' \subseteq Votes
      BY <1>0, <1>1 DEF Request
    <2>4. /\ s \in State /\ s.blocks = rep[r].blocks /\ s.bLeaf = rep[r].bLeaf /\ s.highQC = rep[r].highQC
          /\ s.pendingProposals = rep[r].pendingProposals /\ s.pendingVotes = rep[r].pendingVotes
          /\ s.lastBeat = rep[r].lastBeat /\ s.jobs = rep[r].jobs
      BY <2>1, <2>2 DEF State
    <2> HIDE DEF s
    <2>5. Fits(s)
      BY <2>1, <2>4 DEF Fits, Verifying
    <2> QED BY <2>3, <2>4, <2>5, BeatKeepsChainInv
  <1>2. ASSUME NEW r \in Replicas, NEW b \in proposed[r], StepPropose(r, b) PROVE ChainInv'
    <2> DEFINE h == Height(b)
               t == onPropose(rep[r], b, h)
    <2>1. Fits(rep[r]) /\ rep[r] \in State /\ IsFiniteSet(rep[r].pendingVotes) /\ b \in DOMAIN chain
      BY KnownFits DEF Fits
    <2>2. b \in Nat /\ h \in Nat
      BY <1>0, <2>1, LinearIs
    <2>3. rep' = [rep EXCEPT ![r] = t] /\ proposed' = [proposed EXCEPT ![r] = @ \ {b}]
          /\ chain' = chain /\ requested' = requested /\ votes' = votes
      BY <1>2 DEF StepPropose
    <2> HIDE DEF h
    <2>4. /\ ProposalStep(rep[r], t) /\ t.pendingProposals = rep[r].pendingProposals
          /\ Longer(rep[r], t, IF h > rep[r].lastVote THEN {b} ELSE {})
      BY <2>1, <2>2, OnProposeIs
    <2> HIDE DEF t
    <2>5. Fits(t) /\ t.lastBeat = rep[r].lastBeat
      <3>1. (IF h > rep[r].lastVote THEN {b} ELSE {}) \in SUBSET DOMAIN chain
        BY <2>1
      <3>2. t.pendingProposals \subseteq DOMAIN chain
        BY <2>1, <2>4 DEF Fits
      <3> QED BY <2>1, <2>4, <3>1, <3>2, FitsProposal DEF ProposalStep
    <2>6. proposed' \in [Replicas -> SUBSET Nat] /\ \A q \in Replicas : proposed'[q] \subseteq proposed[q]
      BY <1>0, <2>3
    <2> QED BY <1>0, <2>3, <2>5, <2>6, ChainKept
  <1>3. ASSUME NEW r \in Replicas, NEW v \in votes, StepVote(r, v) PROVE ChainInv'
    <2> DEFINE t == onVote(rep[r], v)
    <2>1. Fits(rep[r]) /\ rep[r] \in State /\ IsFiniteSet(rep[r].pendingVotes) /\ v \in Votes
      BY <1>0, KnownFits DEF Fits
    <2>2. VoteStep(rep[r], t)
      BY <2>1, OnVoteStep
    <2>3. rep' = [rep EXCEPT ![r] = t] /\ proposed' = proposed
          /\ chain' = chain /\ requested' = requested /\ votes' \subseteq Votes
      BY <1>0, <1>3 DEF StepVote
    <2> HIDE DEF t
    <2>4. Fits(t) /\ t.lastBeat = rep[r].lastBeat
      BY <2>1, <2>2, FitsVote DEF VoteStep
    <2> QED BY <1>0, <2>3, <2>4, ChainKept
  <1>4. ASSUME NEW r \in Replicas, AsyncCallback(r) PROVE ChainInv'
    <2>1. PICK i \in 1 .. Len(rep[r].jobs) :
             LET j == rep[r].jobs[i]
                 s == [rep[r] EXCEPT !.jobs = RemoveAt(rep[r].jobs, i)]
             IN  \/ j.type = "Propose" /\ onProposeContinue(r, s, j.block)
                 \/ j.type = "Vote" /\ onVoteContinue(r, s, j.vote)
      BY <1>4 DEF AsyncCallback
    <2> DEFINE j == rep[r].jobs[i]
               s == [rep[r] EXCEPT !.jobs = RemoveAt(rep[r].jobs, i)]
    <2>2. Fits(rep[r]) /\ rep[r] \in State
      BY KnownFits DEF Fits
    <2>3. /\ s \in State /\ s.blocks = rep[r].blocks /\ s.bLeaf = rep[r].bLeaf /\ s.highQC = rep[r].highQC
          /\ s.pendingProposals = rep[r].pendingProposals /\ s.pendingVotes = rep[r].pendingVotes
          /\ s.lastBeat = rep[r].lastBeat /\ Verifying(s) \subseteq Verifying(rep[r])
          /\ j \in Job /\ DOMAIN rep[r].jobs = 1 .. Len(rep[r].jobs)
      BY <2>2, JobTaken
    <2>4. \/ j.type = "Propose" /\ onProposeContinue(r, s, j.block)
          \/ j.type = "Vote" /\ onVoteContinue(r, s, j.vote)
      BY <2>1
    <2>5. j.type = "Propose" => j.block \in Verifying(rep[r])
      BY <2>3 DEF Verifying
    <2>6. j.type = "Vote" => j.vote \in Votes
      <3> HIDE DEF j
      <3> QED BY <2>3 DEF Job
    <2> HIDE DEF s, j
    <2>7. Fits(s)
      BY <2>2, <2>3 DEF Fits
    <2>8. CASE j.type = "Propose" /\ onProposeContinue(r, s, j.block)
      <3> DEFINE b == j.block
      <3>1. b \in DOMAIN chain /\ b \in Nat
        BY <1>0, <2>2, <2>5, <2>8, LinearIs DEF Fits
      <3>2. onProposeContinue(r, s, b)
        BY <2>8
      <3> HIDE DEF b
      <3>3. /\ chain' = chain /\ requested' = requested /\ proposed' = proposed
            /\ votes' \subseteq Votes
            /\ \/ ~safe(s, b) /\ rep' = [rep EXCEPT ![r] = queueBlockPropose(s, b)]
               \/ safe(s, b) /\ \E t : rep' = [rep EXCEPT ![r] = t] /\ VoteStep(Accepted(s, b), t)
        BY <2>7, <3>1, <3>2, ContinueIs
      <3>4. CASE rep' = [rep EXCEPT ![r] = queueBlockPropose(s, b)]
        <4> DEFINE t == queueBlockPropose(s, b)
        <4>1. Fits(t) /\ t.lastBeat = rep[r].lastBeat
          BY <2>3, <2>7, <3>1, QueueIs
        <4> HIDE DEF t
        <4>2. rep' = [rep EXCEPT ![r] = t]
          BY <3>4 DEF t
        <4> QED BY <1>0, <3>3, <4>1, <4>2, ChainKept
      <3>5. CASE \E t : rep' = [rep EXCEPT ![r] = t] /\ VoteStep(Accepted(s, b), t)
        <4>1. PICK t : rep' = [rep EXCEPT ![r] = t] /\ VoteStep(Accepted(s, b), t)
          BY <3>5
        <4>2. Fits(Accepted(s, b)) /\ Accepted(s, b).lastBeat = rep[r].lastBeat
          BY <2>3, <2>7, <3>1, AcceptedIs DEF AcceptStep
        <4>3. Fits(t) /\ t.lastBeat = rep[r].lastBeat
          BY <4>1, <4>2, FitsVote DEF VoteStep
        <4> QED BY <1>0, <3>3, <4>1, <4>3, ChainKept
      <3> QED BY <3>3, <3>4, <3>5
    <2>9. CASE j.type = "Vote" /\ onVoteContinue(r, s, j.vote)
      <3> DEFINE v == j.vote
      <3>1. v \in Votes /\ onVoteContinue(r, s, v)
        BY <2>6, <2>9
      <3> HIDE DEF v
      <3>2. v.block \in Nat
        BY <3>1 DEF Votes
      <3>3. requested' = requested /\ votes' = votes
        BY <2>7, <3>1, VoteContinueIs
      <3>4. PICK V \in SUBSET Votes :
               \/ rep' = [rep EXCEPT ![r] = [s EXCEPT !.verifiedVotes = V]] /\ UNCHANGED <<chain, proposed>>
               \/ beat(r, Counted(s, V, v.block))
        BY <2>7, <3>1, VoteContinueIs
      <3> DEFINE t == [s EXCEPT !.verifiedVotes = V]
                 u == Counted(s, V, v.block)
                 x == v.block
      <3>5. Fits(t) /\ VoteStep(s, t) /\ Fits(u) /\ u.lastBeat = s.lastBeat
        <4>1. x \in Nat
          BY <3>2
        <4> HIDE DEF x
        <4>2. /\ Fits([s EXCEPT !.verifiedVotes = V]) /\ VoteStep(s, [s EXCEPT !.verifiedVotes = V])
              /\ Fits(Counted(s, V, x)) /\ Counted(s, V, x).lastBeat = s.lastBeat
          BY <2>7, <4>1, CountedIs
        <4> QED BY <4>2 DEF x
      <3>6. \/ rep' = [rep EXCEPT ![r] = t] /\ chain' = chain /\ proposed' = proposed
            \/ beat(r, u)
        BY <3>4
      <3> HIDE DEF t, u
      <3>7. t.lastBeat = rep[r].lastBeat /\ u.lastBeat = rep[r].lastBeat
        BY <2>3, <3>5 DEF VoteStep
      <3>8. CASE rep' = [rep EXCEPT ![r] = t] /\ chain' = chain /\ proposed' = proposed
        BY <1>0, <3>3, <3>5, <3>7, <3>8, ChainKept
      <3>9. CASE beat(r, u)
        BY <1>0, <3>3, <3>5, <3>7, <3>9, BeatKeepsChainInv
      <3> QED BY <3>6, <3>8, <3>9
    <2> QED BY <2>4, <2>8, <2>9
  <1>5. CASE UNCHANGED vars
    <2>1. /\ chain' = chain /\ rep' = rep /\ requested' = requested /\ proposed' = proposed
          /\ votes' = votes
      BY <1>5 DEF vars
    <2>2. TypeOK' /\ Linear'
      BY <1>0, <2>1 DEF TypeOK, Linear
    <2>3. ASSUME NEW r \in Replicas PROVE Known(r, rep[r])'
      BY <2>1 DEF ChainInv, Known, Verifying
    <2> QED BY <2>2, <2>3 DEF ChainInv
  <1> QED BY <1>1, <1>2, <1>3, <1>4, <1>5 DEF Next, Step

LEMMA ChainInvOne ==
  ASSUME ChainInv
  PROVE  OneProposal
  <1>1. \A b \in DOMAIN chain : Height(b) = b - 1 /\ b \in Nat
    BY LinearIs DEF ChainInv
  <1> QED BY <1>1 DEF OneProposal

\* The invariant of chained HotStuff: the blocks form one line, every replica knows blocks
\* of it only, and a leader remembers the last height it has proposed.
THEOREM ChainInvariant == Spec => []ChainInv
  <1>1. Init => ChainInv
    BY ChainInit
  <1>2. ChainInv /\ [Next]_vars => ChainInv'
    BY ChainStep
  <1> QED BY <1>1, <1>2, PTL DEF Spec

-----------------------------------------------------------------------------
(* One verifying worker: TurnInv is an invariant *)

\* Jobs are added at the end, and own blocks.
LEMMA TurnLonger ==
  ASSUME NEW s \in State, NEW t \in State, NEW P, NEW R, NEW Q, InTurn(s, P), Longer(s, t, Q),
         t.lastVote = s.lastVote, t.pendingProposals \subseteq s.pendingProposals, R \subseteq P,
         \A b \in t.blocks : 1 .. b \subseteq t.blocks,
         \A b \in t.blocks \ s.blocks : b > s.lastVote + 1 => Ahead(t, b),
         Q \cap Verifying(s) = {}, Q \cap t.pendingProposals = {}, Q \cap R = {},
         \A b \in Q : b > s.lastVote + 1
  PROVE  InTurn(t, R)
  <1>1. /\ Len(s.jobs) \in Nat /\ Len(t.jobs) \in Nat /\ Len(t.jobs) >= Len(s.jobs)
        /\ DOMAIN s.jobs = 1 .. Len(s.jobs) /\ DOMAIN t.jobs = 1 .. Len(t.jobs)
    BY JobsType DEF Longer
  <1>2. \A k \in DOMAIN s.jobs : k \in DOMAIN t.jobs /\ t.jobs[k] = s.jobs[k]
    BY <1>1 DEF Longer
  <1>3. \A k \in DOMAIN t.jobs : k \in DOMAIN s.jobs \/ k > Len(s.jobs)
    BY <1>1
  <1>4. Verifying(t) \subseteq Verifying(s) \cup Q
    BY LongerVerifying
  <1>5. \A k \in DOMAIN t.jobs : t.jobs[k].type = "Propose" =>
           \/ k \in DOMAIN s.jobs /\ t.jobs[k] = s.jobs[k] /\ t.jobs[k].block \in Verifying(s)
           \/ k > Len(s.jobs) /\ t.jobs[k].block \in Q
    BY <1>2, <1>3 DEF Longer, Verifying
  <1>6. ASSUME NEW i \in DOMAIN t.jobs, NEW k \in DOMAIN t.jobs,
               t.jobs[i].type = "Propose", t.jobs[k].type = "Propose", t.jobs[i].block = t.jobs[k].block
        PROVE  i = k
    <2>1. CASE i \in DOMAIN s.jobs /\ k \in DOMAIN s.jobs
      BY <1>2, <1>6, <2>1 DEF InTurn
    <2>2. CASE i > Len(s.jobs) /\ k > Len(s.jobs)
      BY <1>6, <2>2 DEF Longer
    <2>3. ~(t.jobs[i].block \in Verifying(s) /\ t.jobs[k].block \in Q)
      BY <1>6
    <2>4. ~(t.jobs[k].block \in Verifying(s) /\ t.jobs[i].block \in Q)
      BY <1>6
    <2> QED BY <1>5, <1>6, <2>1, <2>2, <2>3, <2>4
  <1>7. Verifying(t) \cap (t.pendingProposals \cup R) = {}
    BY <1>4 DEF InTurn
  <1>8. t.pendingProposals \cap R = {}
    BY DEF InTurn
  <1>9. \A b \in Verifying(t) : b > t.lastVote + 1
    BY <1>4 DEF InTurn
  <1>10. ASSUME NEW b \in s.blocks, Ahead(s, b) PROVE Ahead(t, b)
    <2>1. PICK i \in DOMAIN s.jobs :
             /\ s.jobs[i].type = "Propose" /\ s.jobs[i].block = b
             /\ \A k \in 1 .. i - 1 : s.jobs[k].type = "Propose" => s.jobs[k].block < b
      BY <1>10 DEF Ahead
    <2>2. \A k \in 1 .. i - 1 : k \in DOMAIN s.jobs
      BY <1>1
    <2> QED BY <1>2, <2>1, <2>2 DEF Ahead
  <1>11. ASSUME NEW b \in t.blocks, b > t.lastVote + 1 PROVE Ahead(t, b)
    <2>1. CASE b \in s.blocks
      <3>1. Ahead(s, b)
        BY <1>11, <2>1 DEF InTurn
      <3> QED BY <1>10, <2>1, <3>1
    <2> QED BY <1>11, <2>1
  <1> QED BY <1>6, <1>7, <1>8, <1>9, <1>11 DEF InTurn

\* Two states with the same blocks, proposals and jobs.
Alike(s, t) ==
    /\ t.blocks = s.blocks /\ t.lastVote = s.lastVote /\ t.bLock = s.bLock /\ t.bExec = s.bExec
    /\ t.pendingProposals = s.pendingProposals /\ t.jobs = s.jobs /\ t.committed = s.committed

LEMMA TurnAlike ==
  ASSUME NEW s, NEW t, NEW P, Alike(s, t), InTurn(s, P), Committing(s)
  PROVE  InTurn(t, P) /\ Committing(t)
  <1>1. Verifying(t) = Verifying(s)
    BY DEF Alike, Verifying
  <1> QED BY <1>1 DEF Alike, InTurn, Ahead, Committing

\* Fewer proposals on their way, or a new one.
LEMMA TurnArriving ==
  ASSUME NEW s, NEW P, NEW Q, InTurn(s, P), Q \cap (Verifying(s) \cup s.pendingProposals) = {}
  PROVE  \A R \in SUBSET (P \cup Q) : InTurn(s, R)
  BY DEF InTurn

LEMMA TurnVote ==
  ASSUME NEW s \in State, NEW t, NEW P, InTurn(s, P), Committing(s), VoteStep(s, t)
  PROVE  InTurn(t, P) /\ Committing(t)
  <1>1. Longer(s, t, {}) /\ t \in State
    BY VoteStepLonger DEF VoteStep
  <1>2. /\ t.blocks = s.blocks /\ t.lastVote = s.lastVote /\ t.bLock = s.bLock /\ t.bExec = s.bExec
        /\ t.pendingProposals = s.pendingProposals /\ t.committed = s.committed
    BY DEF VoteStep
  <1>3. \A b \in t.blocks : 1 .. b \subseteq t.blocks
    BY <1>2 DEF InTurn
  <1>4. InTurn(t, P)
    BY <1>1, <1>2, <1>3, TurnLonger
  <1> QED BY <1>2, <1>4 DEF Committing

\* The vote rule asks for the block before b, and is met when b is two above the lock
\* (or when both are at the beginning).
LEMMA SafeIs ==
  ASSUME TypeOK, Linear, NEW s \in State, NEW b \in DOMAIN chain, s.blocks \subseteq DOMAIN chain,
         s.bLock \in s.blocks, s.bLock < b
  PROVE  /\ safe(s, b) => b - 1 \in s.blocks
         /\ b - 1 \in s.blocks /\ (s.bLock < b - 1 \/ (b = 2 /\ s.bLock = 1)) => safe(s, b)
  <1> DEFINE L == s.bLock
             root == CHOOSE f : f = [x \in 1 .. b |->
                        IF Height(x) <= Height(s.bLock) THEN x
                        ELSE IF chain[x].parent \in s.blocks THEN f[chain[x].parent] ELSE None]
             g == [x \in 1 .. b |-> IF x <= L THEN x ELSE IF L .. (x - 1) \subseteq s.blocks THEN L ELSE None]
  <1>1. Len(chain) \in Nat /\ DOMAIN chain = 1 .. Len(chain)
    BY ChainTypes
  <1>2. /\ b \in Nat \ {0} /\ Height(b) = b - 1 /\ chain[b].parent = b - 1 /\ chain[b].qc = b - 1
        /\ L \in DOMAIN chain /\ L \in Nat \ {0} /\ Height(L) = L - 1
    BY LinearIs
  <1>3. \A x \in 1 .. b : x \in Nat \ {0} /\ Height(x) = x - 1 /\ chain[x].parent = x - 1
    <2>1. \A x \in 1 .. b : x \in DOMAIN chain
      BY <1>1, <1>2
    <2> QED BY <2>1, LinearIs
  <1>4. safe(s, b) <=> (b - 1 \in s.blocks /\ Height(b - 1) > Height(s.bLock)) \/ root[b] = s.bLock
    BY <1>2 DEF safe
  <1> HIDE DEF L
  <1>5. ASSUME NEW x \in 1 .. b
        PROVE  g[x] = IF Height(x) <= Height(L) THEN x
                      ELSE IF chain[x].parent \in s.blocks THEN g[chain[x].parent] ELSE None
    <2>1. x \in Nat \ {0} /\ Height(x) = x - 1 /\ chain[x].parent = x - 1
      BY <1>3
    <2>2. Height(x) <= Height(L) <=> x <= L
      BY <1>2, <2>1
    <2>3. CASE x <= L
      BY <2>2, <2>3
    <2>4. CASE ~(x <= L)
      <3>1. x - 1 \in 1 .. b /\ x - 1 \in L .. (x - 1) /\ x - 1 >= L
        BY <1>2, <2>1, <2>4
      <3>2. g[x - 1] = IF x - 1 <= L THEN x - 1 ELSE IF L .. ((x - 1) - 1) \subseteq s.blocks THEN L ELSE None
        BY <3>1
      <3>3. g[x] = IF L .. (x - 1) \subseteq s.blocks THEN L ELSE None
        BY <2>4
      <3> HIDE DEF g
      <3>4. CASE x - 1 <= L
        <4>1. x - 1 = L /\ L .. (x - 1) = {x - 1}
          BY <1>2, <2>1, <3>1, <3>4
        <4> QED BY <2>1, <2>2, <2>4, <3>2, <3>3, <3>4, <4>1
      <3>5. CASE ~(x - 1 <= L)
        <4>1. L .. (x - 1) = (L .. ((x - 1) - 1)) \cup {x - 1}
          BY <1>2, <2>1, <3>1, <3>5
        <4> QED BY <2>1, <2>2, <2>4, <3>2, <3>3, <3>5, <4>1
      <3> QED BY <3>4, <3>5
    <2> QED BY <2>3, <2>4
  <1>6. root = [x \in 1 .. b |-> IF Height(x) <= Height(L) THEN x
                                 ELSE IF chain[x].parent \in s.blocks THEN root[chain[x].parent] ELSE None]
    <2>1. g = [x \in 1 .. b |-> g[x]]
      OBVIOUS
    <2>2. \E f : f = [x \in 1 .. b |-> IF Height(x) <= Height(L) THEN x
                                        ELSE IF chain[x].parent \in s.blocks THEN f[chain[x].parent] ELSE None]
      <3> HIDE DEF g
      <3> QED BY <1>5, <2>1
    <2> QED BY <2>2 DEF L
  <1> HIDE DEF root, g
  <1>7. \A x \in 1 .. b : root[x] = IF x <= L THEN x ELSE IF x - 1 \in s.blocks THEN root[x - 1] ELSE None
    <2>1. \A x \in 1 .. b : Height(x) <= Height(L) <=> x <= L
      BY <1>2, <1>3
    <2>2. ASSUME NEW x \in 1 .. b
          PROVE  root[x] = IF x <= L THEN x ELSE IF x - 1 \in s.blocks THEN root[x - 1] ELSE None
      <3>1. root[x] = IF Height(x) <= Height(L) THEN x
                      ELSE IF chain[x].parent \in s.blocks THEN root[chain[x].parent] ELSE None
        BY <1>6
      <3> QED BY <1>3, <2>1, <3>1
    <2> QED BY <2>2
  <1>8. b \in 1 .. b /\ ~(b <= L) /\ None = 0
    BY <1>2 DEF L, None
  <1>9. safe(s, b) => b - 1 \in s.blocks
    <2>1. b - 1 \notin s.blocks => root[b] = None
      BY <1>7, <1>8
    <2> QED BY <1>2, <1>4, <1>8, <2>1 DEF L
  <1>10. ASSUME b - 1 \in s.blocks, L < b - 1 PROVE safe(s, b)
    <2>1. b - 1 \in DOMAIN chain
      BY <1>10
    <2>2. Height(b - 1) = (b - 1) - 1
      BY <2>1, LinearIs
    <2>3. Height(b - 1) > Height(L)
      BY <1>2, <1>10, <2>2
    <2> QED BY <1>4, <1>10, <2>3 DEF L
  <1>11. ASSUME b - 1 \in s.blocks, b = 2, L = 1 PROVE safe(s, b)
    <2>1. 1 \in 1 .. b /\ b - 1 = 1
      BY <1>11
    <2>2. root[b] = root[1] /\ root[1] = 1
      BY <1>7, <1>8, <1>11, <2>1
    <2> QED BY <1>4, <1>11, <2>2 DEF L
  <1> QED BY <1>9, <1>10, <1>11 DEF L

\* The first job leaves verification.
LEMMA TurnTaken ==
  ASSUME NEW s \in State, NEW P, InTurn(s, P), 1 \in 1 .. Len(s.jobs), NEW t \in State,
         t.blocks = s.blocks, t.lastVote = s.lastVote, t.pendingProposals = s.pendingProposals,
         Len(s.jobs) \in Nat, DOMAIN s.jobs = 1 .. Len(s.jobs), DOMAIN t.jobs = 1 .. Len(s.jobs) - 1,
         \A k \in 1 .. Len(s.jobs) - 1 : t.jobs[k] = IF k < 1 THEN s.jobs[k] ELSE s.jobs[k + 1]
  PROVE  /\ \A i, k \in DOMAIN t.jobs :
               t.jobs[i].type = "Propose" /\ t.jobs[k].type = "Propose" /\ t.jobs[i].block = t.jobs[k].block
                  => i = k
         /\ Verifying(t) \subseteq Verifying(s)
         /\ s.jobs[1].type = "Propose" =>
               /\ s.jobs[1].block \in Verifying(s) \ Verifying(t)
               /\ \A c \in Verifying(t) : c \in s.blocks => s.jobs[1].block < c
         /\ \A c \in t.blocks : c > t.lastVote + 1 =>
               Ahead(t, c) \/ (s.jobs[1].type = "Propose" /\ s.jobs[1].block = c)
  <1> DEFINE n == Len(s.jobs)
  <1>1. /\ \A k \in 1 .. n - 1 : t.jobs[k] = s.jobs[k + 1] /\ k + 1 \in DOMAIN s.jobs /\ k + 1 # 1
        /\ \A k \in DOMAIN s.jobs : k # 1 => k - 1 \in DOMAIN t.jobs /\ t.jobs[k - 1] = s.jobs[k]
        /\ 1 \in DOMAIN s.jobs
    <2>1. \A k \in 1 .. n - 1 : ~(k < 1) /\ k + 1 \in DOMAIN s.jobs /\ k + 1 # 1
      OBVIOUS
    <2>2. \A k \in DOMAIN s.jobs : k # 1 => k - 1 \in 1 .. n - 1 /\ (k - 1) + 1 = k
      OBVIOUS
    <2> QED BY <2>1, <2>2
  <1>2. ASSUME NEW i \in DOMAIN t.jobs, NEW k \in DOMAIN t.jobs,
               t.jobs[i].type = "Propose", t.jobs[k].type = "Propose", t.jobs[i].block = t.jobs[k].block
        PROVE  i = k
    <2>1. /\ i + 1 \in DOMAIN s.jobs /\ k + 1 \in DOMAIN s.jobs
          /\ t.jobs[i] = s.jobs[i + 1] /\ t.jobs[k] = s.jobs[k + 1]
      BY <1>1
    <2>2. \A x, y \in DOMAIN s.jobs :
             s.jobs[x].type = "Propose" /\ s.jobs[y].type = "Propose" /\ s.jobs[x].block = s.jobs[y].block
                => x = y
      BY DEF InTurn
    <2>3. i + 1 = k + 1
      BY <1>2, <2>1, <2>2, Zenon
    <2>4. i \in Nat /\ k \in Nat
      OBVIOUS
    <2> QED BY <2>3, <2>4
  <1>3. \A k \in DOMAIN t.jobs : t.jobs[k].type = "Propose" =>
           t.jobs[k].block \in Verifying(s) /\ \E m \in DOMAIN s.jobs : m # 1 /\ s.jobs[m] = t.jobs[k]
    <2>1. ASSUME NEW k \in DOMAIN t.jobs, t.jobs[k].type = "Propose"
          PROVE  t.jobs[k].block \in Verifying(s) /\ \E m \in DOMAIN s.jobs : m # 1 /\ s.jobs[m] = t.jobs[k]
      <3> DEFINE m == k + 1
      <3>1. m \in DOMAIN s.jobs /\ m # 1 /\ s.jobs[m] = t.jobs[k]
        BY <1>1
      <3> HIDE DEF m
      <3>2. t.jobs[k].block \in Verifying(s)
        BY <2>1, <3>1 DEF Verifying
      <3> QED BY <3>1, <3>2
    <2> QED BY <2>1
  <1>4. Verifying(t) \subseteq Verifying(s)
    BY <1>3 DEF Verifying
  <1>5. s.jobs[1].type = "Propose" => s.jobs[1].block \in Verifying(s) \ Verifying(t)
    <2>1. s.jobs[1].type = "Propose" => s.jobs[1].block \in Verifying(s)
      BY <1>1 DEF Verifying
    <2>2. ASSUME s.jobs[1].type = "Propose", s.jobs[1].block \in Verifying(t) PROVE FALSE
      <3>1. PICK k \in DOMAIN t.jobs : t.jobs[k].type = "Propose" /\ t.jobs[k].block = s.jobs[1].block
        BY <2>2 DEF Verifying
      <3>2. PICK m \in DOMAIN s.jobs : m # 1 /\ s.jobs[m] = t.jobs[k]
        BY <1>3, <3>1
      <3> QED BY <1>1, <2>2, <3>1, <3>2 DEF InTurn
    <2> QED BY <2>1, <2>2
  <1>6. ASSUME NEW c \in t.blocks, c > t.lastVote + 1
        PROVE  Ahead(t, c) \/ (s.jobs[1].type = "Propose" /\ s.jobs[1].block = c)
    <2>1. PICK i \in DOMAIN s.jobs :
             /\ s.jobs[i].type = "Propose" /\ s.jobs[i].block = c
             /\ \A k \in 1 .. i - 1 : s.jobs[k].type = "Propose" => s.jobs[k].block < c
      BY <1>6 DEF InTurn, Ahead
    <2>2. CASE i = 1
      BY <2>1, <2>2
    <2>3. CASE i # 1
      <3>1. i - 1 \in DOMAIN t.jobs /\ t.jobs[i - 1] = s.jobs[i]
        BY <1>1, <2>3
      <3>2. \A k \in 1 .. (i - 1) - 1 : k + 1 \in 1 .. i - 1 /\ k \in 1 .. n - 1
        OBVIOUS
      <3>3. \A k \in 1 .. (i - 1) - 1 : t.jobs[k] = s.jobs[k + 1]
        BY <1>1, <3>2
      <3>4. \A k \in 1 .. (i - 1) - 1 : t.jobs[k].type = "Propose" => t.jobs[k].block < c
        BY <2>1, <3>2, <3>3
      <3> QED BY <2>1, <3>1, <3>4 DEF Ahead
    <2> QED BY <2>2, <2>3
  <1>7. ASSUME s.jobs[1].type = "Propose", NEW c \in Verifying(t), c \in s.blocks
        PROVE  s.jobs[1].block < c
    <2>1. c > s.lastVote + 1
      BY <1>4, <1>7 DEF InTurn
    <2>2. PICK i \in DOMAIN s.jobs :
             /\ s.jobs[i].type = "Propose" /\ s.jobs[i].block = c
             /\ \A k \in 1 .. i - 1 : s.jobs[k].type = "Propose" => s.jobs[k].block < c
      BY <1>7, <2>1 DEF InTurn, Ahead
    <2>3. i # 1
      BY <1>5, <1>7, <2>2
    <2>4. 1 \in 1 .. i - 1
      BY <2>3
    <2> QED BY <1>7, <2>2, <2>4
  <1> QED BY <1>2, <1>4, <1>5, <1>6, <1>7

\* s is the state o without its first job.
FirstTaken(o, s) ==
    /\ s \in State /\ Len(o.jobs) \in Nat \ {0}
    /\ s.blocks = o.blocks /\ s.lastVote = o.lastVote /\ s.bLock = o.bLock /\ s.bExec = o.bExec
    /\ s.pendingProposals = o.pendingProposals /\ s.committed = o.committed
    /\ DOMAIN o.jobs = 1 .. Len(o.jobs) /\ DOMAIN s.jobs = 1 .. Len(o.jobs) - 1
    /\ \A k \in 1 .. Len(o.jobs) - 1 : s.jobs[k] = IF k < 1 THEN o.jobs[k] ELSE o.jobs[k + 1]

LEMMA TurnFirst ==
  ASSUME NEW o \in State, NEW P, NEW s, InTurn(o, P), FirstTaken(o, s)
  PROVE  /\ \A i, k \in DOMAIN s.jobs :
               s.jobs[i].type = "Propose" /\ s.jobs[k].type = "Propose" /\ s.jobs[i].block = s.jobs[k].block
                  => i = k
         /\ Verifying(s) \subseteq Verifying(o)
         /\ o.jobs[1].type = "Propose" =>
               /\ o.jobs[1].block \in Verifying(o) \ Verifying(s)
               /\ \A c \in Verifying(s) : c \in o.blocks => o.jobs[1].block < c
         /\ \A c \in s.blocks : c > s.lastVote + 1 =>
               Ahead(s, c) \/ (o.jobs[1].type = "Propose" /\ o.jobs[1].block = c)
  <1>1. 1 \in 1 .. Len(o.jobs) /\ s \in State /\ Len(o.jobs) \in Nat
    BY DEF FirstTaken
  <1>2. /\ s.blocks = o.blocks /\ s.lastVote = o.lastVote
        /\ s.pendingProposals = o.pendingProposals
        /\ DOMAIN o.jobs = 1 .. Len(o.jobs) /\ DOMAIN s.jobs = 1 .. Len(o.jobs) - 1
        /\ \A k \in 1 .. Len(o.jobs) - 1 : s.jobs[k] = IF k < 1 THEN o.jobs[k] ELSE o.jobs[k + 1]
    BY DEF FirstTaken
  <1> QED BY <1>1, <1>2, TurnTaken

\* The first job was a vote.
LEMMA TurnVoteJob ==
  ASSUME NEW o \in State, NEW P, NEW s, InTurn(o, P), Committing(o), FirstTaken(o, s),
         o.jobs[1].type = "Vote"
  PROVE  InTurn(s, P) /\ Committing(s)
  <1>1. o.jobs[1].type # "Propose"
    OBVIOUS
  <1>2. /\ \A i, k \in DOMAIN s.jobs :
              s.jobs[i].type = "Propose" /\ s.jobs[k].type = "Propose" /\ s.jobs[i].block = s.jobs[k].block
                 => i = k
        /\ Verifying(s) \subseteq Verifying(o)
        /\ \A c \in s.blocks : c > s.lastVote + 1 => Ahead(s, c)
    BY <1>1, TurnFirst
  <1>3. /\ s.blocks = o.blocks /\ s.lastVote = o.lastVote /\ s.bLock = o.bLock /\ s.bExec = o.bExec
        /\ s.pendingProposals = o.pendingProposals /\ s.committed = o.committed
    BY DEF FirstTaken
  <1>4. InTurn(s, P)
    BY <1>2, <1>3 DEF InTurn
  <1> QED BY <1>3, <1>4 DEF Committing

\* The first job was a proposal that cannot be accepted yet.
LEMMA TurnQueue ==
  ASSUME ChainInv, NEW o, Fits(o), NEW P, NEW s, InTurn(o, P), Committing(o), FirstTaken(o, s), Fits(s),
         NEW b \in DOMAIN chain, o.jobs[1].type = "Propose", o.jobs[1].block = b, ~safe(s, b)
  PROVE  InTurn(queueBlockPropose(s, b), P) /\ Committing(queueBlockPropose(s, b))
  <1> DEFINE t == queueBlockPropose(s, b)
  <1>0. TypeOK /\ Linear /\ o \in State /\ s \in State /\ b \in Nat
    BY LinearIs DEF ChainInv, Fits
  <1>1. /\ s.blocks = o.blocks /\ s.lastVote = o.lastVote /\ s.bLock = o.bLock /\ s.bExec = o.bExec
        /\ s.pendingProposals = o.pendingProposals /\ s.committed = o.committed
    BY DEF FirstTaken
  <1>2. /\ \A i, k \in DOMAIN s.jobs :
              s.jobs[i].type = "Propose" /\ s.jobs[k].type = "Propose" /\ s.jobs[i].block = s.jobs[k].block
                 => i = k
        /\ Verifying(s) \subseteq Verifying(o) /\ b \in Verifying(o) \ Verifying(s)
        /\ \A c \in s.blocks : c > s.lastVote + 1 => Ahead(s, c) \/ b = c
    BY <1>0, TurnFirst
  <1>3. /\ t.blocks = s.blocks /\ t.lastVote = s.lastVote /\ t.bLock = s.bLock
        /\ t.bExec = s.bExec /\ t.committed = s.committed /\ t.jobs = s.jobs
        /\ t.pendingProposals \subseteq s.pendingProposals \cup {b}
    BY <1>0, QueueIs
  <1>4. Verifying(t) = Verifying(s)
    BY <1>3 DEF Verifying
  <1>5. b > o.lastVote + 1 /\ o.lastVote \in Nat
    BY <1>0, <1>2 DEF InTurn, State
  <1>6. b \notin s.blocks
    <2>1. SUFFICES ASSUME b \in s.blocks PROVE FALSE
      OBVIOUS
    <2>2. b - 1 \in s.blocks
      <3>1. b - 1 \in 1 .. b
        BY <1>0, <1>5
      <3> QED BY <1>1, <2>1, <3>1 DEF InTurn
    <2>3. s.bLock \in s.blocks /\ (s.bLock = 1 \/ s.bLock <= s.lastVote - 1) /\ s.bLock \in Nat
      BY <1>0, <1>1 DEF Committing, genesis, State
    <2>4. s.bLock < b /\ (s.bLock < b - 1 \/ (b = 2 /\ s.bLock = 1))
      BY <1>0, <1>1, <1>5, <2>3
    <2>5. s.blocks \subseteq DOMAIN chain
      BY DEF Fits
    <2> QED BY <1>0, <2>2, <2>3, <2>4, <2>5, SafeIs
  <1> HIDE DEF t
  <1>7. \A c \in t.blocks : c > t.lastVote + 1 => Ahead(t, c)
    BY <1>2, <1>3, <1>6 DEF Ahead
  <1>8. Verifying(t) \cap (t.pendingProposals \cup P) = {} /\ t.pendingProposals \cap P = {}
    BY <1>1, <1>2, <1>3, <1>4 DEF InTurn
  <1>9. \A c \in Verifying(t) : c > t.lastVote + 1
    BY <1>1, <1>2, <1>3, <1>4 DEF InTurn
  <1>10. InTurn(t, P)
    BY <1>1, <1>2, <1>3, <1>7, <1>8, <1>9 DEF InTurn
  <1>11. Committing(t)
    BY <1>1, <1>3 DEF Committing
  <1> QED BY <1>10, <1>11 DEF t

\* The first job was a proposal that is accepted.
LEMMA TurnAccept ==
  ASSUME ChainInv, NEW o, Fits(o), NEW P, NEW s, InTurn(o, P), Committing(o), FirstTaken(o, s), Fits(s),
         NEW b \in DOMAIN chain, o.jobs[1].type = "Propose", o.jobs[1].block = b, safe(s, b)
  PROVE  InTurn(Accepted(s, b), P) /\ Committing(Accepted(s, b))
  <1> DEFINE t == Accepted(s, b)
             a == [s EXCEPT !.blocks = s.blocks \cup {b}, !.lastVote = b - 1]
  <1>0. TypeOK /\ Linear /\ o \in State /\ s \in State /\ b \in Nat \ {0}
    BY LinearIs DEF ChainInv, Fits
  <1>1. /\ s.blocks = o.blocks /\ s.lastVote = o.lastVote /\ s.bLock = o.bLock /\ s.bExec = o.bExec
        /\ s.pendingProposals = o.pendingProposals /\ s.committed = o.committed
    BY DEF FirstTaken
  <1>2. /\ \A i, k \in DOMAIN s.jobs :
              s.jobs[i].type = "Propose" /\ s.jobs[k].type = "Propose" /\ s.jobs[i].block = s.jobs[k].block
                 => i = k
        /\ Verifying(s) \subseteq Verifying(o) /\ b \in Verifying(o) \ Verifying(s)
        /\ \A c \in Verifying(s) : c \in o.blocks => b < c
        /\ \A c \in s.blocks : c > s.lastVote + 1 => Ahead(s, c) \/ b = c
    BY <1>0, TurnFirst
  <1>3. b > s.lastVote + 1 /\ s.lastVote \in Nat
    BY <1>0, <1>1, <1>2 DEF InTurn, State
  <1>4. s.bLock \in s.blocks /\ (s.bLock = 1 \/ s.bLock <= s.lastVote - 1) /\ s.bLock \in Nat
    BY <1>0, <1>1 DEF Committing, genesis, State
  <1>5. b - 1 \in s.blocks
    <2>1. s.bLock < b
      BY <1>0, <1>3, <1>4
    <2>2. s.blocks \subseteq DOMAIN chain
      BY DEF Fits
    <2> QED BY <1>0, <1>4, <2>1, <2>2, SafeIs
  <1>6. 1 .. (b - 1) \subseteq s.blocks
    BY <1>1, <1>5 DEF InTurn
  <1>7. /\ a \in State /\ a.blocks = s.blocks \cup {b} /\ a.lastVote = b - 1 /\ a.jobs = s.jobs
        /\ a.pendingProposals = s.pendingProposals
    <2> DEFINE B == s.blocks \cup {b}
               h == b - 1
    <2>1. B \in SUBSET Nat /\ h \in Nat
      <3>1. s.blocks \in SUBSET Nat
        BY <1>0 DEF State
      <3> QED BY <1>0, <3>1
    <2> HIDE DEF B, h
    <2>2. [s EXCEPT !.blocks = B, !.lastVote = h] \in State
      BY <1>0, <2>1 DEF State
    <2>3. /\ [s EXCEPT !.blocks = B, !.lastVote = h].blocks = B
          /\ [s EXCEPT !.blocks = B, !.lastVote = h].lastVote = h
          /\ [s EXCEPT !.blocks = B, !.lastVote = h].jobs = s.jobs
          /\ [s EXCEPT !.blocks = B, !.lastVote = h].pendingProposals = s.pendingProposals
      BY <1>0 DEF State
    <2> QED BY <2>2, <2>3 DEF B, h
  <1> HIDE DEF a
  <1>8. Verifying(a) = Verifying(s)
    BY <1>7 DEF Verifying
  <1>9. InTurn(a, P)
    <2>1. \A c \in Verifying(a) : c > a.lastVote + 1
      <3>1. ASSUME NEW c \in Verifying(s) PROVE c > b
        <4>1. c # b /\ c \in Nat \ {0}
          <5>1. c \in DOMAIN chain
            BY <3>1 DEF Fits
          <5> QED BY <1>0, <1>2, <5>1, LinearIs
        <4>2. CASE c < b
          <5>1. c \in 1 .. (b - 1)
            BY <1>0, <4>1, <4>2
          <5>2. b < c
            BY <1>1, <1>2, <1>6, <5>1
          <5> QED BY <1>0, <4>1, <5>2
        <4> QED BY <1>0, <4>1, <4>2
      <3>2. a.lastVote + 1 = b
        BY <1>0, <1>7
      <3> QED BY <1>8, <3>1, <3>2
    <2>2. \A c \in a.blocks : 1 .. c \subseteq a.blocks
      <3>1. 1 .. b = (1 .. (b - 1)) \cup {b}
        BY <1>0
      <3>2. 1 .. b \subseteq a.blocks
        BY <1>6, <1>7, <3>1
      <3>3. \A c \in s.blocks : 1 .. c \subseteq a.blocks
        BY <1>1, <1>7 DEF InTurn
      <3> QED BY <1>7, <3>2, <3>3
    <2>3. ASSUME NEW c \in a.blocks, c > a.lastVote + 1 PROVE Ahead(a, c)
      <3>1. c > b
        BY <1>0, <1>7, <2>3
      <3>2. c \in s.blocks /\ c \in Nat /\ c # b
        <4>1. s.blocks \in SUBSET Nat
          BY <1>0 DEF State
        <4>2. c \in Nat
          BY <1>0, <1>7, <4>1
        <4> QED BY <1>0, <1>7, <3>1, <4>2
      <3>3. c > s.lastVote + 1
        BY <1>0, <1>3, <3>1, <3>2
      <3>4. Ahead(s, c)
        BY <1>2, <3>2, <3>3
      <3> QED BY <1>7, <3>4 DEF Ahead
    <2>4. Verifying(a) \cap (a.pendingProposals \cup P) = {} /\ a.pendingProposals \cap P = {}
      BY <1>1, <1>2, <1>7, <1>8 DEF InTurn
    <2> QED BY <1>2, <1>7, <2>1, <2>2, <2>3, <2>4 DEF InTurn
  <1>10. /\ Fits(t) /\ t.blocks = s.blocks \cup {b} /\ t.lastVote = b - 1
         /\ t.pendingProposals = {p \in s.pendingProposals : chain[p].qc # b}
         /\ t.bLock = s.bLock \/ (b - 2 \in t.blocks /\ t.bLock = b - 2)
         /\ \/ t.bExec = s.bExec /\ t.committed = s.committed
            \/ /\ b - 3 \in t.blocks /\ t.bExec = b - 3
               /\ \E q \in Seq(Nat) :
                     /\ t.committed = s.committed \o q
                     /\ s.bExec \in DOMAIN chain /\ b - 3 <= s.bExec => q = << >>
                     /\ s.bExec \in DOMAIN chain /\ b - 3 > s.bExec => q # << >> /\ Last(q) = b - 3
         /\ \E Q : /\ \A p \in Q : p \in s.pendingProposals /\ chain[p].qc = b /\ p - 1 > b - 1
                   /\ Longer(s, t, Q)
    <2>1. AcceptStep(s, t, b)
      BY AcceptedIs
    <2> HIDE DEF t
    <2> QED BY <2>1 DEF AcceptStep
  <1> HIDE DEF t
  <1>11. PICK Q : /\ \A p \in Q : p \in s.pendingProposals /\ chain[p].qc = b /\ p - 1 > b - 1
                  /\ Longer(s, t, Q)
    BY <1>10
  <1>12. InTurn(t, P)
    <2>1. t \in State /\ Longer(a, t, Q) /\ t.lastVote = a.lastVote /\ t.blocks = a.blocks
      BY <1>7, <1>10, <1>11 DEF Fits, Longer
    <2>2. t.pendingProposals \subseteq a.pendingProposals /\ Q \cap t.pendingProposals = {}
      BY <1>7, <1>10, <1>11
    <2>3. Q \cap Verifying(a) = {} /\ Q \cap P = {}
      BY <1>7, <1>9, <1>11 DEF InTurn
    <2>4. \A p \in Q : p > a.lastVote + 1
      <3>1. \A p \in Q : p \in Nat
        BY <1>0, <1>11 DEF State
      <3> QED BY <1>0, <1>7, <1>11, <3>1
    <2>5. \A c \in t.blocks : 1 .. c \subseteq t.blocks
      BY <1>9, <2>1 DEF InTurn
    <2>6. \A c \in t.blocks \ a.blocks : c > a.lastVote + 1 => Ahead(t, c)
      BY <2>1
    <2>7. P \subseteq P
      OBVIOUS
    <2> QED BY <1>7, <1>9, <2>1, <2>2, <2>3, <2>4, <2>5, <2>6, <2>7, TurnLonger
  <1>13. t.bLock \in t.blocks /\ (t.bLock = genesis \/ t.bLock <= t.lastVote - 1)
    <2>1. CASE t.bLock = s.bLock
      BY <1>0, <1>3, <1>4, <1>10, <2>1 DEF genesis
    <2>2. CASE b - 2 \in t.blocks /\ t.bLock = b - 2
      BY <1>0, <1>10, <2>2
    <2> QED BY <1>10, <2>1, <2>2
  <1>14. s.bExec \in s.blocks /\ (s.bExec = 1 \/ s.bExec <= s.lastVote - 2) /\ s.bExec \in Nat
    BY <1>0, <1>1 DEF Committing, genesis, State
  <1>15. t.bExec \in t.blocks /\ (t.bExec = genesis \/ t.bExec <= t.lastVote - 2)
    <2>1. CASE t.bExec = s.bExec
      BY <1>0, <1>3, <1>10, <1>14, <2>1 DEF genesis
    <2>2. CASE b - 3 \in t.blocks /\ t.bExec = b - 3
      BY <1>0, <1>10, <2>2
    <2> QED BY <1>10, <2>1, <2>2
  <1>16. t.bExec = IF t.committed = << >> THEN genesis ELSE Last(t.committed)
    <2>1. s.bExec = IF s.committed = << >> THEN genesis ELSE Last(s.committed)
      BY <1>1 DEF Committing
    <2>2. CASE t.bExec = s.bExec /\ t.committed = s.committed
      BY <2>1, <2>2
    <2>3. CASE ~(t.bExec = s.bExec /\ t.committed = s.committed)
      <3>1. b - 3 \in t.blocks /\ t.bExec = b - 3
        BY <1>10, <2>3
      <3>2. PICK q \in Seq(Nat) :
               /\ t.committed = s.committed \o q
               /\ s.bExec \in DOMAIN chain /\ b - 3 <= s.bExec => q = << >>
               /\ s.bExec \in DOMAIN chain /\ b - 3 > s.bExec => q # << >> /\ Last(q) = b - 3
        BY <1>10, <2>3
      <3>3. s.bExec \in DOMAIN chain /\ s.committed \in Seq(Nat)
        BY <1>0, <1>14 DEF Fits, State
      <3>4. CASE b - 3 > s.bExec
        <4>1. q # << >> /\ Last(q) = b - 3
          BY <3>2, <3>3, <3>4
        <4>2. s.committed \o q # << >> /\ Last(s.committed \o q) = Last(q)
          <5>1. /\ Len(q) \in Nat /\ Len(q) # 0 /\ Len(s.committed) \in Nat
                /\ Len(s.committed \o q) = Len(s.committed) + Len(q)
                /\ \A i \in 1 .. Len(q) : (s.committed \o q)[Len(s.committed) + i] = q[i]
            BY <3>3, <4>1, ConcatProperties, LenProperties, EmptySeq
          <5>2. Len(q) \in 1 .. Len(q) /\ Len(s.committed \o q) # 0
            BY <5>1
          <5> QED BY <5>1, <5>2, EmptySeq DEF Last
        <4> QED BY <3>1, <3>2, <4>1, <4>2
      <3>5. CASE ~(b - 3 > s.bExec)
        <4>1. b - 3 \in DOMAIN chain
          BY <1>10, <3>1 DEF Fits
        <4>2. b - 3 \in Nat \ {0}
          BY <1>0, <4>1, LinearIs
        <4>3. b - 3 = 1 /\ s.bExec = 1
          BY <1>0, <1>3, <1>14, <3>5, <4>2
        <4>4. q = << >>
          BY <3>2, <3>3, <4>3
        <4>5. t.committed = s.committed
          BY <3>2, <3>3, <4>4, ConcatEmptySeq
        <4> QED BY <2>1, <3>1, <4>3, <4>5 DEF genesis
      <3> QED BY <3>4, <3>5
    <2> QED BY <2>2, <2>3
  <1>17. Committing(t)
    BY <1>13, <1>15, <1>16 DEF Committing
  <1> QED BY <1>12, <1>17 DEF t

\* A replica takes a step without a proposal of its own.
LEMMA TurnKept ==
  ASSUME ChainInv, TurnInv, NEW r \in Replicas, NEW t, NEW R \in SUBSET proposed[r],
         InTurn(t, R), Committing(t), rep' = [rep EXCEPT ![r] = t],
         proposed' = [proposed EXCEPT ![r] = R]
  PROVE  TurnInv'
  <1>1. rep \in [Replicas -> State] /\ proposed \in [Replicas -> SUBSET Nat]
    BY DEF ChainInv, TypeOK
  <1>2. /\ rep'[r] = t /\ proposed'[r] = R
        /\ \A q \in Replicas : q # r => rep'[q] = rep[q] /\ proposed'[q] = proposed[q]
    BY <1>1
  <1>3. ASSUME NEW q \in Replicas PROVE InTurn(rep'[q], proposed'[q]) /\ Committing(rep'[q])
    BY <1>2 DEF TurnInv
  <1> QED BY <1>3 DEF TurnInv, InTurn, Ahead, Committing, Verifying

LEMMA TurnBeat ==
  ASSUME ChainInv, TurnInv, NEW r \in Replicas, NEW s, Fits(s), s.lastBeat = rep[r].lastBeat,
         InTurn(s, proposed[r]), Committing(s), beat(r, s)
  PROVE  TurnInv'
  <1>0. rep \in [Replicas -> State] /\ proposed \in [Replicas -> SUBSET Nat]
    BY DEF ChainInv, TypeOK
  <1>1. CASE ~mayBeat(r, s)
    <2>1. rep' = [rep EXCEPT ![r] = s] /\ proposed' = proposed
      BY <1>1 DEF beat
    <2>2. proposed' = [proposed EXCEPT ![r] = proposed[r]] /\ proposed[r] \in SUBSET proposed[r]
      BY <1>0, <2>1
    <2> QED BY <2>1, <2>2, TurnKept
  <1>2. CASE mayBeat(r, s)
    <2> DEFINE L == Len(chain)
               B == Len(chain) + 1
               t == rep'[r]
    <2>1. propose(r, [s EXCEPT !.lastBeat = Height(s.bLeaf)])
      BY <1>2 DEF beat
    <2>2. /\ s.bLeaf = L /\ L \in Nat \ {0} /\ t \in State /\ rep' = [rep EXCEPT ![r] = t]
          /\ t.blocks = s.blocks \cup {B} /\ t.pendingProposals = s.pendingProposals
          /\ t.lastVote = s.lastVote /\ t.bLock = s.bLock /\ t.bExec = s.bExec
          /\ t.committed = s.committed
          /\ t.jobs = IF L <= s.lastVote THEN s.jobs ELSE Append(s.jobs, [type |-> "Propose", block |-> B])
          /\ Longer(s, t, IF L > s.lastVote THEN {B} ELSE {})
          /\ proposed' = [q \in Replicas |-> IF q = r THEN proposed[q] ELSE proposed[q] \cup {B}]
      BY <1>2, <2>1, ProposeIs
    <2> HIDE DEF t
    <2>3. DOMAIN chain = 1 .. L /\ B \notin DOMAIN chain /\ B \in Nat /\ B = L + 1 /\ s \in State
      BY <2>2, ChainTypes DEF ChainInv, Fits
    <2>4. s.lastVote \in Nat /\ s.jobs \in Seq(Job)
      BY <2>3 DEF State
    <2> HIDE DEF B, L
    <2>5. \A c \in t.blocks : 1 .. c \subseteq t.blocks
      <3>1. 1 .. L \subseteq s.blocks
        BY <2>2 DEF Fits, InTurn
      <3>2. 1 .. B = (1 .. L) \cup {B}
        BY <2>2, <2>3
      <3>3. 1 .. B \subseteq t.blocks
        BY <2>2, <3>1, <3>2
      <3>4. \A c \in s.blocks : 1 .. c \subseteq t.blocks
        BY <2>2 DEF InTurn
      <3> QED BY <2>2, <3>3, <3>4
    <2>6. B > s.lastVote + 1 => Ahead(t, B)
      <3>1. SUFFICES ASSUME B > s.lastVote + 1 PROVE Ahead(t, B)
        OBVIOUS
      <3> DEFINE j == [type |-> "Propose", block |-> B]
      <3>2. t.jobs = Append(s.jobs, j)
        <4>1. ~(L <= s.lastVote)
          BY <2>2, <2>3, <2>4, <3>1
        <4> QED BY <2>2, <4>1
      <3>3. j \in Job /\ j.type = "Propose" /\ j.block = B
        BY <2>3 DEF Job
      <3> HIDE DEF j
      <3>4. /\ Len(s.jobs) \in Nat /\ DOMAIN s.jobs = 1 .. Len(s.jobs)
            /\ DOMAIN Append(s.jobs, j) = 1 .. Len(s.jobs) + 1
            /\ \A k \in 1 .. Len(s.jobs) : Append(s.jobs, j)[k] = s.jobs[k]
            /\ Append(s.jobs, j)[Len(s.jobs) + 1] = j
        BY <2>4, <3>3, AppendIdx
      <3>5. ASSUME NEW k \in 1 .. (Len(s.jobs) + 1) - 1, t.jobs[k].type = "Propose"
            PROVE  t.jobs[k].block < B
        <4>1. k \in DOMAIN s.jobs /\ t.jobs[k] = s.jobs[k]
          BY <3>2, <3>4
        <4>2. s.jobs[k].block \in Verifying(s)
          BY <3>5, <4>1 DEF Verifying
        <4>3. s.jobs[k].block \in 1 .. L
          BY <2>3, <4>2 DEF Fits
        <4> QED BY <2>2, <2>3, <4>1, <4>3
      <3>6. Len(s.jobs) + 1 \in DOMAIN t.jobs
        BY <3>2, <3>4
      <3> QED BY <3>2, <3>3, <3>4, <3>5, <3>6 DEF Ahead
    <2>7. InTurn(t, proposed[r])
      <3> DEFINE Q == IF L > s.lastVote THEN {B} ELSE {}
      <3>1. \A b \in Q : b = B /\ b > s.lastVote + 1
        BY <2>2, <2>3, <2>4
      <3>2. Longer(s, t, Q)
        BY <2>2
      <3> HIDE DEF Q
      <3>3. B \notin Verifying(s) /\ B \notin s.pendingProposals /\ B \notin proposed[r]
        BY <2>3, KnownFits DEF Fits
      <3>4. Q \cap Verifying(s) = {} /\ Q \cap t.pendingProposals = {} /\ Q \cap proposed[r] = {}
        BY <2>2, <3>1, <3>3
      <3>5. \A b \in t.blocks \ s.blocks : b > s.lastVote + 1 => Ahead(t, b)
        BY <2>2, <2>6
      <3>6. t.lastVote = s.lastVote /\ t.pendingProposals \subseteq s.pendingProposals
            /\ proposed[r] \subseteq proposed[r] /\ t \in State
        BY <2>2
      <3> QED BY <2>3, <2>5, <3>1, <3>2, <3>4, <3>5, <3>6, TurnLonger
    <2>8. Committing(t)
      BY <2>2 DEF Committing
    <2>9. ASSUME NEW q \in Replicas PROVE InTurn(rep'[q], proposed'[q]) /\ Committing(rep'[q])
      <3>1. CASE q = r
        <4>1. rep'[q] = t /\ proposed'[q] = proposed[r]
          BY <1>0, <2>2, <3>1
        <4> QED BY <2>7, <2>8, <4>1
      <3>2. CASE q # r
        <4>1. rep'[q] = rep[q] /\ proposed'[q] = proposed[q] \cup {B}
          BY <1>0, <2>2, <3>2
        <4>2. InTurn(rep[q], proposed[q]) /\ Committing(rep[q])
          BY DEF TurnInv
        <4>3. {B} \cap (Verifying(rep[q]) \cup rep[q].pendingProposals) = {}
          BY <2>3, KnownFits DEF Fits
        <4>4. InTurn(rep[q], proposed[q] \cup {B})
          BY <4>2, <4>3, TurnArriving
        <4> QED BY <4>1, <4>2, <4>4
      <3> QED BY <3>1, <3>2
    <2> QED BY <2>9 DEF TurnInv, InTurn, Ahead, Committing, Verifying
  <1> QED BY <1>1, <1>2

LEMMA TurnInit ==
  ASSUME Init
  PROVE  TurnInv
  <1> DEFINE leader == getLeader(1)
             job == [type |-> "Propose", block |-> 2]
             own == [Start EXCEPT !.blocks = @ \cup {2}, !.jobs = <<job>>]
  <1>1. /\ rep = [r \in Replicas |-> IF r = leader THEN own ELSE Start]
        /\ proposed = [r \in Replicas |-> IF r = leader THEN {} ELSE {2}]
    BY DEF Init
  <1>2. /\ Start.jobs = << >> /\ Start.blocks = {1} /\ Start.pendingProposals = {} /\ Start.lastVote = 0
        /\ Start.bLock = 1 /\ Start.bExec = 1 /\ Start.committed = << >>
    BY DEF Start, genesis
  <1>3. /\ own.jobs = <<job>> /\ own.blocks = {1, 2} /\ own.pendingProposals = {} /\ own.lastVote = 0
        /\ own.bLock = 1 /\ own.bExec = 1 /\ own.committed = << >>
    BY DEF Start, genesis
  <1>4. 1 .. 1 = {1} /\ 1 .. 2 = {1, 2}
    OBVIOUS
  <1>5. InTurn(Start, {2}) /\ Committing(Start)
    <2>1. Verifying(Start) = {}
      BY <1>2 DEF Verifying
    <2> QED BY <1>2, <1>4, <2>1 DEF InTurn, Committing, genesis
  <1>6. InTurn(own, {}) /\ Committing(own)
    <2>1. DOMAIN <<job>> = {1} /\ <<job>>[1] = job /\ job.type = "Propose" /\ job.block = 2
      OBVIOUS
    <2> HIDE DEF own, job
    <2>2. Verifying(own) = {2}
      BY <1>3, <2>1 DEF Verifying
    <2>3. Ahead(own, 2)
      BY <1>3, <2>1 DEF Ahead
    <2>4. \A b \in own.blocks : b > own.lastVote + 1 => b = 2
      BY <1>3
    <2> QED BY <1>3, <1>4, <2>1, <2>2, <2>3, <2>4 DEF InTurn, Committing, genesis
  <1> HIDE DEF own, leader
  <1> QED BY <1>1, <1>5, <1>6 DEF TurnInv

LEMMA TurnStep ==
  ASSUME Workers = 1, ChainInv, TurnInv, [Next]_vars
  PROVE  TurnInv'
  <1>0. /\ rep \in [Replicas -> State] /\ proposed \in [Replicas -> SUBSET Nat]
        /\ votes \subseteq Votes /\ TypeOK /\ Linear
    BY DEF ChainInv, TypeOK
  <1>a. \A r \in Replicas : /\ proposed[r] \in SUBSET proposed[r]
                            /\ proposed = [proposed EXCEPT ![r] = proposed[r]]
    BY <1>0
  <1>1. ASSUME NEW r \in Replicas, NEW c \in Commands, Request(r, c) PROVE TurnInv'
    <2> DEFINE s == [rep[r] EXCEPT !.cmdQueue = Append(rep[r].cmdQueue, c)]
    <2>1. Fits(rep[r]) /\ rep[r] \in State
      BY KnownFits DEF Fits
    <2>2. Append(rep[r].cmdQueue, c) \in Seq(Commands)
      <3>1. rep[r].cmdQueue \in Seq(Commands)
        BY <2>1 DEF State
      <3> QED BY <3>1, AppendProperties
    <2>3. beat(r, s)
      BY <1>1 DEF Request
    <2>4. /\ s \in State /\ s.bLeaf = rep[r].bLeaf /\ s.highQC = rep[r].highQC
          /\ s.pendingVotes = rep[r].pendingVotes /\ s.lastBeat = rep[r].lastBeat
          /\ s.blocks = rep[r].blocks /\ s.jobs = rep[r].jobs
          /\ s.pendingProposals = rep[r].pendingProposals /\ Alike(rep[r], s)
      BY <2>1, <2>2 DEF State, Alike
    <2> HIDE DEF s
    <2>5. Fits(s)
      BY <2>1, <2>4 DEF Fits, Verifying
    <2>6. InTurn(s, proposed[r]) /\ Committing(s)
      <3>1. InTurn(rep[r], proposed[r]) /\ Committing(rep[r])
        BY DEF TurnInv
      <3> QED BY <2>4, <3>1, TurnAlike
    <2> QED BY <2>3, <2>4, <2>5, <2>6, TurnBeat
  <1>2. ASSUME NEW r \in Replicas, NEW b \in proposed[r], StepPropose(r, b) PROVE TurnInv'
    <2> DEFINE h == Height(b)
               t == onPropose(rep[r], b, h)
               R == proposed[r] \ {b}
    <2>1. Fits(rep[r]) /\ rep[r] \in State /\ IsFiniteSet(rep[r].pendingVotes) /\ b \in DOMAIN chain
      BY KnownFits DEF Fits
    <2>2. b \in Nat /\ h \in Nat /\ h = b - 1 /\ rep[r].lastVote \in Nat
      BY <1>0, <2>1, LinearIs DEF State
    <2>3. rep' = [rep EXCEPT ![r] = t] /\ proposed' = [proposed EXCEPT ![r] = R]
      BY <1>2 DEF StepPropose
    <2>4. InTurn(rep[r], proposed[r]) /\ Committing(rep[r])
      BY DEF TurnInv
    <2> HIDE DEF h
    <2> DEFINE Q == IF h > rep[r].lastVote THEN {b} ELSE {}
    <2>5. /\ ProposalStep(rep[r], t) /\ t.pendingProposals = rep[r].pendingProposals
          /\ Longer(rep[r], t, Q)
      BY <2>1, <2>2, OnProposeIs
    <2> HIDE DEF t
    <2>6. /\ t \in State /\ t.blocks = rep[r].blocks /\ t.lastVote = rep[r].lastVote
          /\ t.bLock = rep[r].bLock /\ t.bExec = rep[r].bExec /\ t.committed = rep[r].committed
      BY <2>5 DEF ProposalStep
    <2>7. \A x \in Q : x = b /\ x > rep[r].lastVote + 1
      BY <2>2
    <2> HIDE DEF Q
    <2>8. Q \cap Verifying(rep[r]) = {} /\ Q \cap t.pendingProposals = {} /\ Q \cap R = {}
      BY <2>4, <2>5, <2>7 DEF InTurn
    <2>9. R \subseteq proposed[r] /\ t.pendingProposals \subseteq rep[r].pendingProposals
      BY <2>5
    <2>10. /\ \A x \in t.blocks : 1 .. x \subseteq t.blocks
           /\ \A x \in t.blocks \ rep[r].blocks : x > rep[r].lastVote + 1 => Ahead(t, x)
      BY <2>4, <2>6 DEF InTurn
    <2> HIDE DEF R
    <2>11. InTurn(t, R)
      <3> DEFINE o == rep[r]
                 P == proposed[r]
      <3>1. /\ o \in State /\ InTurn(o, P) /\ Longer(o, t, Q) /\ t.lastVote = o.lastVote
            /\ t.pendingProposals \subseteq o.pendingProposals /\ R \subseteq P
            /\ \A x \in t.blocks \ o.blocks : x > o.lastVote + 1 => Ahead(t, x)
            /\ Q \cap Verifying(o) = {} /\ \A x \in Q : x > o.lastVote + 1
        BY <2>1, <2>4, <2>5, <2>6, <2>7, <2>8, <2>9, <2>10
      <3> HIDE DEF o, P
      <3> QED BY <2>6, <2>8, <2>10, <3>1, TurnLonger
    <2>12. Committing(t)
      BY <2>4, <2>6 DEF Committing
    <2> QED BY <2>3, <2>9, <2>11, <2>12, TurnKept
  <1>3. ASSUME NEW r \in Replicas, NEW v \in votes, StepVote(r, v) PROVE TurnInv'
    <2> DEFINE t == onVote(rep[r], v)
    <2>1. Fits(rep[r]) /\ rep[r] \in State /\ IsFiniteSet(rep[r].pendingVotes) /\ v \in Votes
      BY <1>0, KnownFits DEF Fits
    <2>2. VoteStep(rep[r], t)
      BY <2>1, OnVoteStep
    <2>3. rep' = [rep EXCEPT ![r] = t] /\ proposed' = [proposed EXCEPT ![r] = proposed[r]]
      BY <1>3, <1>a DEF StepVote
    <2> HIDE DEF t
    <2>4. InTurn(t, proposed[r]) /\ Committing(t)
      <3>1. InTurn(rep[r], proposed[r]) /\ Committing(rep[r])
        BY DEF TurnInv
      <3> QED BY <2>1, <2>2, <3>1, TurnVote
    <2> QED BY <1>a, <2>3, <2>4, TurnKept
  <1>4. ASSUME NEW r \in Replicas, AsyncCallback(r) PROVE TurnInv'
    <2> DEFINE o == rep[r]
               P == proposed[r]
               j == o.jobs[1]
               s == [o EXCEPT !.jobs = RemoveAt(o.jobs, 1)]
    <2>1. Fits(o) /\ o \in State /\ InTurn(o, P) /\ Committing(o)
      BY KnownFits DEF Fits, TurnInv
    <2>2. /\ 1 \in 1 .. Len(o.jobs)
          /\ \/ j.type = "Propose" /\ onProposeContinue(r, s, j.block)
             \/ j.type = "Vote" /\ onVoteContinue(r, s, j.vote)
      <3>1. PICK i \in 1 .. Len(o.jobs) :
               LET ji == o.jobs[i]
                   si == [o EXCEPT !.jobs = RemoveAt(o.jobs, i)]
               IN  /\ i <= Workers
                   /\ \/ ji.type = "Propose" /\ onProposeContinue(r, si, ji.block)
                      \/ ji.type = "Vote" /\ onVoteContinue(r, si, ji.vote)
        BY <1>4 DEF AsyncCallback
      <3>2. Len(o.jobs) \in Nat
        BY <2>1, JobsType
      <3>3. i = 1
        BY <3>1, <3>2
      <3> QED BY <3>1, <3>3
    <2> HIDE DEF o, P
    <2>3. /\ s \in State /\ s.blocks = o.blocks /\ s.lastVote = o.lastVote /\ s.bLock = o.bLock
          /\ s.bExec = o.bExec /\ s.bLeaf = o.bLeaf /\ s.highQC = o.highQC
          /\ s.pendingProposals = o.pendingProposals /\ s.pendingVotes = o.pendingVotes
          /\ s.lastBeat = o.lastBeat /\ s.committed = o.committed
          /\ Len(o.jobs) \in Nat /\ Len(s.jobs) = Len(o.jobs) - 1
          /\ DOMAIN o.jobs = 1 .. Len(o.jobs) /\ DOMAIN s.jobs = 1 .. Len(o.jobs) - 1
          /\ \A k \in 1 .. Len(o.jobs) - 1 : s.jobs[k] = IF k < 1 THEN o.jobs[k] ELSE o.jobs[k + 1]
          /\ j \in Job /\ Verifying(s) \subseteq Verifying(o)
      BY <2>1, <2>2, JobTaken
    <2>4. j.type = "Propose" => j.block \in Verifying(o)
      BY <2>2, <2>3 DEF Verifying
    <2> HIDE DEF s
    <2>5. FirstTaken(o, s)
      <3>1. Len(o.jobs) # 0
        BY <2>2, <2>3
      <3> QED BY <2>3, <3>1 DEF FirstTaken
    <2>6. Fits(s)
      BY <2>1, <2>3 DEF Fits
    <2>7. P \in SUBSET proposed[r] /\ proposed = [proposed EXCEPT ![r] = P] /\ s.lastBeat = rep[r].lastBeat
          /\ P = proposed[r]
      BY <1>a, <2>3 DEF P, o
    <2>8. CASE j.type = "Propose" /\ onProposeContinue(r, s, j.block)
      <3> DEFINE b == j.block
      <3>1. b \in DOMAIN chain /\ onProposeContinue(r, s, b) /\ j.type = "Propose"
        BY <2>1, <2>4, <2>8 DEF Fits
      <3>a. o.jobs[1].type = "Propose" /\ o.jobs[1].block = b
        BY <2>8
      <3> HIDE DEF b
      <3>2. /\ proposed' = proposed
            /\ \/ ~safe(s, b) /\ rep' = [rep EXCEPT ![r] = queueBlockPropose(s, b)]
               \/ safe(s, b) /\ \E t : rep' = [rep EXCEPT ![r] = t] /\ VoteStep(Accepted(s, b), t)
        BY <2>6, <3>1, ContinueIs
      <3>3. CASE ~safe(s, b) /\ rep' = [rep EXCEPT ![r] = queueBlockPropose(s, b)]
        <4> DEFINE t == queueBlockPropose(s, b)
        <4>1. InTurn(t, P) /\ Committing(t)
          BY <2>1, <2>5, <2>6, <3>1, <3>a, <3>3, TurnQueue
        <4>2. rep' = [rep EXCEPT ![r] = t]
          BY <3>3
        <4> HIDE DEF t
        <4> QED BY <2>7, <3>2, <4>1, <4>2, TurnKept
      <3>4. CASE safe(s, b) /\ \E t : rep' = [rep EXCEPT ![r] = t] /\ VoteStep(Accepted(s, b), t)
        <4>1. PICK t : rep' = [rep EXCEPT ![r] = t] /\ VoteStep(Accepted(s, b), t)
          BY <3>4
        <4>2. InTurn(Accepted(s, b), P) /\ Committing(Accepted(s, b))
          BY <2>1, <2>5, <2>6, <3>1, <3>a, <3>4, TurnAccept
        <4>3. Accepted(s, b) \in State
          BY <2>6, <3>1, AcceptedIs DEF AcceptStep, Fits
        <4>4. InTurn(t, P) /\ Committing(t)
          BY <4>1, <4>2, <4>3, TurnVote
        <4> QED BY <2>7, <3>2, <4>1, <4>4, TurnKept
      <3> QED BY <3>2, <3>3, <3>4
    <2>9. CASE j.type = "Vote" /\ onVoteContinue(r, s, j.vote)
      <3> DEFINE v == j.vote
      <3>1. v \in Votes /\ onVoteContinue(r, s, v)
        <4>1. j.type = "Vote" => j.vote \in Votes
          <5> HIDE DEF j
          <5> QED BY <2>3 DEF Job
        <4> QED BY <2>9, <4>1
      <3>a. InTurn(s, P) /\ Committing(s)
        BY <2>1, <2>5, <2>9, TurnVoteJob
      <3> HIDE DEF v
      <3>2. v.block \in Nat
        BY <3>1 DEF Votes
      <3>3. PICK V \in SUBSET Votes :
               \/ rep' = [rep EXCEPT ![r] = [s EXCEPT !.verifiedVotes = V]] /\ UNCHANGED <<chain, proposed>>
               \/ beat(r, Counted(s, V, v.block))
        BY <2>6, <3>1, VoteContinueIs
      <3> DEFINE t == [s EXCEPT !.verifiedVotes = V]
                 u == Counted(s, V, v.block)
                 x == v.block
      <3>4. VoteStep(s, t) /\ Fits(u) /\ Alike(s, u) /\ u.lastBeat = s.lastBeat
        <4>1. x \in Nat
          BY <3>2
        <4> HIDE DEF x
        <4>2. /\ VoteStep(s, [s EXCEPT !.verifiedVotes = V])
              /\ Fits(Counted(s, V, x)) /\ Alike(s, Counted(s, V, x))
              /\ Counted(s, V, x).lastBeat = s.lastBeat
          BY <2>6, <4>1, CountedIs DEF Alike
        <4> QED BY <4>2 DEF x
      <3>5. \/ rep' = [rep EXCEPT ![r] = t] /\ proposed' = proposed
            \/ beat(r, u)
        BY <3>3
      <3> HIDE DEF t, u
      <3>6. CASE rep' = [rep EXCEPT ![r] = t] /\ proposed' = proposed
        <4>1. InTurn(t, P) /\ Committing(t)
          BY <2>3, <3>a, <3>4, TurnVote
        <4> QED BY <2>7, <3>6, <4>1, TurnKept
      <3>7. CASE beat(r, u)
        <4>1. InTurn(u, P) /\ Committing(u)
          BY <3>a, <3>4, TurnAlike
        <4> QED BY <2>7, <3>4, <3>7, <4>1, TurnBeat
      <3> QED BY <3>5, <3>6, <3>7
    <2> QED BY <2>2, <2>8, <2>9
  <1>5. CASE UNCHANGED vars
    <2>1. rep' = rep /\ proposed' = proposed
      BY <1>5 DEF vars
    <2> QED BY <2>1 DEF TurnInv, InTurn, Ahead, Committing, Verifying
  <1> QED BY <1>1, <1>2, <1>3, <1>4, <1>5 DEF Next, Step

\* With one verifying worker, bExec is the block that commit handed out last, at every
\* replica: the callbacks of the verifications then run in the order of the proposals, and
\* no block is accepted before the one that it extends.  (A run with two workers shows that
\* the assumption is needed.)
THEOREM CommitsInOrder == Workers = 1 => (Spec => []LastCommitted)
  <1>1. SUFFICES ASSUME Workers = 1 PROVE Spec => []LastCommitted
    OBVIOUS
  <1>2. Init => ChainInv /\ TurnInv
    BY ChainInit, TurnInit
  <1>3. ChainInv /\ TurnInv /\ [Next]_vars => ChainInv' /\ TurnInv'
    BY <1>1, ChainStep, TurnStep
  <1>4. TurnInv => LastCommitted
    BY DEF TurnInv, Committing, LastCommitted
  <1> QED BY <1>2, <1>3, <1>4, PTL DEF Spec

-----------------------------------------------------------------------------
(* The chains of DuoBFT: DuoInv is an invariant *)

LEMMA DuoSets ==
  \A S : (Duo!IsFiniteSet(S) <=> IsFiniteSet(S)) /\ Duo!Cardinality(S) = Cardinality(S)
  BY DEF Duo!IsFiniteSet, IsFiniteSet, Duo!Cardinality, Cardinality

LEMMA DuoTypes ==
  ASSUME Duo!TypeOK
  PROVE  /\ Len(blockchain) \in Nat /\ DOMAIN blockchain = 1 .. Len(blockchain)
         /\ DOMAIN verifiedVotes = DOMAIN blockchain
         /\ \A b \in DOMAIN blockchain :
               /\ blockchain[b] \in Duo!BlockRecord
               /\ blockchain[b].fast \in Nat /\ blockchain[b].slow \in Nat
               /\ verifiedVotes[b] \subseteq Nodes /\ IsFiniteSet(verifiedVotes[b])
               /\ Cardinality(verifiedVotes[b]) \in Nat
         /\ pacemaker.fast \in Nat /\ pacemaker.slow \in Nat
         /\ DOMAIN node = Nodes
  <1>1. /\ blockchain \in Seq(Duo!BlockRecord) /\ verifiedVotes \in Seq(SUBSET Nodes)
        /\ Len(verifiedVotes) = Len(blockchain) /\ node = [r \in Nodes |-> node[r]]
        /\ \A b \in DOMAIN verifiedVotes : IsFiniteSet(verifiedVotes[b])
    BY DuoSets DEF Duo!TypeOK
  <1>2. /\ Len(blockchain) \in Nat /\ DOMAIN blockchain = 1 .. Len(blockchain)
        /\ DOMAIN verifiedVotes = 1 .. Len(verifiedVotes)
        /\ \A b \in 1 .. Len(blockchain) : blockchain[b] \in Duo!BlockRecord
        /\ \A b \in 1 .. Len(verifiedVotes) : verifiedVotes[b] \in SUBSET Nodes
    BY <1>1, LenProperties, ElementOfSeq
  <1>3. \A b \in DOMAIN blockchain : blockchain[b].fast \in Nat /\ blockchain[b].slow \in Nat
    BY <1>2 DEF Duo!BlockRecord
  <1>4. pacemaker.fast \in Nat /\ pacemaker.slow \in Nat
    BY DEF Duo!TypeOK, Duo!Pacemaker
  <1>5. \A b \in DOMAIN verifiedVotes : Cardinality(verifiedVotes[b]) \in Nat
    BY <1>1, FS_CardinalityType
  <1>6. DOMAIN node = Nodes
    BY <1>1
  <1> QED BY <1>1, <1>2, <1>3, <1>4, <1>5, <1>6

LEMMA DuoInit ==
  ASSUME Duo!Init
  PROVE  Duo!DuoInv
  <1>1. /\ cmdQueue = << >> /\ blockchain = << >> /\ scheduled = << >> /\ verifiedVotes = << >>
        /\ pacemaker = [fast |-> 0, slow |-> 0, fastHighQCChanged |-> TRUE, slowHighQCChanged |-> TRUE,
                        lastFastHeightWithCommand |-> 0, lastFastHeight |-> 0]
        /\ node = [r \in Nodes |-> Duo!newNode]
    BY DEF Duo!Init
  <1>2. pacemaker \in Duo!Pacemaker
    BY <1>1 DEF Duo!Pacemaker
  <1>3. Duo!NodeOK(Duo!newNode)
    BY DEF Duo!NodeOK, Duo!newNode
  <1>4. node = [r \in Nodes |-> node[r]] /\ \A r \in Nodes : Duo!NodeOK(node[r])
    BY <1>1, <1>3
  <1>5. Duo!TypeOK
    BY <1>1, <1>2, <1>4 DEF Duo!TypeOK
  <1> QED BY <1>1, <1>5 DEF Duo!DuoInv, Duo!Extendable, Duo!OneEach, Duo!VotedOnce

LEMMA DuoPropose ==
  ASSUME Duo!DuoInv, NEW q \in Seq(Cmds), NEW s \in Seq(Nat),
         \A i \in DOMAIN s : s[i] <= Len(blockchain), Duo!propose(q, s), node' = node
  PROVE  Duo!DuoInv'
  <1> DEFINE p == pacemaker
             fastHeight == p.fast + 1
             slowHeight == p.slow + 1
             cmd == IF p.fastHighQCChanged /\ q # << >> THEN Head(q) ELSE NoCmd
             withCommand == IF cmd # NoCmd THEN fastHeight ELSE p.lastFastHeightWithCommand
             fast == p.fastHighQCChanged /\ Duo!due(withCommand)
             self == fast /\ fastHeight = slowHeight
             slow == p.slowHighQCChanged /\ (self \/ Duo!fastAt(slowHeight) # {})
             sent == fast \/ slow
             blk == [fast |-> IF fast THEN fastHeight ELSE 0, slow |-> IF slow THEN slowHeight ELSE 0,
                     cmd |-> cmd, self |-> self /\ slow]
             n == Len(blockchain)
  <1>1. /\ cmdQueue' = IF cmd # NoCmd THEN Tail(q) ELSE q
        /\ blockchain' = IF sent THEN Append(blockchain, blk) ELSE blockchain
        /\ verifiedVotes' = IF sent THEN Append(verifiedVotes, {}) ELSE verifiedVotes
        /\ scheduled' = IF sent THEN Append(s, n + 1) ELSE s
        /\ pacemaker' = [Duo!extended(p, fast, slow) EXCEPT
                           !.lastFastHeightWithCommand = withCommand,
                           !.lastFastHeight = IF fast THEN fastHeight ELSE @]
    BY DEF Duo!propose
  <1>2. /\ Duo!TypeOK /\ Duo!Extendable /\ Duo!OneEach /\ Duo!VotedOnce /\ p \in Duo!Pacemaker
        /\ p.fast \in Nat /\ p.slow \in Nat /\ p.lastFastHeightWithCommand \in Nat
        /\ blockchain \in Seq(Duo!BlockRecord) /\ verifiedVotes \in Seq(SUBSET Nodes)
    BY DEF Duo!DuoInv, Duo!TypeOK, Duo!Pacemaker
  <1>3. /\ n \in Nat /\ DOMAIN blockchain = 1 .. n /\ DOMAIN verifiedVotes = DOMAIN blockchain
        /\ Len(verifiedVotes) = n
        /\ \A b \in DOMAIN blockchain : blockchain[b].fast \in Nat /\ blockchain[b].slow \in Nat
    BY <1>2, DuoTypes DEF Duo!TypeOK
  <1>4. cmd \in Cmds \cup {NoCmd} /\ (cmd # NoCmd => q # << >>)
    BY HeadTailProperties
  <1>5. fast \in BOOLEAN /\ slow \in BOOLEAN /\ self \in BOOLEAN /\ sent \in BOOLEAN
    OBVIOUS
  <1>6. (fast => p.fastHighQCChanged) /\ (slow => p.slowHighQCChanged)
    OBVIOUS
  <1>7. fastHeight = p.fast + 1 /\ slowHeight = p.slow + 1 /\ fastHeight \in Nat /\ slowHeight \in Nat
    BY <1>2
  <1>8. withCommand \in Nat
    BY <1>2, <1>7
  <1>9. sent <=> fast \/ slow
    OBVIOUS
  <1> HIDE DEF p, cmd, fast, slow, self, sent, withCommand, fastHeight, slowHeight
  <1>10. /\ blk \in Duo!BlockRecord /\ blk.fast = (IF fast THEN p.fast + 1 ELSE 0)
         /\ blk.slow = (IF slow THEN p.slow + 1 ELSE 0)
    <2>1. (self /\ slow) \in BOOLEAN
      OBVIOUS
    <2>2. (IF fast THEN fastHeight ELSE 0) \in Nat /\ (IF slow THEN slowHeight ELSE 0) \in Nat
      BY <1>7
    <2> QED BY <1>4, <1>7, <2>1, <2>2 DEF Duo!BlockRecord
  <1> HIDE DEF blk
  <1>11. /\ pacemaker' \in Duo!Pacemaker /\ pacemaker'.fast = p.fast /\ pacemaker'.slow = p.slow
         /\ pacemaker'.fastHighQCChanged = (p.fastHighQCChanged /\ ~fast)
         /\ pacemaker'.slowHighQCChanged = (p.slowHighQCChanged /\ ~slow)
    <2>1. pacemaker' = [p EXCEPT !.fastHighQCChanged = p.fastHighQCChanged /\ ~fast,
                                 !.slowHighQCChanged = p.slowHighQCChanged /\ ~slow,
                                 !.lastFastHeightWithCommand = withCommand,
                                 !.lastFastHeight = IF fast THEN fastHeight ELSE p.lastFastHeight]
      BY <1>1, <1>2 DEF Duo!extended, Duo!Pacemaker
    <2>2. (IF fast THEN fastHeight ELSE p.lastFastHeight) \in Nat
      BY <1>2, <1>7 DEF Duo!Pacemaker
    <2>3. (p.fastHighQCChanged /\ ~fast) \in BOOLEAN /\ (p.slowHighQCChanged /\ ~slow) \in BOOLEAN
      OBVIOUS
    <2> DEFINE x == IF fast THEN fastHeight ELSE p.lastFastHeight
               y == p.fastHighQCChanged /\ ~fast
               z == p.slowHighQCChanged /\ ~slow
    <2>4. pacemaker' = [p EXCEPT !.fastHighQCChanged = y, !.slowHighQCChanged = z,
                                 !.lastFastHeightWithCommand = withCommand, !.lastFastHeight = x]
      BY <2>1
    <2>5. x \in Nat /\ y \in BOOLEAN /\ z \in BOOLEAN
      BY <2>2, <2>3
    <2> HIDE DEF x, y, z
    <2>6. /\ pacemaker' \in Duo!Pacemaker /\ pacemaker'.fast = p.fast /\ pacemaker'.slow = p.slow
          /\ pacemaker'.fastHighQCChanged = y /\ pacemaker'.slowHighQCChanged = z
      BY <1>2, <1>8, <2>4, <2>5 DEF Duo!Pacemaker
    <2> QED BY <2>6 DEF y, z
  <1>12. cmdQueue' \in Seq(Cmds)
    BY <1>1, <1>4, HeadTailProperties
  <1>13. CASE ~sent
    <2>1. blockchain' = blockchain /\ verifiedVotes' = verifiedVotes /\ scheduled' = s /\ ~fast /\ ~slow
      BY <1>1, <1>9, <1>13
    <2>2. pacemaker' \in Duo!Pacemaker /\ pacemaker'.fast = p.fast /\ pacemaker'.slow = p.slow
          /\ (pacemaker'.fastHighQCChanged <=> p.fastHighQCChanged)
          /\ (pacemaker'.slowHighQCChanged <=> p.slowHighQCChanged)
      BY <1>11, <2>1
    <2>3. Duo!TypeOK'
      BY <1>2, <1>12, <2>1, <2>2 DEF Duo!TypeOK, Duo!NodeOK, Duo!Pacemaker, Duo!BlockRecord
    <2>4. Duo!Extendable' /\ Duo!OneEach' /\ Duo!VotedOnce'
      BY <1>2, <2>1, <2>2 DEF Duo!Extendable, Duo!OneEach, Duo!VotedOnce, Duo!fastQuorumSize, p
    <2> QED BY <2>3, <2>4 DEF Duo!DuoInv
  <1>14. CASE sent
    <2>1. /\ blockchain' = Append(blockchain, blk) /\ verifiedVotes' = Append(verifiedVotes, {})
          /\ scheduled' = Append(s, n + 1)
      BY <1>1, <1>14
    <2>2. /\ blockchain' \in Seq(Duo!BlockRecord) /\ Len(blockchain') = n + 1
          /\ DOMAIN blockchain' = 1 .. n + 1 /\ blockchain'[n + 1] = blk
          /\ \A b \in 1 .. n : blockchain'[b] = blockchain[b]
      BY <1>2, <1>10, <2>1, AppendIdx
    <2>3. /\ verifiedVotes' \in Seq(SUBSET Nodes) /\ Len(verifiedVotes') = n + 1
          /\ DOMAIN verifiedVotes' = 1 .. n + 1 /\ verifiedVotes'[n + 1] = {}
          /\ \A b \in 1 .. n : verifiedVotes'[b] = verifiedVotes[b]
      <3>1. {} \in SUBSET Nodes
        OBVIOUS
      <3> QED BY <1>2, <1>3, <2>1, <3>1, AppendIdx
    <2>4. scheduled' \in Seq(Nat) /\ \A i \in DOMAIN scheduled' : scheduled'[i] <= n + 1
      <3>1. n + 1 \in Nat
        BY <1>3
      <3>2. /\ Append(s, n + 1) \in Seq(Nat) /\ Len(s) \in Nat /\ DOMAIN s = 1 .. Len(s)
            /\ DOMAIN Append(s, n + 1) = 1 .. Len(s) + 1 /\ Append(s, n + 1)[Len(s) + 1] = n + 1
            /\ \A i \in 1 .. Len(s) : Append(s, n + 1)[i] = s[i]
        BY <3>1, AppendIdx
      <3>3. \A i \in 1 .. Len(s) + 1 : i \in 1 .. Len(s) \/ i = Len(s) + 1
        BY <3>2
      <3>4. \A i \in 1 .. Len(s) : s[i] \in Nat /\ s[i] <= n
        BY <3>2, ElementOfSeq
      <3> QED BY <1>3, <2>1, <3>2, <3>3, <3>4
    <2>5. \A b \in 1 .. n + 1 : b \in 1 .. n \/ b = n + 1
      BY <1>3
    <2>6. \A b \in 1 .. n : b \in 1 .. n + 1 /\ b # n + 1
      BY <1>3
    <2> HIDE DEF n
    <2>7. Duo!TypeOK'
      <3>1. ASSUME NEW r \in Nodes PROVE Duo!NodeOK(node[r])'
        BY <1>2, <1>3, <2>2, <2>6 DEF Duo!TypeOK, Duo!NodeOK
      <3>2. node' = [r \in Nodes |-> node'[r]]
        BY <1>2 DEF Duo!TypeOK
      <3>3. \A b \in DOMAIN verifiedVotes' : IsFiniteSet(verifiedVotes'[b])
        BY <1>2, <1>3, <2>3, <2>5, FS_EmptySet, DuoTypes
      <3>4. \A b \in DOMAIN verifiedVotes' : Duo!IsFiniteSet(verifiedVotes'[b])
        BY <3>3, DuoSets
      <3> QED BY <1>11, <1>12, <2>2, <2>3, <2>4, <3>1, <3>2, <3>4
              DEF Duo!TypeOK, Duo!Pacemaker, Duo!BlockRecord
    <2>8. \A b \in 1 .. n :
             /\ blockchain[b].fast <= p.fast + 1 /\ blockchain[b].slow <= p.slow + 1
             /\ p.fastHighQCChanged => blockchain[b].fast <= p.fast
             /\ p.slowHighQCChanged => blockchain[b].slow <= p.slow
      BY <1>2, <1>3 DEF Duo!Extendable, p
    <2>9. Duo!Extendable'
      <3>1. ASSUME NEW b \in 1 .. n + 1
            PROVE  /\ blockchain'[b].fast <= p.fast + 1 /\ blockchain'[b].slow <= p.slow + 1
                   /\ (p.fastHighQCChanged /\ ~fast) => blockchain'[b].fast <= p.fast
                   /\ (p.slowHighQCChanged /\ ~slow) => blockchain'[b].slow <= p.slow
        <4>1. CASE b = n + 1
          <5>1. blockchain'[b] = blk
            BY <2>2, <4>1
          <5>2. p.fast \in Nat /\ p.slow \in Nat
            BY <1>2 DEF Duo!Pacemaker
          <5>3. blk.fast <= p.fast + 1 /\ (~fast => blk.fast <= p.fast)
            BY <1>10, <5>2
          <5>4. blk.slow <= p.slow + 1 /\ (~slow => blk.slow <= p.slow)
            BY <1>10, <5>2
          <5> QED BY <5>1, <5>3, <5>4
        <4>2. CASE b \in 1 .. n
          BY <2>2, <2>8, <4>2
        <4> QED BY <2>5, <4>1, <4>2
      <3> QED BY <1>11, <2>2, <3>1 DEF Duo!Extendable
    <2>10. Duo!OneEach'
      <3>1. \A b \in 1 .. n : /\ blk.fast # 0 => blk.fast # blockchain[b].fast
                              /\ blk.slow # 0 => blk.slow # blockchain[b].slow
        BY <1>2, <1>3, <1>6, <1>10, <2>8
      <3>2. ASSUME NEW a \in 1 .. n + 1, NEW b \in 1 .. n + 1
            PROVE  /\ blockchain'[a].fast = blockchain'[b].fast /\ blockchain'[a].fast # 0 => a = b
                   /\ blockchain'[a].slow = blockchain'[b].slow /\ blockchain'[a].slow # 0 => a = b
        <4>1. CASE a \in 1 .. n /\ b \in 1 .. n
          <5>1. /\ blockchain[a].fast = blockchain[b].fast /\ blockchain[a].fast # 0 => a = b
                /\ blockchain[a].slow = blockchain[b].slow /\ blockchain[a].slow # 0 => a = b
            BY <1>2, <1>3, <4>1 DEF Duo!OneEach
          <5>2. blockchain'[a] = blockchain[a] /\ blockchain'[b] = blockchain[b]
            BY <2>2, <4>1
          <5> QED BY <5>1, <5>2
        <4>2. CASE a = n + 1 /\ b = n + 1
          BY <4>2
        <4>3. CASE a = n + 1 /\ b \in 1 .. n
          <5>1. blockchain'[a] = blk /\ blockchain'[b] = blockchain[b]
            BY <2>2, <4>3
          <5> QED BY <3>1, <4>3, <5>1
        <4>4. CASE a \in 1 .. n /\ b = n + 1
          <5>1. blockchain'[b] = blk /\ blockchain'[a] = blockchain[a]
            BY <2>2, <4>4
          <5> QED BY <3>1, <4>4, <5>1
        <4> QED BY <2>5, <4>1, <4>2, <4>3, <4>4
      <3> QED BY <2>2, <3>2 DEF Duo!OneEach
    <2>11. Duo!VotedOnce'
      <3>1. ASSUME NEW b \in 1 .. n + 1, blockchain'[b].fast # 0
            PROVE  /\ \A r \in verifiedVotes'[b] : node[r].lastVoteFast >= blockchain'[b].fast
                   /\ blockchain'[b].fast <= p.fast /\ blockchain'[b].slow > p.slow
                         => Cardinality(verifiedVotes'[b]) >= Duo!fastQuorumSize
        <4>1. CASE b = n + 1
          <5>1. blockchain'[b].fast = p.fast + 1 /\ verifiedVotes'[b] = {}
            BY <1>10, <2>2, <2>3, <3>1, <4>1
          <5> QED BY <1>2, <5>1
        <4>2. CASE b \in 1 .. n
          <5>1. blockchain'[b] = blockchain[b] /\ verifiedVotes'[b] = verifiedVotes[b]
            BY <2>2, <2>3, <4>2
          <5>2. blockchain[b].fast # 0 =>
                   /\ \A r \in verifiedVotes[b] : node[r].lastVoteFast >= blockchain[b].fast
                   /\ blockchain[b].fast <= p.fast /\ blockchain[b].slow > p.slow
                         => Cardinality(verifiedVotes[b]) >= Duo!fastQuorumSize
            BY <1>2, <1>3, <4>2, DuoSets DEF Duo!VotedOnce, p
          <5> QED BY <3>1, <5>1, <5>2
        <4> QED BY <2>5, <4>1, <4>2
      <3> QED BY <1>11, <2>2, <3>1, DuoSets DEF Duo!VotedOnce, Duo!fastQuorumSize
    <2> QED BY <2>7, <2>9, <2>10, <2>11 DEF Duo!DuoInv
  <1> QED BY <1>5, <1>13, <1>14

\* A vote of r for block b counts, where m is the state of r after it: if the block has a
\* fast state, then r has not voted for that height before.
LEMMA DuoVote ==
  ASSUME Duo!DuoInv, NEW r \in Nodes, NEW b \in DOMAIN blockchain, Duo!onVote(r, b), NEW m, Duo!NodeOK(m),
         node' = [node EXCEPT ![r] = m], m.lastVoteFast >= node[r].lastVoteFast,
         blockchain[b].fast # 0 =>
            node[r].lastVoteFast < blockchain[b].fast /\ m.lastVoteFast >= blockchain[b].fast
  PROVE  Duo!DuoInv'
  <1> DEFINE blk == blockchain[b]
             p == pacemaker
             V == verifiedVotes[b]
             W == verifiedVotes[b] \cup {r}
             tooOld == IF blk.slow = 0 THEN blk.fast <= p.fast ELSE blk.slow <= p.slow
             fastQC == ~tooOld /\ blk.fast # 0 /\ Duo!Cardinality(W) = Duo!fastQuorumSize
             slowQC == ~tooOld /\ blk.slow # 0 /\ Duo!Cardinality(W) = Duo!slowQuorumSize
             done == tooOld \/ slowQC \/ (fastQC /\ blk.slow = 0)
             U == IF done THEN {} ELSE W
  <1>1. /\ verifiedVotes' = [verifiedVotes EXCEPT ![b] = U]
        /\ pacemaker' = [p EXCEPT
              !.fast = IF fastQC THEN blk.fast ELSE p.fast,
              !.fastHighQCChanged = p.fastHighQCChanged \/ fastQC,
              !.slow = IF slowQC THEN blk.slow ELSE p.slow,
              !.slowHighQCChanged = p.slowHighQCChanged \/ slowQC]
        /\ scheduled' = IF fastQC \/ slowQC THEN Append(scheduled, 0) ELSE scheduled
        /\ asked' = asked /\ cmdQueue' = cmdQueue /\ blockchain' = blockchain
    BY DEF Duo!onVote
  <1>2. /\ Duo!TypeOK /\ Duo!Extendable /\ Duo!OneEach /\ Duo!VotedOnce /\ p \in Duo!Pacemaker
        /\ verifiedVotes \in Seq(SUBSET Nodes) /\ scheduled \in Seq(Nat)
        /\ \A i \in DOMAIN scheduled : scheduled[i] <= Len(blockchain)
        /\ node = [q \in Nodes |-> node[q]]
    BY DEF Duo!DuoInv, Duo!TypeOK
  <1>3. /\ Len(blockchain) \in Nat /\ DOMAIN blockchain = 1 .. Len(blockchain)
        /\ DOMAIN verifiedVotes = DOMAIN blockchain
        /\ \A x \in DOMAIN blockchain :
              /\ blockchain[x].fast \in Nat /\ blockchain[x].slow \in Nat
              /\ verifiedVotes[x] \subseteq Nodes /\ IsFiniteSet(verifiedVotes[x])
              /\ Cardinality(verifiedVotes[x]) \in Nat
        /\ p.fast \in Nat /\ p.slow \in Nat /\ DOMAIN node = Nodes
    BY <1>2, DuoTypes
  <1>4. /\ blk.fast \in Nat /\ blk.slow \in Nat
        /\ blk.fast <= p.fast + 1 /\ blk.slow <= p.slow + 1
        /\ p.fastHighQCChanged => blk.fast <= p.fast
        /\ p.slowHighQCChanged => blk.slow <= p.slow
    BY <1>2, <1>3 DEF Duo!Extendable
  <1>5. IsFiniteSet(W) /\ W \subseteq Nodes /\ V \subseteq W
        /\ Cardinality(W) = IF r \in V THEN Cardinality(V) ELSE Cardinality(V) + 1
    BY <1>3, FS_AddElement
  <1>6. Cardinality(V) \in Nat /\ Cardinality(W) \in Nat
    BY <1>3, <1>5, FS_CardinalityType
  <1>7. Duo!Cardinality(W) = Cardinality(W) /\ Duo!fastQuorumSize \in Nat /\ Duo!slowQuorumSize \in Nat
        /\ Duo!fastQuorumSize # 0
    BY DuoSets, ChainsAssumption DEF Duo!DuoAssumption, Duo!fastQuorumSize, Duo!slowQuorumSize
  <1>8. node[r].lastVoteFast \in Nat /\ m.lastVoteFast \in Nat
    BY <1>2 DEF Duo!TypeOK, Duo!NodeOK
  <1>9. blk.fast # 0 => /\ r \notin V /\ \A q \in V : node[q].lastVoteFast >= blk.fast
                        /\ blk.fast <= p.fast /\ blk.slow > p.slow => Cardinality(V) >= Duo!fastQuorumSize
    <2>1. blk.fast # 0 => /\ \A q \in V : node[q].lastVoteFast >= blk.fast
                          /\ blk.fast <= p.fast /\ blk.slow > p.slow
                                => Cardinality(V) >= Duo!fastQuorumSize
      BY <1>2, DuoSets DEF Duo!VotedOnce
    <2>2. ASSUME blk.fast # 0, r \in V PROVE FALSE
      BY <1>4, <1>8, <2>1, <2>2
    <2> QED BY <2>1, <2>2
  <1>11. tooOld <=> (IF blk.slow = 0 THEN blk.fast <= p.fast ELSE blk.slow <= p.slow)
    OBVIOUS
  <1>12. fastQC => ~tooOld /\ blk.fast # 0 /\ Cardinality(W) = Duo!fastQuorumSize
    BY <1>7
  <1>13. slowQC => ~tooOld /\ blk.slow # 0
    OBVIOUS
  <1>14. done <=> tooOld \/ slowQC \/ (fastQC /\ blk.slow = 0)
    OBVIOUS
  <1>a. \A x \in DOMAIN blockchain :
           /\ blockchain[x].fast = blk.fast /\ blk.fast # 0 => x = b
           /\ blockchain[x].fast <= p.fast + 1 /\ blockchain[x].slow <= p.slow + 1
           /\ p.fastHighQCChanged => blockchain[x].fast <= p.fast
           /\ p.slowHighQCChanged => blockchain[x].slow <= p.slow
    BY <1>2 DEF Duo!OneEach, Duo!Extendable
  <1>b. U = IF done THEN {} ELSE W
    OBVIOUS
  <1>c. /\ \A x \in DOMAIN blockchain : blockchain[x].fast # 0 =>
              /\ \A q \in verifiedVotes[x] : node[q].lastVoteFast >= blockchain[x].fast
              /\ blockchain[x].fast <= p.fast /\ blockchain[x].slow > p.slow
                    => Cardinality(verifiedVotes[x]) >= Duo!fastQuorumSize
    BY <1>2, DuoSets DEF Duo!VotedOnce
  <1> HIDE DEF p, tooOld, fastQC, slowQC, done, U, W
  <1>15. slowQC => blk.slow = p.slow + 1
    BY <1>3, <1>4, <1>11, <1>13
  <1>16. fastQC => blk.fast = p.fast + 1
    <2>1. SUFFICES ASSUME fastQC, blk.fast <= p.fast PROVE FALSE
      BY <1>3, <1>4
    <2>2. blk.slow # 0 /\ blk.slow > p.slow
      BY <1>3, <1>4, <1>11, <1>12, <2>1
    <2>3. Cardinality(V) >= Duo!fastQuorumSize /\ Cardinality(W) = Cardinality(V) + 1
      BY <1>5, <1>9, <1>12, <2>1, <2>2
    <2> QED BY <1>6, <1>7, <1>12, <2>1, <2>3
  <1>17. /\ pacemaker' \in Duo!Pacemaker
         /\ pacemaker'.fast = (IF fastQC THEN blk.fast ELSE p.fast)
         /\ pacemaker'.slow = (IF slowQC THEN blk.slow ELSE p.slow)
         /\ (pacemaker'.fastHighQCChanged <=> p.fastHighQCChanged \/ fastQC)
         /\ (pacemaker'.slowHighQCChanged <=> p.slowHighQCChanged \/ slowQC)
    <2> DEFINE x == IF fastQC THEN blk.fast ELSE p.fast
               y == IF slowQC THEN blk.slow ELSE p.slow
               f == p.fastHighQCChanged \/ fastQC
               g == p.slowHighQCChanged \/ slowQC
    <2>1. x \in Nat /\ y \in Nat
      BY <1>3, <1>4
    <2>2. f \in BOOLEAN /\ g \in BOOLEAN
      OBVIOUS
    <2>3. pacemaker' = [p EXCEPT !.fast = x, !.fastHighQCChanged = f, !.slow = y, !.slowHighQCChanged = g]
      BY <1>1
    <2> HIDE DEF x, y, f, g
    <2>4. /\ pacemaker' \in Duo!Pacemaker /\ pacemaker'.fast = x /\ pacemaker'.slow = y
          /\ pacemaker'.fastHighQCChanged = f /\ pacemaker'.slowHighQCChanged = g
      BY <1>2, <2>1, <2>2, <2>3 DEF Duo!Pacemaker
    <2> QED BY <2>4 DEF x, y, f, g
  <1>18. /\ node' = [q \in Nodes |-> node'[q]]
         /\ \A q \in Nodes : node'[q] = IF q = r THEN m ELSE node[q]
    BY <1>2, <1>3
  <1>19. U \subseteq Nodes /\ IsFiniteSet(U)
    BY <1>5, <1>b, FS_EmptySet
  <1>20. /\ verifiedVotes' \in Seq(SUBSET Nodes) /\ Len(verifiedVotes') = Len(blockchain)
         /\ DOMAIN verifiedVotes' = DOMAIN blockchain
         /\ \A x \in DOMAIN blockchain : verifiedVotes'[x] = IF x = b THEN U ELSE verifiedVotes[x]
    <2>1. b \in 1 .. Len(verifiedVotes) /\ U \in SUBSET Nodes /\ Len(verifiedVotes) = Len(blockchain)
      BY <1>2, <1>3, <1>19 DEF Duo!TypeOK
    <2>2. verifiedVotes' \in Seq(SUBSET Nodes) /\ Len(verifiedVotes') = Len(verifiedVotes)
      BY <1>1, <1>2, <2>1, ExceptSeq
    <2> QED BY <1>1, <1>3, <2>1, <2>2
  <1>21. Duo!TypeOK'
    <2>1. ASSUME NEW q \in Nodes PROVE Duo!NodeOK(node[q])'
      <3>1. Duo!NodeOK(node'[q])
        BY <1>2, <1>18 DEF Duo!TypeOK
      <3> QED BY <1>1, <3>1 DEF Duo!NodeOK
    <2>2. scheduled' \in Seq(Nat) /\ \A i \in DOMAIN scheduled' : scheduled'[i] <= Len(blockchain)
      <3>1. 0 \in Nat
        OBVIOUS
      <3>2. /\ Append(scheduled, 0) \in Seq(Nat) /\ Len(scheduled) \in Nat
            /\ DOMAIN scheduled = 1 .. Len(scheduled)
            /\ DOMAIN Append(scheduled, 0) = 1 .. Len(scheduled) + 1
            /\ Append(scheduled, 0)[Len(scheduled) + 1] = 0
            /\ \A i \in 1 .. Len(scheduled) : Append(scheduled, 0)[i] = scheduled[i]
        BY <1>2, <3>1, AppendIdx
      <3>3. \A i \in 1 .. Len(scheduled) + 1 : i \in 1 .. Len(scheduled) \/ i = Len(scheduled) + 1
        BY <3>2
      <3>4. \A i \in DOMAIN Append(scheduled, 0) : Append(scheduled, 0)[i] <= Len(blockchain)
        BY <1>2, <1>3, <3>2, <3>3
      <3> QED BY <1>1, <1>2, <3>2, <3>4
    <2>3. \A x \in DOMAIN verifiedVotes' : Duo!IsFiniteSet(verifiedVotes'[x])
      BY <1>3, <1>19, <1>20, DuoSets
    <2>4. cmdQueue' \in Seq(Cmds) /\ blockchain' \in Seq(Duo!BlockRecord)
      BY <1>1, <1>2 DEF Duo!TypeOK
    <2> QED BY <1>1, <1>17, <1>18, <1>20, <2>1, <2>2, <2>3, <2>4 DEF Duo!TypeOK, Duo!Pacemaker, Duo!BlockRecord
  <1>22. Duo!OneEach'
    BY <1>1, <1>2 DEF Duo!OneEach
  <1>23. Duo!Extendable'
    <2>1. ASSUME NEW x \in DOMAIN blockchain
          PROVE  /\ blockchain[x].fast <= pacemaker'.fast + 1 /\ blockchain[x].slow <= pacemaker'.slow + 1
                 /\ pacemaker'.fastHighQCChanged => blockchain[x].fast <= pacemaker'.fast
                 /\ pacemaker'.slowHighQCChanged => blockchain[x].slow <= pacemaker'.slow
      <3>1. blockchain[x].fast \in Nat /\ blockchain[x].slow \in Nat
        BY <1>3
      <3>2. blockchain[x].fast <= p.fast + 1 /\ blockchain[x].slow <= p.slow + 1
        BY <1>a
      <3>3. CASE fastQC
        <4>1. pacemaker'.fast = p.fast + 1
          BY <1>16, <1>17, <3>3
        <4>2. blockchain[x].fast <= pacemaker'.fast + 1 /\ blockchain[x].fast <= pacemaker'.fast
          BY <1>3, <3>1, <3>2, <4>1
        <4>3. CASE slowQC
          <5>1. pacemaker'.slow = p.slow + 1
            BY <1>15, <1>17, <4>3
          <5> QED BY <1>3, <3>1, <3>2, <4>2, <5>1
        <4>4. CASE ~slowQC
          <5>1. pacemaker'.slow = p.slow /\ (pacemaker'.slowHighQCChanged => p.slowHighQCChanged)
            BY <1>17, <4>4
          <5> QED BY <1>a, <3>2, <4>2, <5>1
        <4> QED BY <4>3, <4>4
      <3>4. CASE ~fastQC
        <4>1. pacemaker'.fast = p.fast /\ (pacemaker'.fastHighQCChanged => p.fastHighQCChanged)
          BY <1>17, <3>4
        <4>2. blockchain[x].fast <= pacemaker'.fast + 1
              /\ (pacemaker'.fastHighQCChanged => blockchain[x].fast <= pacemaker'.fast)
          BY <1>a, <3>2, <4>1
        <4>3. CASE slowQC
          <5>1. pacemaker'.slow = p.slow + 1
            BY <1>15, <1>17, <4>3
          <5> QED BY <1>3, <3>1, <3>2, <4>2, <5>1
        <4>4. CASE ~slowQC
          <5>1. pacemaker'.slow = p.slow /\ (pacemaker'.slowHighQCChanged => p.slowHighQCChanged)
            BY <1>17, <4>4
          <5> QED BY <1>a, <3>2, <4>2, <5>1
        <4> QED BY <4>3, <4>4
      <3> QED BY <3>3, <3>4
    <2> QED BY <1>1, <2>1 DEF Duo!Extendable
  <1>24. Duo!VotedOnce'
    <2>1. ASSUME NEW x \in DOMAIN blockchain, blockchain[x].fast # 0, NEW q \in verifiedVotes'[x]
          PROVE  node'[q].lastVoteFast >= blockchain[x].fast
      <3>1. q \in Nodes /\ blockchain[x].fast \in Nat
        BY <1>3, <1>19, <1>20, <2>1
      <3>2. CASE q = r
        <4>1. CASE x = b
          BY <1>18, <2>1, <3>1, <3>2, <4>1
        <4>2. CASE x # b
          <5>1. q \in verifiedVotes[x]
            BY <1>20, <2>1, <4>2
          <5>2. node[r].lastVoteFast >= blockchain[x].fast
            BY <1>c, <2>1, <3>2, <5>1
          <5>3. node'[q] = m
            BY <1>18, <3>1, <3>2
          <5> QED BY <1>8, <3>1, <5>2, <5>3
        <4> QED BY <4>1, <4>2
      <3>3. CASE q # r
        <4>1. q \in verifiedVotes[x] /\ node'[q] = node[q]
          BY <1>b, <1>18, <1>20, <2>1, <3>1, <3>3 DEF W
        <4> QED BY <1>c, <2>1, <4>1
      <3> QED BY <3>2, <3>3
    <2>2. ASSUME NEW x \in DOMAIN blockchain, blockchain[x].fast # 0, blockchain[x].fast <= pacemaker'.fast,
                 blockchain[x].slow > pacemaker'.slow
          PROVE  Cardinality(verifiedVotes'[x]) >= Duo!fastQuorumSize
      <3>0. blockchain[x].slow > p.slow /\ blockchain[x].slow \in Nat /\ blockchain[x].fast \in Nat
        <4>1. pacemaker'.slow = p.slow \/ pacemaker'.slow = p.slow + 1
          BY <1>15, <1>17
        <4> QED BY <1>3, <2>2, <4>1
      <3>1. CASE x = b
        <4>1. ~tooOld /\ ~slowQC /\ blk.slow # 0
          BY <1>3, <1>11, <1>17, <2>2, <3>0, <3>1
        <4>2. verifiedVotes'[x] = W
          BY <1>b, <1>14, <1>20, <3>1, <4>1
        <4>3. CASE fastQC
          BY <1>6, <1>12, <4>2, <4>3
        <4>4. CASE ~fastQC
          <5>1. blk.fast <= p.fast
            BY <1>17, <2>2, <3>1, <4>4
          <5>2. Cardinality(V) >= Duo!fastQuorumSize
            BY <1>9, <2>2, <3>0, <3>1, <5>1
          <5> QED BY <1>5, <1>6, <1>7, <4>2, <5>2
        <4> QED BY <4>3, <4>4
      <3>2. CASE x # b
        <4>1. verifiedVotes'[x] = verifiedVotes[x]
          BY <1>20, <3>2
        <4>2. blockchain[x].fast <= p.fast
          <5>1. CASE fastQC
            <6>1. pacemaker'.fast = p.fast + 1 /\ blk.fast = p.fast + 1 /\ blk.fast # 0
              BY <1>12, <1>16, <1>17, <5>1
            <6>2. blockchain[x].fast # blk.fast
              BY <1>a, <3>2, <6>1
            <6> QED BY <1>3, <2>2, <3>0, <6>1, <6>2
          <5>2. CASE ~fastQC
            BY <1>17, <2>2, <5>2
          <5> QED BY <5>1, <5>2
        <4> QED BY <1>c, <2>2, <3>0, <4>1, <4>2
      <3> QED BY <3>1, <3>2
    <2> QED BY <1>1, <2>1, <2>2, DuoSets DEF Duo!VotedOnce, Duo!fastQuorumSize
  <1> QED BY <1>21, <1>22, <1>23, <1>24 DEF Duo!DuoInv

\* Only the state m of a replica and the queue s of the leader's callbacks are new.
LEMMA DuoNode ==
  ASSUME Duo!DuoInv, NEW r \in Nodes, NEW m, Duo!NodeOK(m), m.lastVoteFast = node[r].lastVoteFast,
         node' = [node EXCEPT ![r] = m], scheduled' \in Seq(Nat),
         \A i \in DOMAIN scheduled' : scheduled'[i] <= Len(blockchain),
         cmdQueue' = cmdQueue, blockchain' = blockchain, pacemaker' = pacemaker,
         verifiedVotes' = verifiedVotes
  PROVE  Duo!DuoInv'
  <1>1. Duo!TypeOK /\ Duo!Extendable /\ Duo!OneEach /\ Duo!VotedOnce /\ node = [q \in Nodes |-> node[q]]
    BY DEF Duo!DuoInv, Duo!TypeOK
  <1>2. /\ node' = [q \in Nodes |-> node'[q]]
        /\ \A q \in Nodes : node'[q] = IF q = r THEN m ELSE node[q]
    BY <1>1
  <1>3. Duo!TypeOK'
    <2>1. ASSUME NEW q \in Nodes PROVE Duo!NodeOK(node[q])'
      <3>1. Duo!NodeOK(node'[q])
        BY <1>1, <1>2 DEF Duo!TypeOK
      <3> QED BY <3>1 DEF Duo!NodeOK
    <2> QED BY <1>1, <1>2, <2>1 DEF Duo!TypeOK
  <1>4. Duo!Extendable' /\ Duo!OneEach'
    BY <1>1 DEF Duo!Extendable, Duo!OneEach
  <1>5. Duo!VotedOnce'
    <2>1. \A b \in DOMAIN blockchain : \A q \in verifiedVotes[b] : q \in Nodes
      BY <1>1, DuoTypes
    <2>2. \A q \in Nodes : node'[q].lastVoteFast = node[q].lastVoteFast
      BY <1>2
    <2> QED BY <1>1, <2>1, <2>2 DEF Duo!VotedOnce
  <1> QED BY <1>3, <1>4, <1>5 DEF Duo!DuoInv

LEMMA DuoAccepts ==
  ASSUME NEW n, Duo!NodeOK(n), NEW b \in DOMAIN blockchain, NEW K
  PROVE  /\ Duo!NodeOK(Duo!onFastPropose(n)) /\ Duo!onFastPropose(n).lastVoteFast = n.lastVoteFast
         /\ Duo!NodeOK(Duo!onSlowPropose(n, b, K))
         /\ Duo!onSlowPropose(n, b, K).lastVoteFast = n.lastVoteFast
  <1>1. Duo!NodeOK(Duo!onFastPropose(n)) /\ Duo!onFastPropose(n).lastVoteFast = n.lastVoteFast
    <2> DEFINE x == n.fast + 1
               y == n.executed \cup ({Duo!cmdAt(h) : h \in 1 .. n.fast} \cap Meta)
    <2>1. Duo!onFastPropose(n) = [n EXCEPT !.fast = x, !.executed = y]
      BY DEF Duo!onFastPropose
    <2> HIDE DEF x, y
    <2>2. Duo!onFastPropose(n) = [fast |-> x, slow |-> n.slow, lastVoteFast |-> n.lastVoteFast,
                                  lastVoteSlow |-> n.lastVoteSlow, bExecSlow |-> n.bExecSlow,
                                  signing |-> n.signing, executed |-> y]
      BY <2>1 DEF Duo!NodeOK
    <2> QED BY <2>2 DEF Duo!NodeOK
  <1>2. ASSUME NEW a, Duo!NodeOK(a), NEW h
        PROVE  /\ Duo!NodeOK(Duo!slowCommit(a, h, K))
               /\ Duo!slowCommit(a, h, K).lastVoteFast = a.lastVoteFast
    <2>1. PICK x, y : Duo!slowCommit(a, h, K) = [a EXCEPT !.bExecSlow = x, !.executed = y]
      BY DEF Duo!slowCommit
    <2>2. Duo!slowCommit(a, h, K) = [fast |-> a.fast, slow |-> a.slow, lastVoteFast |-> a.lastVoteFast,
                                     lastVoteSlow |-> a.lastVoteSlow, bExecSlow |-> x,
                                     signing |-> a.signing, executed |-> y]
      BY <1>2, <2>1 DEF Duo!NodeOK
    <2> QED BY <1>2, <2>2 DEF Duo!NodeOK
  <1>3. Duo!NodeOK(Duo!onSlowPropose(n, b, K)) /\ Duo!onSlowPropose(n, b, K).lastVoteFast = n.lastVoteFast
    <2> DEFINE due == blockchain[b].fast = 0 /\ n.slow + 1 > n.lastVoteSlow
               x == n.slow + 1
               S == IF due THEN n.signing \cup {b} ELSE n.signing
               a == [n EXCEPT !.slow = x, !.signing = S]
               h == n.slow - 1
    <2>1. Duo!onSlowPropose(n, b, K) = Duo!slowCommit(a, h, K)
      BY DEF Duo!onSlowPropose
    <2>2. \A c \in S : c \in DOMAIN blockchain /\ blockchain[c].fast = 0
      BY DEF Duo!NodeOK
    <2> HIDE DEF x, S, h
    <2>3. a = [fast |-> n.fast, slow |-> x, lastVoteFast |-> n.lastVoteFast,
               lastVoteSlow |-> n.lastVoteSlow, bExecSlow |-> n.bExecSlow,
               signing |-> S, executed |-> n.executed]
      <3>1. n = [fast |-> n.fast, slow |-> n.slow, lastVoteFast |-> n.lastVoteFast,
                 lastVoteSlow |-> n.lastVoteSlow, bExecSlow |-> n.bExecSlow,
                 signing |-> n.signing, executed |-> n.executed]
        BY DEF Duo!NodeOK
      <3>2. PICK c1, c2, c3, c4, c5, c6, c7 :
               n = [fast |-> c1, slow |-> c2, lastVoteFast |-> c3, lastVoteSlow |-> c4,
                    bExecSlow |-> c5, signing |-> c6, executed |-> c7]
        BY <3>1, Zenon
      <3>3. [n EXCEPT !.slow = x, !.signing = S] =
               [fast |-> c1, slow |-> x, lastVoteFast |-> c3, lastVoteSlow |-> c4,
                bExecSlow |-> c5, signing |-> S, executed |-> c7]
        <4> DEFINE e == [n EXCEPT !.slow = x]
        <4>1. e = [fast |-> c1, slow |-> x, lastVoteFast |-> c3, lastVoteSlow |-> c4,
                   bExecSlow |-> c5, signing |-> c6, executed |-> c7]
          BY <3>2
        <4>2. [n EXCEPT !.slow = x, !.signing = S] = [e EXCEPT !.signing = S]
          BY Zenon
        <4> HIDE DEF e
        <4>3. [e EXCEPT !.signing = S] =
                 [fast |-> c1, slow |-> x, lastVoteFast |-> c3, lastVoteSlow |-> c4,
                  bExecSlow |-> c5, signing |-> S, executed |-> c7]
          BY <4>1
        <4> QED BY <4>2, <4>3
      <3>4. n.fast = c1 /\ n.lastVoteFast = c3 /\ n.lastVoteSlow = c4 /\ n.bExecSlow = c5 /\ n.executed = c7
        BY <3>2
      <3> QED BY <3>3, <3>4, Zenon
    <2> HIDE DEF a
    <2>4. Duo!NodeOK(a) /\ a.lastVoteFast = n.lastVoteFast
      BY <2>2, <2>3 DEF Duo!NodeOK
    <2> QED BY <1>2, <2>1, <2>4
  <1> QED BY <1>1, <1>3

\* A vote moves only the replica's own bookkeeping: the fast height it voted at, or the
\* set of slow proposals it still has to sign.
LEMMA DuoSigns ==
  ASSUME NEW n, Duo!NodeOK(n), NEW w, NEW S \in SUBSET n.signing
  PROVE  /\ Duo!NodeOK([n EXCEPT !.signing = S, !.lastVoteSlow = w])
         /\ [n EXCEPT !.signing = S, !.lastVoteSlow = w].lastVoteFast = n.lastVoteFast
  <1>1. n = [fast |-> n.fast, slow |-> n.slow, lastVoteFast |-> n.lastVoteFast,
             lastVoteSlow |-> n.lastVoteSlow, bExecSlow |-> n.bExecSlow,
             signing |-> n.signing, executed |-> n.executed]
    BY DEF Duo!NodeOK
  <1>2. PICK c1, c2, c3, c4, c5, c6, c7 :
           n = [fast |-> c1, slow |-> c2, lastVoteFast |-> c3, lastVoteSlow |-> c4,
                bExecSlow |-> c5, signing |-> c6, executed |-> c7]
    BY <1>1, Zenon
  <1>3. n.lastVoteFast = c3 /\ n.signing = c6
    BY <1>2
  <1>4. \A b \in c6 : b \in DOMAIN blockchain /\ blockchain[b].fast = 0
    BY <1>3 DEF Duo!NodeOK
  <1>5. c3 \in Nat
    BY <1>3 DEF Duo!NodeOK
  <1> DEFINE g == [n EXCEPT !.signing = S]
             h == [g EXCEPT !.lastVoteSlow = w]
  <1>6. g = [fast |-> c1, slow |-> c2, lastVoteFast |-> c3, lastVoteSlow |-> c4,
             bExecSlow |-> c5, signing |-> S, executed |-> c7]
    BY <1>2
  <1>7. h = [n EXCEPT !.signing = S, !.lastVoteSlow = w]
    BY Zenon
  <1> HIDE DEF g
  <1>8. h = [fast |-> c1, slow |-> c2, lastVoteFast |-> c3, lastVoteSlow |-> w,
             bExecSlow |-> c5, signing |-> S, executed |-> c7]
    BY <1>6
  <1> HIDE DEF h
  <1>9. h.lastVoteFast = n.lastVoteFast /\ Duo!NodeOK(h)
    BY <1>3, <1>4, <1>5, <1>8 DEF Duo!NodeOK
  <1> QED BY <1>7, <1>9

LEMMA DuoSignsFast ==
  ASSUME NEW n, Duo!NodeOK(n), NEW u \in Nat, NEW w
  PROVE  /\ Duo!NodeOK([n EXCEPT !.lastVoteFast = u, !.lastVoteSlow = w])
         /\ [n EXCEPT !.lastVoteFast = u, !.lastVoteSlow = w].lastVoteFast = u
  <1>1. n = [fast |-> n.fast, slow |-> n.slow, lastVoteFast |-> n.lastVoteFast,
             lastVoteSlow |-> n.lastVoteSlow, bExecSlow |-> n.bExecSlow,
             signing |-> n.signing, executed |-> n.executed]
    BY DEF Duo!NodeOK
  <1>2. PICK c1, c2, c3, c4, c5, c6, c7 :
           n = [fast |-> c1, slow |-> c2, lastVoteFast |-> c3, lastVoteSlow |-> c4,
                bExecSlow |-> c5, signing |-> c6, executed |-> c7]
    BY <1>1, Zenon
  <1>3. n.lastVoteFast = c3 /\ n.signing = c6
    BY <1>2
  <1>4. \A b \in c6 : b \in DOMAIN blockchain /\ blockchain[b].fast = 0
    BY <1>3 DEF Duo!NodeOK
  <1> DEFINE e == [n EXCEPT !.lastVoteFast = u]
             f == [e EXCEPT !.lastVoteSlow = w]
  <1>5. e = [fast |-> c1, slow |-> c2, lastVoteFast |-> u, lastVoteSlow |-> c4,
             bExecSlow |-> c5, signing |-> c6, executed |-> c7]
    BY <1>2
  <1>6. f = [n EXCEPT !.lastVoteFast = u, !.lastVoteSlow = w]
    BY Zenon
  <1> HIDE DEF e
  <1>7. f = [fast |-> c1, slow |-> c2, lastVoteFast |-> u, lastVoteSlow |-> w,
             bExecSlow |-> c5, signing |-> c6, executed |-> c7]
    BY <1>5
  <1> HIDE DEF f
  <1>8. f.lastVoteFast = u /\ Duo!NodeOK(f)
    BY <1>4, <1>7 DEF Duo!NodeOK
  <1> QED BY <1>6, <1>8

\* Every step of DuoBFT keeps its inductive invariant.
LEMMA DuoStep ==
  ASSUME Duo!DuoInv, [Duo!Next]_duoVars
  PROVE  Duo!DuoInv'
  <1>0. /\ Duo!TypeOK /\ cmdQueue \in Seq(Cmds) /\ scheduled \in Seq(Nat)
        /\ \A i \in DOMAIN scheduled : scheduled[i] <= Len(blockchain)
        /\ \A r \in Nodes : Duo!NodeOK(node[r])
        /\ node = [r \in Nodes |-> node[r]]
    BY DEF Duo!DuoInv, Duo!TypeOK
  <1>a. scheduled # << >> =>
           /\ Tail(scheduled) \in Seq(Nat) /\ Head(scheduled) \in Nat
           /\ Head(scheduled) <= Len(blockchain)
           /\ \A i \in DOMAIN Tail(scheduled) : Tail(scheduled)[i] <= Len(blockchain)
    <2>1. SUFFICES ASSUME scheduled # << >>
                   PROVE  /\ Tail(scheduled) \in Seq(Nat) /\ Head(scheduled) \in Nat
                          /\ Head(scheduled) <= Len(blockchain)
                          /\ \A i \in DOMAIN Tail(scheduled) : Tail(scheduled)[i] <= Len(blockchain)
      OBVIOUS
    <2>2. /\ Head(scheduled) \in Nat /\ Tail(scheduled) \in Seq(Nat)
          /\ Len(Tail(scheduled)) = Len(scheduled) - 1 /\ Head(scheduled) = scheduled[1]
          /\ \A i \in 1 .. Len(Tail(scheduled)) : Tail(scheduled)[i] = scheduled[i + 1]
      BY <1>0, <2>1, HeadTailProperties
    <2>3. /\ Len(scheduled) \in Nat /\ DOMAIN scheduled = 1 .. Len(scheduled) /\ Len(scheduled) # 0
          /\ DOMAIN Tail(scheduled) = 1 .. Len(Tail(scheduled))
      BY <1>0, <2>1, <2>2, LenProperties, EmptySeq
    <2>4. 1 \in DOMAIN scheduled /\ \A i \in 1 .. Len(Tail(scheduled)) : i + 1 \in DOMAIN scheduled
      BY <2>2, <2>3
    <2> QED BY <1>0, <2>2, <2>3, <2>4
  <1>b. Len(blockchain) \in Nat /\ DOMAIN blockchain = 1 .. Len(blockchain)
    BY <1>0, DuoTypes
  <1>1. ASSUME NEW c \in Cmds, Duo!onRequest(c) PROVE Duo!DuoInv'
    <2>1. Duo!propose(Append(cmdQueue, c), scheduled) /\ node' = node
      BY <1>1 DEF Duo!onRequest
    <2>2. Append(cmdQueue, c) \in Seq(Cmds)
      BY <1>0, AppendProperties
    <2> QED BY <1>0, <2>1, <2>2, DuoPropose
  <1>2. ASSUME Duo!Scheduled PROVE Duo!DuoInv'
    <2>1. scheduled # << >>
      BY <1>2 DEF Duo!Scheduled
    <2>2. CASE Head(scheduled) = 0
      <3>1. Duo!propose(cmdQueue, Tail(scheduled)) /\ node' = node
        BY <1>2, <2>2 DEF Duo!Scheduled
      <3>2. Tail(scheduled) \in Seq(Nat) /\ \A i \in DOMAIN Tail(scheduled) : Tail(scheduled)[i] <= Len(blockchain)
        BY <1>a, <2>1
      <3> QED BY <1>0, <3>1, <3>2, DuoPropose
    <2>3. CASE Head(scheduled) # 0
      <3> DEFINE b == Head(scheduled)
                 K == {blockchain[k].fast : k \in DOMAIN blockchain}
                 n == IF blockchain[b].fast = 0 THEN node[Primary] ELSE Duo!onFastPropose(node[Primary])
                 m == IF blockchain[b].slow = 0 THEN n ELSE Duo!onSlowPropose(n, b, K)
      <3>1. /\ node' = [node EXCEPT ![Primary] = m] /\ scheduled' = Tail(scheduled)
            /\ cmdQueue' = cmdQueue /\ blockchain' = blockchain /\ pacemaker' = pacemaker
            /\ verifiedVotes' = verifiedVotes
        BY <1>2, <2>3 DEF Duo!Scheduled
      <3>2. b \in DOMAIN blockchain
        BY <1>a, <1>b, <2>1, <2>3
      <3>3. Primary \in Nodes /\ Duo!NodeOK(node[Primary])
        BY <1>0, ChainsAssumption DEF Duo!DuoAssumption
      <3> HIDE DEF b, K
      <3>4. Duo!NodeOK(n) /\ n.lastVoteFast = node[Primary].lastVoteFast
        BY <3>2, <3>3, DuoAccepts
      <3> HIDE DEF n
      <3>5. Duo!NodeOK(m) /\ m.lastVoteFast = node[Primary].lastVoteFast
        BY <3>2, <3>4, DuoAccepts
      <3> HIDE DEF m
      <3>6. scheduled' \in Seq(Nat) /\ \A i \in DOMAIN scheduled' : scheduled'[i] <= Len(blockchain)
        BY <1>a, <2>1, <3>1
      <3> QED BY <3>1, <3>3, <3>5, <3>6, DuoNode
    <2> QED BY <2>2, <2>3
  <1>3. ASSUME NEW r \in Nodes, Duo!FastVerified(r) PROVE Duo!DuoInv'
    <2> DEFINE m == Duo!onFastPropose(node[r])
    <2>1. /\ node' = [node EXCEPT ![r] = m] /\ scheduled' = scheduled /\ cmdQueue' = cmdQueue
          /\ blockchain' = blockchain /\ pacemaker' = pacemaker /\ verifiedVotes' = verifiedVotes
          /\ Duo!fastAt(node[r].fast + 1) # {}
      BY <1>3 DEF Duo!FastVerified
    <2>2. PICK b : b \in DOMAIN blockchain
      BY <2>1 DEF Duo!fastAt
    <2>3. Duo!NodeOK(m) /\ m.lastVoteFast = node[r].lastVoteFast
      BY <1>0, <2>2, DuoAccepts
    <2> HIDE DEF m
    <2> QED BY <1>0, <2>1, <2>3, DuoNode
  <1>4. ASSUME NEW r \in Nodes, Duo!SlowVerified(r) PROVE Duo!DuoInv'
    <2>1. PICK b \in Duo!slowAt(node[r].slow + 1) :
             node' = [node EXCEPT ![r] = Duo!onSlowPropose(node[r], b, 1 .. node[r].fast)]
      BY <1>4 DEF Duo!SlowVerified
    <2>2. /\ scheduled' = scheduled /\ cmdQueue' = cmdQueue
          /\ blockchain' = blockchain /\ pacemaker' = pacemaker /\ verifiedVotes' = verifiedVotes
      BY <1>4 DEF Duo!SlowVerified
    <2> DEFINE K == 1 .. node[r].fast
               m == Duo!onSlowPropose(node[r], b, K)
    <2>3. node' = [node EXCEPT ![r] = m]
      BY <2>1
    <2>4. b \in DOMAIN blockchain
      BY DEF Duo!slowAt
    <2> HIDE DEF K
    <2>5. Duo!NodeOK(m) /\ m.lastVoteFast = node[r].lastVoteFast
      BY <1>0, <2>4, DuoAccepts
    <2> HIDE DEF m
    <2> QED BY <1>0, <2>2, <2>3, <2>5, DuoNode
  <1>5. ASSUME NEW r \in Nodes, Duo!SignUsig(r) PROVE Duo!DuoInv'
    <2> DEFINE n == node[r]
    <2>1. PICK b \in Duo!fastAt(n.lastVoteFast + 1) :
             /\ node' = [node EXCEPT ![r] =
                           [n EXCEPT !.lastVoteFast = n.lastVoteFast + 1,
                                     !.lastVoteSlow = IF blockchain[b].slow = 0 THEN n.lastVoteSlow
                                                      ELSE blockchain[b].slow]]
             /\ Duo!onVote(r, b)
      BY <1>5 DEF Duo!SignUsig
    <2>2. b \in DOMAIN blockchain /\ blockchain[b].fast = n.lastVoteFast + 1
      BY DEF Duo!fastAt
    <2>3. Duo!NodeOK(n) /\ n.lastVoteFast \in Nat /\ {} \in SUBSET n.signing
      BY <1>0 DEF Duo!NodeOK
    <2> DEFINE u == n.lastVoteFast + 1
               w == IF blockchain[b].slow = 0 THEN n.lastVoteSlow ELSE blockchain[b].slow
               m == [n EXCEPT !.lastVoteFast = u, !.lastVoteSlow = w]
    <2>4. node' = [node EXCEPT ![r] = m] /\ u \in Nat /\ u = n.lastVoteFast + 1
      BY <2>1, <2>3
    <2> HIDE DEF n, u, w
    <2>5. Duo!NodeOK(m) /\ m.lastVoteFast = u
      <3>1. Duo!NodeOK(n) /\ u \in Nat
        BY <2>3, <2>4
      <3> QED BY <3>1, DuoSignsFast, Zenon
    <2> HIDE DEF m
    <2>6. m.lastVoteFast >= n.lastVoteFast /\ n.lastVoteFast < blockchain[b].fast
          /\ m.lastVoteFast >= blockchain[b].fast
      BY <2>2, <2>3, <2>4, <2>5
    <2>7. m.lastVoteFast >= node[r].lastVoteFast /\ node[r].lastVoteFast < blockchain[b].fast
      BY <2>6 DEF n
    <2> QED BY <2>1, <2>2, <2>4, <2>5, <2>6, <2>7, DuoVote
  <1>6. ASSUME NEW r \in Nodes, Duo!Sign(r) PROVE Duo!DuoInv'
    <2>1. PICK b \in node[r].signing :
             /\ node' = [node EXCEPT ![r].signing = @ \ {b}, ![r].lastVoteSlow = blockchain[b].slow]
             /\ Duo!onVote(r, b)
      BY <1>6 DEF Duo!Sign
    <2> DEFINE n == node[r]
               S == n.signing \ {b}
               w == blockchain[b].slow
               m == [n EXCEPT !.signing = S, !.lastVoteSlow = w]
    <2>2. node' = [node EXCEPT ![r] = m]
      BY <1>0, <2>1
    <2>3. Duo!NodeOK(n) /\ n.lastVoteFast \in Nat /\ S \in SUBSET n.signing
      BY <1>0 DEF Duo!NodeOK
    <2>4. b \in DOMAIN blockchain /\ blockchain[b].fast = 0
      BY <2>3 DEF Duo!NodeOK
    <2> HIDE DEF n, S, w
    <2>5. Duo!NodeOK(m) /\ m.lastVoteFast = n.lastVoteFast
      BY <2>3, DuoSigns
    <2> HIDE DEF m
    <2>6. m.lastVoteFast >= node[r].lastVoteFast
      BY <2>3, <2>5 DEF n
    <2> QED BY <2>1, <2>2, <2>4, <2>5, <2>6, DuoVote
  <1>7. CASE UNCHANGED duoVars
    <2>1. /\ cmdQueue' = cmdQueue /\ blockchain' = blockchain /\ pacemaker' = pacemaker
          /\ scheduled' = scheduled /\ node' = node /\ verifiedVotes' = verifiedVotes
      BY <1>7 DEF duoVars
    <2>2. Duo!TypeOK'
      BY <1>0, <2>1 DEF Duo!TypeOK, Duo!NodeOK
    <2> QED BY <2>1, <2>2 DEF Duo!DuoInv, Duo!Extendable, Duo!OneEach, Duo!VotedOnce
  <1> QED BY <1>1, <1>2, <1>3, <1>4, <1>5, <1>6, <1>7 DEF Duo!Next

\* The invariant leaves one block at every height of either chain.
LEMMA DuoInvOne ==
  ASSUME Duo!DuoInv
  PROVE  Duo!OneBlock
  <1>1. ASSUME NEW S, \A a, b \in S : a = b PROVE Duo!Cardinality(S) <= 1
    <2>1. CASE S = {}
      BY <2>1, FS_EmptySet, DuoSets
    <2>2. CASE S # {}
      <3>1. PICK a : S = {a}
        BY <1>1, <2>2
      <3>2. Cardinality({a}) = 1
        BY FS_Singleton
      <3>3. Duo!Cardinality(S) = Cardinality(S)
        BY DuoSets
      <3> QED BY <3>1, <3>2, <3>3
    <2> QED BY <2>1, <2>2
  <1>2. ASSUME NEW h \in 1 .. Len(blockchain)
        PROVE  Duo!Cardinality(Duo!fastAt(h)) <= 1 /\ Duo!Cardinality(Duo!slowAt(h)) <= 1
    <2>1. h # 0
      BY DuoTypes DEF Duo!DuoInv
    <2>2. \A a, b \in Duo!fastAt(h) : a = b
      BY <2>1 DEF Duo!DuoInv, Duo!OneEach, Duo!fastAt
    <2>3. \A a, b \in Duo!slowAt(h) : a = b
      BY <2>1 DEF Duo!DuoInv, Duo!OneEach, Duo!slowAt
    <2> QED BY <1>1, <2>2, <2>3
  <1> QED BY <1>2 DEF Duo!OneBlock

\* A leader proposes each height of its chain once, in chained HotStuff and on both chains
\* of DuoBFT, for any number of replicas, verifying workers and commands.
THEOREM ProposesOnce == ChainsSpec => []OnePerHeight
  <1>1. ChainsInit => ChainInv /\ Duo!DuoInv
    BY ChainInit, DuoInit DEF ChainsInit
  <1>2. ASSUME ChainInv, Duo!DuoInv, [ChainsNext]_<<protocol, vars, duoVars>>
        PROVE  ChainInv' /\ Duo!DuoInv'
    <2>1. [Next]_vars /\ [Duo!Next]_duoVars
      <3>1. CASE ChainsNext
        BY <3>1 DEF ChainsNext
      <3>2. CASE UNCHANGED <<protocol, vars, duoVars>>
        BY <3>2
      <3> QED BY <1>2, <3>1, <3>2
    <2> QED BY <1>2, <2>1, ChainStep, DuoStep
  <1>3. ChainInv /\ Duo!DuoInv => OnePerHeight
    BY ChainInvOne, DuoInvOne DEF OnePerHeight
  <1> QED BY <1>1, <1>2, <1>3, PTL DEF ChainsSpec
=============================================================================
