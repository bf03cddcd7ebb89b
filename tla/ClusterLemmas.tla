--------------------------- MODULE ClusterLemmas ---------------------------
(***************************************************************************)
(* What the proofs about the protocols with one log have in common, for    *)
(* every number of replicas, every scenario and every bound on the log.    *)
(*                                                                         *)
(* The protocols keep different instances, but all of them bind a replica  *)
(* to a hash by its vote and execute what enough votes have been sent for. *)
(* This module says so once, over a log lg of the scenario s; the proof of *)
(* each protocol then shows that its handlers only ever take such steps.   *)
(***************************************************************************)
EXTENDS Cluster, LogLemmas, TLAPS

-----------------------------------------------------------------------------
(* A common view of the instances *)

Good(s) == s.members \ s.faulty

\* The hash that instance e of protocol p has been bound to, if any.
hashOf(p, e) ==
    IF p = "minbft" THEN e.command ELSE IF p = "mirbft" THEN e.val ELSE e.hash

\* Its replica has sent the vote that counts for the commit.
votedIn(p, e) ==
    IF p = "sbftslow" THEN e.cSigned
    ELSE IF p \in {"minbft", "hybster"} THEN e.prepared
    ELSE IF p = "mirbft" THEN e.status # "PrePrepared"
    ELSE e.signed

\* It is committed, and perhaps executed.
doneIn(p, e) ==
    IF p = "sbftslow" THEN e.status >= 5
    ELSE IF p \in {"minbft", "hybster"} THEN e.commit
    ELSE IF p = "mirbft" THEN e.status \in {"Committed", "Executed"}
    ELSE e.status >= 3

\* The faulty replicas, where the protocol has any, and the votes of a quorum.
Liars(s) == IF s.protocol \in {"minbft", "hybster"} THEN {} ELSE s.faulty

Need(s) ==
    IF s.protocol = "sbft" THEN 3 * s.f + s.c + 1
    ELSE IF s.protocol = "sbftslow" THEN 2 * s.f + s.c + 1
    ELSE IF s.protocol = "mirbft" THEN 2 * s.f + 1
    ELSE s.f + 1

Voters(s, lg, i, c) ==
    {q \in Good(s) : /\ i \in DOMAIN lg[q] /\ votedIn(s.protocol, lg[q][i])
                     /\ hashOf(s.protocol, lg[q][i]) = c}

Cert(s, lg, i, c) == Cardinality(Voters(s, lg, i, c) \cup Liars(s)) >= Need(s)

\* Who proposes index i, and what it has proposed if it is correct.
Proposer(s, i) == IF s.protocol = "mirbft" THEN s.peers[(i % Cardinality(s.members)) + 1] ELSE Leader
PropOf(p, e) == IF e.command # Nil THEN e.command ELSE hashOf(p, e)
Proposed(s, lg, i, v) ==
    Proposer(s, i) \in Good(s) =>
        i \in DOMAIN lg[Proposer(s, i)] /\ PropOf(s.protocol, lg[Proposer(s, i)][i]) = v

-----------------------------------------------------------------------------
(* What holds of the logs and of what has been executed *)

Value == Commands \cup {Nil}

Instances(p) ==
    IF p \in {"sbft", "linhybster"}
    THEN [status : Nat, command : Value, hash : Value, signed : BOOLEAN]
    ELSE IF p = "sbftslow"
    THEN [status : Nat, command : Value, hash : Value, signed : BOOLEAN, cSigned : BOOLEAN]
    ELSE IF p = "minbft"
    THEN [command : Commands, prepared : BOOLEAN, commit : BOOLEAN, executed : BOOLEAN]
    ELSE IF p = "hybster"
    THEN [command : Value, hash : Value, prepared : BOOLEAN, commit : BOOLEAN, executed : BOOLEAN,
          quorum : SUBSET Replicas]
    ELSE [status : {"PrePrepared", "Prepared", "Committed", "Executed"}, command : Value, val : Commands]

Logs(p) == UNION {[dom -> Instances(p)] : dom \in SUBSET Nat}

\* Instance e of replica r for index i holds nothing but what was proposed.
Entry(s, lg, r, i, e) ==
    LET h == hashOf(s.protocol, e)
    IN  /\ e.command # Nil \/ h # Nil
        /\ e.command # Nil => h = e.command \/ (r = Leader /\ h = Nil)
        /\ e.command # Nil => Proposed(s, lg, i, e.command)
        /\ h # Nil => Proposed(s, lg, i, h)
        /\ doneIn(s.protocol, e) => h # Nil

EntriesOk(s, lg) ==
    \A r \in Good(s) : \A i \in DOMAIN lg[r] :
        /\ Entry(s, lg, r, i, lg[r][i])
        /\ doneIn(s.protocol, lg[r][i]) => Cert(s, lg, i, hashOf(s.protocol, lg[r][i]))

\* Correct proposers propose each command for one index only.
Distinct(s, lg, req) ==
    \A i, j \in Nat :
        /\ Proposer(s, i) \in Good(s) /\ i \in DOMAIN lg[Proposer(s, i)]
        /\ Proposer(s, j) \in Good(s) /\ j \in DOMAIN lg[Proposer(s, j)]
        => LET v == PropOf(s.protocol, lg[Proposer(s, i)][i])
           IN  v \in req /\ (v = PropOf(s.protocol, lg[Proposer(s, j)][j]) => i = j)

\* What the correct replicas have executed as number k has a quorum at index k - 1.
ExecOk(s, lg, n, x) ==
    /\ n \in [Replicas -> 0 .. MaxIndex] /\ x \in [Replicas -> Seq(Commands)]
    /\ \A r \in Good(s) : /\ Len(x[r]) = n[r]
                          /\ \A k \in 1 .. Len(x[r]) : Cert(s, lg, k - 1, x[r][k])

LogsOk(s, req, lg, n, x) ==
    /\ s \in Scenarios /\ req \subseteq Commands
    /\ lg \in [Replicas -> Logs(s.protocol)]
    /\ EntriesOk(s, lg) /\ Distinct(s, lg, req) /\ ExecOk(s, lg, n, x)

\* Log L of a replica has come from K: hashes and votes stay.
Advances(p, K, L) ==
    \A i \in DOMAIN K :
        /\ i \in DOMAIN L
        /\ hashOf(p, K[i]) # Nil => hashOf(p, L[i]) = hashOf(p, K[i])
        /\ votedIn(p, K[i]) => votedIn(p, L[i])

-----------------------------------------------------------------------------
(* Quorums *)

LEMMA ScenarioFacts ==
  ASSUME NEW s \in Scenarios
  PROVE  /\ s \in Scenario /\ s.f \in Nat /\ s.c \in Nat
         /\ Good(s) \subseteq Replicas /\ Liars(s) \subseteq Replicas /\ s.members \subseteq Replicas
         /\ IsFiniteSet(Replicas) /\ Need(s) \in Nat /\ Cardinality(Liars(s)) < Need(s)
  <1>1. s \in Scenario /\ IsFiniteSet(Replicas) /\ Cardinality(s.faulty) <= s.f
    BY ClusterAssumption
  <1>2. s.f \in Nat /\ s.c \in Nat /\ s.members \subseteq Replicas /\ s.faulty \subseteq Replicas
    BY <1>1 DEF Scenario
  <1>3. Need(s) \in Nat /\ s.f < Need(s)
    BY <1>2 DEF Need
  <1>4. IsFiniteSet(s.faulty) /\ Cardinality(s.faulty) \in Nat
    BY <1>1, <1>2, FS_Subset, FS_CardinalityType
  <1>5. Cardinality(Liars(s)) < Need(s)
    BY <1>1, <1>2, <1>3, <1>4, FS_EmptySet DEF Liars
  <1> QED BY <1>1, <1>2, <1>3, <1>5 DEF Good, Liars

\* A quorum has a correct member.
LEMMA CertHasVoter ==
  ASSUME NEW s \in Scenarios, NEW lg, NEW i, NEW c, Cert(s, lg, i, c)
  PROVE  \E q \in Good(s) : q \in Voters(s, lg, i, c)
  <1> DEFINE V == Voters(s, lg, i, c)
  <1>1. V \subseteq Good(s)
    BY DEF Voters
  <1>2. Cardinality(V \cup Liars(s)) >= Need(s) /\ Cardinality(Liars(s)) < Need(s) /\ Need(s) \in Nat
    BY ScenarioFacts DEF Cert
  <1>3. ASSUME V = {} PROVE FALSE
    <2>1. V \cup Liars(s) = Liars(s)
      BY <1>3
    <2>2. IsFiniteSet(Liars(s))
      BY ScenarioFacts, FS_Subset
    <2>3. Cardinality(Liars(s)) \in Nat
      BY <2>2, FS_CardinalityType
    <2> HIDE DEF V
    <2> QED BY <1>2, <2>1, <2>3
  <1> QED BY <1>1, <1>3

\* More voters are still a quorum.
LEMMA CertMore ==
  ASSUME NEW s \in Scenarios, NEW lg, NEW lg2, NEW i, NEW c, Cert(s, lg, i, c),
         Voters(s, lg, i, c) \subseteq Voters(s, lg2, i, c)
  PROVE  Cert(s, lg2, i, c)
  <1> DEFINE V == Voters(s, lg, i, c) \cup Liars(s)
             W == Voters(s, lg2, i, c) \cup Liars(s)
  <1>1. V \subseteq W
    OBVIOUS
  <1>2. W \subseteq Replicas
    BY ScenarioFacts DEF Voters
  <1>3. IsFiniteSet(W)
    BY <1>2, ScenarioFacts, FS_Subset
  <1>4. Cardinality(V) <= Cardinality(W) /\ Cardinality(V) \in Nat /\ Cardinality(W) \in Nat
    <2> HIDE DEF V, W
    <2> QED BY <1>1, <1>3, FS_Subset, FS_CardinalityType
  <1>5. Cardinality(V) >= Need(s) /\ Need(s) \in Nat
    BY ScenarioFacts DEF Cert
  <1>6. Cardinality(W) >= Need(s)
    <2> HIDE DEF V, W
    <2> QED BY <1>4, <1>5
  <1> QED BY <1>6 DEF Cert

\* A replica's new log keeps the votes that it has sent.
LEMMA VotersGrow ==
  ASSUME NEW s \in Scenarios, NEW lg, DOMAIN lg = Replicas, NEW r \in Good(s), NEW L,
         Advances(s.protocol, lg[r], L), NEW i, NEW c, c # Nil
  PROVE  Voters(s, lg, i, c) \subseteq Voters(s, [lg EXCEPT ![r] = L], i, c)
  <1> DEFINE lg2 == [lg EXCEPT ![r] = L]
  <1>1. SUFFICES ASSUME NEW q \in Voters(s, lg, i, c) PROVE q \in Voters(s, lg2, i, c)
    OBVIOUS
  <1>2. /\ q \in Good(s) /\ i \in DOMAIN lg[q] /\ votedIn(s.protocol, lg[q][i])
        /\ hashOf(s.protocol, lg[q][i]) = c
    BY DEF Voters
  <1>3. q \in Replicas /\ r \in Replicas
    BY <1>2, ScenarioFacts
  <1>4. CASE q = r
    <2>1. lg2[q] = L
      BY <1>3, <1>4
    <2>2. i \in DOMAIN L /\ votedIn(s.protocol, L[i]) /\ hashOf(s.protocol, L[i]) = c
      BY <1>2, <1>4 DEF Advances
    <2> HIDE DEF lg2
    <2> QED BY <1>2, <2>1, <2>2 DEF Voters
  <1>5. CASE q # r
    <2>1. lg2[q] = lg[q]
      BY <1>3, <1>5
    <2> HIDE DEF lg2
    <2> QED BY <1>2, <2>1 DEF Voters
  <1> QED BY <1>4, <1>5

LEMMA CertGrows ==
  ASSUME NEW s \in Scenarios, NEW lg, DOMAIN lg = Replicas, NEW r \in Good(s), NEW L,
         Advances(s.protocol, lg[r], L), NEW i, NEW c, c # Nil, Cert(s, lg, i, c)
  PROVE  Cert(s, [lg EXCEPT ![r] = L], i, c)
  <1> DEFINE lg2 == [lg EXCEPT ![r] = L]
  <1>1. Voters(s, lg, i, c) \subseteq Voters(s, lg2, i, c)
    BY VotersGrow
  <1> HIDE DEF lg2
  <1>2. Cert(s, lg2, i, c)
    BY <1>1, CertMore
  <1> QED BY <1>2 DEF lg2

\* What has been proposed stays proposed when a replica's new log holds nothing else.
LEMMA ProposedStays ==
  ASSUME NEW s \in Scenarios, NEW lg, DOMAIN lg = Replicas, NEW r \in Good(s), NEW L,
         Advances(s.protocol, lg[r], L),
         \A j \in DOMAIN L : Entry(s, lg, r, j, L[j]),
         NEW i, NEW v, Proposed(s, lg, i, v)
  PROVE  Proposed(s, [lg EXCEPT ![r] = L], i, v)
  <1> DEFINE lg2 == [lg EXCEPT ![r] = L]
             p == Proposer(s, i)
  <1>1. SUFFICES ASSUME p \in Good(s)
                 PROVE  i \in DOMAIN lg2[p] /\ PropOf(s.protocol, lg2[p][i]) = v
    BY DEF Proposed
  <1>2. i \in DOMAIN lg[p] /\ PropOf(s.protocol, lg[p][i]) = v
    BY <1>1 DEF Proposed
  <1>3. p \in Replicas /\ r \in Replicas
    BY <1>1, ScenarioFacts
  <1>4. CASE p = r
    <2>1. lg2[p] = L
      BY <1>3, <1>4
    <2>2. i \in DOMAIN L
      BY <1>2, <1>4 DEF Advances
    <2>3. Entry(s, lg, r, i, L[i])
      BY <2>2
    <2>4. L[i].command # Nil => L[i].command = v
      BY <1>1, <1>2, <2>3 DEF Entry, Proposed
    <2>5. hashOf(s.protocol, L[i]) # Nil => hashOf(s.protocol, L[i]) = v
      BY <1>1, <1>2, <2>3 DEF Entry, Proposed
    <2>6. L[i].command # Nil \/ hashOf(s.protocol, L[i]) # Nil
      BY <2>3 DEF Entry
    <2>7. PropOf(s.protocol, L[i]) = v
      BY <2>4, <2>5, <2>6 DEF PropOf
    <2> HIDE DEF lg2, p
    <2> QED BY <2>1, <2>2, <2>7
  <1>5. CASE p # r
    <2>1. lg2[p] = lg[p]
      BY <1>3, <1>5
    <2> HIDE DEF lg2, p
    <2> QED BY <1>2, <2>1
  <1> QED BY <1>4, <1>5

LEMMA EntryStays ==
  ASSUME NEW s \in Scenarios, NEW lg, DOMAIN lg = Replicas, NEW r \in Good(s), NEW L,
         Advances(s.protocol, lg[r], L),
         \A j \in DOMAIN L : Entry(s, lg, r, j, L[j]),
         NEW q, NEW i, NEW e, Entry(s, lg, q, i, e)
  PROVE  Entry(s, [lg EXCEPT ![r] = L], q, i, e)
  <1> DEFINE lg2 == [lg EXCEPT ![r] = L]
  <1>1. \A v : Proposed(s, lg, i, v) => Proposed(s, lg2, i, v)
    BY ProposedStays
  <1> HIDE DEF lg2
  <1>2. Entry(s, lg2, q, i, e)
    BY <1>1 DEF Entry
  <1> QED BY <1>2 DEF lg2

\* The hypotheses of a step that changes the log of r to L and executes the commands t.
LogStep(s, lg, r, L) ==
    /\ r \in Good(s) /\ L \in Logs(s.protocol)
    /\ Advances(s.protocol, lg[r], L)
    /\ \A i \in DOMAIN L : Entry(s, lg, r, i, L[i])
    /\ \A i \in DOMAIN L : doneIn(s.protocol, L[i]) =>
           Cert(s, [lg EXCEPT ![r] = L], i, hashOf(s.protocol, L[i]))

LEMMA StepEntries ==
  ASSUME NEW s \in Scenarios, NEW lg \in [Replicas -> Logs(s.protocol)], EntriesOk(s, lg),
         NEW r, NEW L, LogStep(s, lg, r, L)
  PROVE  EntriesOk(s, [lg EXCEPT ![r] = L])
  <1> DEFINE lg2 == [lg EXCEPT ![r] = L]
  <1> SUFFICES ASSUME NEW q \in Good(s), NEW i \in DOMAIN lg2[q]
               PROVE  /\ Entry(s, lg2, q, i, lg2[q][i])
                      /\ doneIn(s.protocol, lg2[q][i]) => Cert(s, lg2, i, hashOf(s.protocol, lg2[q][i]))
    BY DEF EntriesOk
  <1>1. q \in Replicas /\ r \in Replicas /\ r \in Good(s) /\ DOMAIN lg = Replicas
    BY ScenarioFacts DEF LogStep
  <1>2. Advances(s.protocol, lg[r], L) /\ \A j \in DOMAIN L : Entry(s, lg, r, j, L[j])
    BY DEF LogStep
  <1>3. CASE q = r
    <2>1. lg2[q] = L
      BY <1>1, <1>3
    <2>2. Entry(s, lg, r, i, L[i])
      BY <1>2, <2>1
    <2>3. Entry(s, lg2, q, i, L[i])
      BY <1>1, <1>2, <1>3, <2>2, EntryStays
    <2>4. doneIn(s.protocol, L[i]) => Cert(s, lg2, i, hashOf(s.protocol, L[i]))
      BY <2>1 DEF LogStep
    <2> HIDE DEF lg2
    <2> QED BY <2>1, <2>3, <2>4
  <1>4. CASE q # r
    <2>1. lg2[q] = lg[q]
      BY <1>1, <1>4
    <2>2. /\ Entry(s, lg, q, i, lg[q][i])
          /\ doneIn(s.protocol, lg[q][i]) => Cert(s, lg, i, hashOf(s.protocol, lg[q][i]))
      BY <2>1 DEF EntriesOk
    <2>3. Entry(s, lg2, q, i, lg[q][i])
      BY <1>1, <1>2, <2>2, EntryStays
    <2>4. ASSUME doneIn(s.protocol, lg[q][i]) PROVE Cert(s, lg2, i, hashOf(s.protocol, lg[q][i]))
      <3> DEFINE h == hashOf(s.protocol, lg[q][i])
      <3>1. h # Nil /\ Cert(s, lg, i, h)
        BY <2>2, <2>4 DEF Entry
      <3> HIDE DEF h
      <3>2. Cert(s, lg2, i, h)
        BY <1>1, <1>2, <3>1, CertGrows
      <3> QED BY <3>2 DEF h
    <2> HIDE DEF lg2
    <2> QED BY <2>1, <2>3, <2>4
  <1> QED BY <1>3, <1>4

LEMMA StepDistinct ==
  ASSUME NEW s \in Scenarios, NEW lg \in [Replicas -> Logs(s.protocol)],
         NEW req, Distinct(s, lg, req), NEW req2, req \subseteq req2, EntriesOk(s, lg),
         NEW r, NEW L, LogStep(s, lg, r, L)
  PROVE  Distinct(s, [lg EXCEPT ![r] = L], req2)
  <1> DEFINE lg2 == [lg EXCEPT ![r] = L]
             at(l, i) == Proposer(s, i) \in Good(s) /\ i \in DOMAIN l[Proposer(s, i)]
             prop(l, i) == PropOf(s.protocol, l[Proposer(s, i)][i])
  <1>1. r \in Replicas /\ r \in Good(s) /\ DOMAIN lg = Replicas
    BY ScenarioFacts DEF LogStep
  <1>2. Advances(s.protocol, lg[r], L) /\ \A j \in DOMAIN L : Entry(s, lg, r, j, L[j])
    BY DEF LogStep
  <1>3. ASSUME NEW i \in Nat, at(lg2, i) PROVE at(lg, i) /\ prop(lg2, i) = prop(lg, i)
    <2> DEFINE p == Proposer(s, i)
    <2>1. p \in Good(s) /\ p \in Replicas /\ i \in DOMAIN lg2[p]
      BY <1>3, ScenarioFacts
    <2>2. i \in DOMAIN lg[p]
      <3>1. CASE p = r
        <4>1. Entry(s, lg, r, i, L[i])
          BY <1>1, <1>2, <2>1, <3>1
        <4>2. \E v : Proposed(s, lg, i, v)
          BY <4>1 DEF Entry
        <4> QED BY <2>1, <4>2 DEF Proposed
      <3>2. CASE p # r
        BY <1>1, <2>1, <3>2
      <3> QED BY <3>1, <3>2
    <2>3. Proposed(s, lg, i, prop(lg, i))
      BY <2>2 DEF Proposed
    <2>4. Proposed(s, lg2, i, prop(lg, i))
      <3> DEFINE v == prop(lg, i)
      <3>1. Proposed(s, lg, i, v)
        BY <2>3
      <3> HIDE DEF v
      <3>2. Proposed(s, lg2, i, v)
        BY <1>1, <1>2, <3>1, ProposedStays
      <3> QED BY <3>2 DEF v
    <2> HIDE DEF lg2
    <2> QED BY <2>1, <2>2, <2>4 DEF Proposed
  <1> HIDE DEF lg2
  <1>4. ASSUME NEW i \in Nat, NEW j \in Nat, at(lg2, i), at(lg2, j)
        PROVE  prop(lg2, i) \in req2 /\ (prop(lg2, i) = prop(lg2, j) => i = j)
    <2>1. at(lg, i) /\ prop(lg2, i) = prop(lg, i) /\ at(lg, j) /\ prop(lg2, j) = prop(lg, j)
      BY <1>3, <1>4
    <2>2. prop(lg, i) \in req /\ (prop(lg, i) = prop(lg, j) => i = j)
      BY <2>1 DEF Distinct
    <2> HIDE DEF at, prop
    <2> QED BY <2>1, <2>2
  <1>5. Distinct(s, lg2, req2)
    BY <1>4 DEF Distinct
  <1> QED BY <1>5 DEF lg2

LEMMA StepExec ==
  ASSUME NEW s \in Scenarios, NEW lg \in [Replicas -> Logs(s.protocol)], NEW n, NEW x,
         ExecOk(s, lg, n, x), NEW r, NEW L, LogStep(s, lg, r, L),
         NEW t \in Seq(Commands), n[r] + Len(t) <= MaxIndex,
         \A k \in 1 .. Len(t) : Cert(s, [lg EXCEPT ![r] = L], n[r] + k - 1, t[k])
  PROVE  ExecOk(s, [lg EXCEPT ![r] = L], [n EXCEPT ![r] = @ + Len(t)], [x EXCEPT ![r] = @ \o t])
  <1> DEFINE lg2 == [lg EXCEPT ![r] = L]
             n2 == [n EXCEPT ![r] = @ + Len(t)]
             x2 == [x EXCEPT ![r] = @ \o t]
  <1>1. r \in Replicas /\ r \in Good(s) /\ DOMAIN lg = Replicas /\ MaxIndex \in Nat /\ Nil \notin Commands
    BY ScenarioFacts, ClusterAssumption DEF LogStep
  <1>2. n \in [Replicas -> 0 .. MaxIndex] /\ x \in [Replicas -> Seq(Commands)] /\ Len(t) \in Nat
    BY DEF ExecOk
  <1>3. n[r] \in Nat /\ x[r] \in Seq(Commands) /\ n[r] = Len(x[r])
    BY <1>1, <1>2 DEF ExecOk
  <1>4. x[r] \o t \in Seq(Commands) /\ Len(x[r] \o t) = Len(x[r]) + Len(t)
    BY <1>3
  <1>5. n2 \in [Replicas -> 0 .. MaxIndex] /\ x2 \in [Replicas -> Seq(Commands)]
    BY <1>1, <1>2, <1>3, <1>4
  <1>6. \A i, c : c # Nil /\ Cert(s, lg, i, c) => Cert(s, lg2, i, c)
    <2>1. Advances(s.protocol, lg[r], L)
      BY DEF LogStep
    <2> QED BY <1>1, <2>1, CertGrows
  <1>7. ASSUME NEW q \in Good(s)
        PROVE  Len(x2[q]) = n2[q] /\ \A k \in 1 .. Len(x2[q]) : Cert(s, lg2, k - 1, x2[q][k])
    <2>1. q \in Replicas
      BY ScenarioFacts
    <2>2. /\ x[q] \in Seq(Commands) /\ Len(x[q]) = n[q] /\ Len(x[q]) \in Nat
          /\ \A k \in 1 .. Len(x[q]) : x[q][k] \in Commands /\ Cert(s, lg, k - 1, x[q][k])
      BY <1>2, <2>1 DEF ExecOk
    <2>3. \A k \in 1 .. Len(x[q]) : Cert(s, lg2, k - 1, x[q][k])
      BY <1>1, <1>6, <2>2
    <2>4. CASE q # r
      <3>1. x2[q] = x[q] /\ n2[q] = n[q]
        BY <1>2, <2>1, <2>4
      <3> HIDE DEF lg2, x2, n2
      <3> QED BY <2>2, <2>3, <3>1
    <2>5. CASE q = r
      <3>1. x2[q] = x[r] \o t /\ n2[q] = n[r] + Len(t)
        BY <1>1, <1>2, <2>5
      <3>2. ASSUME NEW k \in 1 .. Len(x[r] \o t) PROVE Cert(s, lg2, k - 1, (x[r] \o t)[k])
        <4>1. CASE k <= Len(x[r])
          <5>1. (x[r] \o t)[k] = x[r][k] /\ k \in 1 .. Len(x[r])
            BY <1>3, <4>1
          <5> HIDE DEF lg2
          <5> QED BY <2>3, <2>5, <5>1
        <4>2. CASE k > Len(x[r])
          <5> DEFINE j == k - Len(x[r])
          <5>1. (x[r] \o t)[k] = t[j] /\ j \in 1 .. Len(t) /\ n[r] + j - 1 = k - 1
            BY <1>2, <1>3, <1>4, <4>2
          <5>2. Cert(s, lg2, n[r] + j - 1, t[j])
            BY <5>1
          <5> HIDE DEF lg2, j
          <5> QED BY <5>1, <5>2
        <4> QED BY <1>3, <1>4, <4>1, <4>2
      <3> HIDE DEF lg2, x2, n2
      <3> QED BY <1>3, <1>4, <3>1, <3>2
    <2> QED BY <2>4, <2>5
  <1>8. ExecOk(s, lg2, n2, x2)
    <2> HIDE DEF lg2, n2, x2
    <2> QED BY <1>5, <1>7 DEF ExecOk
  <1> QED BY <1>8

\* A step that changes the log of r and executes the commands t keeps all of this.
LEMMA StepOk ==
  ASSUME NEW s, NEW req, NEW lg, NEW n, NEW x, LogsOk(s, req, lg, n, x),
         NEW req2 \in SUBSET Commands, req \subseteq req2,
         NEW r, NEW L, LogStep(s, lg, r, L), NEW t \in Seq(Commands), n[r] + Len(t) <= MaxIndex,
         \A k \in 1 .. Len(t) : Cert(s, [lg EXCEPT ![r] = L], n[r] + k - 1, t[k])
  PROVE  LogsOk(s, req2, [lg EXCEPT ![r] = L], [n EXCEPT ![r] = @ + Len(t)], [x EXCEPT ![r] = @ \o t])
  <1>1. /\ s \in Scenarios /\ lg \in [Replicas -> Logs(s.protocol)]
        /\ EntriesOk(s, lg) /\ Distinct(s, lg, req) /\ ExecOk(s, lg, n, x)
    BY DEF LogsOk
  <1>2. [lg EXCEPT ![r] = L] \in [Replicas -> Logs(s.protocol)]
    BY <1>1 DEF LogStep
  <1>3. EntriesOk(s, [lg EXCEPT ![r] = L])
    BY <1>1, StepEntries
  <1>4. Distinct(s, [lg EXCEPT ![r] = L], req2)
    BY <1>1, StepDistinct
  <1>5. ExecOk(s, [lg EXCEPT ![r] = L], [n EXCEPT ![r] = @ + Len(t)], [x EXCEPT ![r] = @ \o t])
    BY <1>1, StepExec
  <1> QED BY <1>1, <1>2, <1>3, <1>4, <1>5 DEF LogsOk

\* A step that executes nothing.
LEMMA QuietStepOk ==
  ASSUME NEW s, NEW req, NEW lg, NEW n, NEW x, LogsOk(s, req, lg, n, x),
         NEW req2 \in SUBSET Commands, req \subseteq req2,
         NEW r, NEW L, LogStep(s, lg, r, L)
  PROVE  LogsOk(s, req2, [lg EXCEPT ![r] = L], n, x)
  <1>1. /\ s \in Scenarios /\ n \in [Replicas -> 0 .. MaxIndex] /\ x \in [Replicas -> Seq(Commands)]
        /\ MaxIndex \in Nat
    BY ClusterAssumption DEF LogsOk, ExecOk
  <1>2. r \in Replicas /\ n[r] \in 0 .. MaxIndex /\ x[r] \in Seq(Commands)
    BY <1>1, ScenarioFacts DEF LogStep
  <1>3. n[r] + Len(<< >>) <= MaxIndex /\ << >> \in Seq(Commands)
    BY <1>1, <1>2
  <1>4. [n EXCEPT ![r] = @ + Len(<< >>)] = n /\ [x EXCEPT ![r] = @ \o << >>] = x
    BY <1>1, <1>2
  <1>5. \A k \in 1 .. Len(<< >>) : Cert(s, [lg EXCEPT ![r] = L], n[r] + k - 1, << >>[k])
    OBVIOUS
  <1>6. LogsOk(s, req2, [lg EXCEPT ![r] = L], [n EXCEPT ![r] = @ + Len(<< >>)], [x EXCEPT ![r] = @ \o << >>])
    BY <1>3, <1>5, StepOk
  <1> QED BY <1>4, <1>6

-----------------------------------------------------------------------------
(* The execution loop *)

LEMMA LoopEnd ==
  ASSUME NEW i \in 0 .. MaxIndex, NEW P
  PROVE  /\ loopEnd(i, P) \in i .. MaxIndex
         /\ \A m \in i .. loopEnd(i, P) - 1 : m \in P
  <1> DEFINE T == {m \in i .. MaxIndex : m = MaxIndex \/ m \notin P}
  <1>1. MaxIndex \in Nat /\ i \in Nat
    BY ClusterAssumption
  <1>2. T \in SUBSET Nat /\ MaxIndex \in T
    BY <1>1
  <1>3. \E m \in T : \A j \in T : m <= j
    <2> HIDE DEF T
    <2> QED BY <1>2, LeastNumber
  <1>4. loopEnd(i, P) = CHOOSE m \in T : \A j \in T : m <= j
    BY DEF loopEnd, Min
  <1>5. loopEnd(i, P) \in T /\ \A j \in T : loopEnd(i, P) <= j
    <2> HIDE DEF T
    <2> QED BY <1>3, <1>4
  <1> QED BY <1>1, <1>5

\* Executing the instance e leaves e2.
Executes(p, e, e2) ==
    /\ hashOf(p, e2) = hashOf(p, e)
    /\ votedIn(p, e2) <=> votedIn(p, e)
    /\ doneIn(p, e) /\ e2.command \in {Nil, e.command}

\* The instances from .. to - 1 of log L of r are committed, and L2 has them executed.
Loop(s, L, L2, from, to) ==
    /\ L2 \in Logs(s.protocol) /\ DOMAIN L2 = DOMAIN L
    /\ \A i \in DOMAIN L : L2[i] = L[i] \/ Executes(s.protocol, L[i], L2[i])
    /\ \A i \in from .. to - 1 : i \in DOMAIN L /\ doneIn(s.protocol, L[i]) /\ L[i].command \in Commands

LEMMA LoopStep ==
  ASSUME NEW s \in Scenarios, NEW lg \in [Replicas -> Logs(s.protocol)], NEW r, NEW L,
         LogStep(s, lg, r, L), NEW L2, NEW from, NEW to, Loop(s, L, L2, from, to)
  PROVE  /\ LogStep(s, lg, r, L2)
         /\ \A i \in from .. to - 1 : Cert(s, [lg EXCEPT ![r] = L2], i, L[i].command)
  <1> DEFINE lg1 == [lg EXCEPT ![r] = L]
             lg2 == [lg EXCEPT ![r] = L2]
             p == s.protocol
  <1>1. /\ r \in Replicas /\ r \in Good(s) /\ DOMAIN lg = Replicas /\ DOMAIN lg1 = Replicas /\ lg1[r] = L
        /\ lg2 = [lg1 EXCEPT ![r] = L2] /\ Nil \notin Commands
    BY ScenarioFacts, ClusterAssumption DEF LogStep
  <1>2. /\ Advances(p, lg[r], L)
        /\ \A i \in DOMAIN L : Entry(s, lg, r, i, L[i])
        /\ \A i \in DOMAIN L : doneIn(p, L[i]) => Cert(s, lg1, i, hashOf(p, L[i]))
    BY DEF LogStep
  <1>3. /\ L2 \in Logs(p) /\ DOMAIN L2 = DOMAIN L
        /\ \A i \in DOMAIN L : L2[i] = L[i] \/ Executes(p, L[i], L2[i])
    BY DEF Loop
  <1> HIDE DEF p, lg1, lg2
  <1>4. \A i \in DOMAIN L : hashOf(p, L2[i]) = hashOf(p, L[i]) /\ (votedIn(p, L2[i]) <=> votedIn(p, L[i]))
                            /\ (doneIn(p, L2[i]) => doneIn(p, L[i]))
    BY <1>3 DEF Executes
  <1>5. Advances(p, L, L2) /\ Advances(p, lg[r], L2)
    BY <1>2, <1>3, <1>4 DEF Advances
  <1>6. \A i, c : c # Nil /\ Cert(s, lg1, i, c) => Cert(s, lg2, i, c)
    BY <1>1, <1>5, CertGrows DEF p
  <1>7. ASSUME NEW i \in DOMAIN L2 PROVE Entry(s, lg, r, i, L2[i])
    <2>1. Entry(s, lg, r, i, L[i])
      BY <1>2, <1>3
    <2>2. CASE Executes(p, L[i], L2[i])
      BY <1>3, <1>4, <2>1, <2>2 DEF Entry, Executes, p
    <2> QED BY <1>3, <2>1, <2>2
  <1>8. ASSUME NEW i \in DOMAIN L2, doneIn(p, L2[i]) PROVE Cert(s, lg2, i, hashOf(p, L2[i]))
    <2>1. doneIn(p, L[i]) /\ hashOf(p, L2[i]) = hashOf(p, L[i]) /\ i \in DOMAIN L
      BY <1>3, <1>4, <1>8
    <2>2. hashOf(p, L[i]) # Nil /\ Cert(s, lg1, i, hashOf(p, L[i]))
      BY <1>2, <2>1 DEF Entry, p
    <2> QED BY <1>6, <2>1, <2>2
  <1>9. LogStep(s, lg, r, L2)
    BY <1>1, <1>3, <1>5, <1>7, <1>8 DEF LogStep, p, lg2
  <1>10. ASSUME NEW i \in from .. to - 1 PROVE Cert(s, lg2, i, L[i].command)
    <2>1. i \in DOMAIN L /\ doneIn(p, L[i]) /\ L[i].command \in Commands
      BY DEF Loop, p
    <2>2. Entry(s, lg, r, i, L[i]) /\ Cert(s, lg1, i, hashOf(p, L[i]))
      BY <1>2, <2>1
    <2>3. hashOf(p, L[i]) = L[i].command /\ L[i].command # Nil
      BY <1>1, <2>1, <2>2 DEF Entry, p
    <2> QED BY <1>6, <2>2, <2>3
  <1> QED BY <1>9, <1>10 DEF lg2

\* The commands of the instances from .. to - 1 of log L.
CommandsOf(L, from, to) == [k \in 1 .. to - from |-> L[from + k - 1].command]

\* The whole of exec: the commands of the instances that the loop passes are executed.
LEMMA LoopOk ==
  ASSUME NEW s, NEW req, NEW lg, NEW n, NEW x, LogsOk(s, req, lg, n, x),
         NEW req2 \in SUBSET Commands, req \subseteq req2,
         NEW r, NEW L, LogStep(s, lg, r, L), NEW to \in n[r] .. MaxIndex, NEW L2,
         Loop(s, L, L2, n[r], to)
  PROVE  LogsOk(s, req2, [lg EXCEPT ![r] = L2], [n EXCEPT ![r] = to],
                [x EXCEPT ![r] = @ \o CommandsOf(L, n[r], to)])
  <1> DEFINE from == n[r]
             t == [k \in 1 .. to - from |-> L[from + k - 1].command]
             lg2 == [lg EXCEPT ![r] = L2]
  <1>1. /\ s \in Scenarios /\ n \in [Replicas -> 0 .. MaxIndex] /\ x \in [Replicas -> Seq(Commands)]
        /\ MaxIndex \in Nat /\ lg \in [Replicas -> Logs(s.protocol)]
    BY ClusterAssumption DEF LogsOk, ExecOk
  <1>2. r \in Replicas /\ from \in Nat
    BY <1>1, ScenarioFacts DEF LogStep
  <1> HIDE DEF from
  <1>3. to \in from .. MaxIndex /\ Loop(s, L, L2, from, to)
    BY DEF from
  <1>4. LogStep(s, lg, r, L2) /\ \A i \in from .. to - 1 : Cert(s, lg2, i, L[i].command)
    BY <1>1, <1>3, LoopStep
  <1>5. \A k \in 1 .. to - from : from + k - 1 \in from .. to - 1 /\ L[from + k - 1].command \in Commands
    BY <1>1, <1>2, <1>3 DEF Loop
  <1>6. to - from \in Nat /\ t \in [1 .. to - from -> Commands]
    <2>1. to - from \in Nat
      BY <1>1, <1>2, <1>3
    <2>2. \A k \in 1 .. to - from : L[from + k - 1].command \in Commands
      BY <1>5
    <2>3. t \in [1 .. to - from -> Commands]
      BY <2>2
    <2> QED BY <2>1, <2>3
  <1>7. t \in Seq(Commands) /\ Len(t) = to - from
    <2> HIDE DEF t
    <2> QED BY <1>6, FunctionIsSequence
  <1>8. \A k \in 1 .. Len(t) : Cert(s, lg2, from + k - 1, t[k])
    <2> HIDE DEF lg2
    <2> QED BY <1>4, <1>5, <1>7
  <1>9. from + Len(t) = to /\ from + Len(t) <= MaxIndex
    <2> HIDE DEF t
    <2> QED BY <1>1, <1>2, <1>3, <1>7
  <1> HIDE DEF t, lg2
  <1>10. LogsOk(s, req2, [lg EXCEPT ![r] = L2], [n EXCEPT ![r] = @ + Len(t)], [x EXCEPT ![r] = @ \o t])
    BY <1>4, <1>7, <1>8, <1>9, StepOk DEF from, lg2
  <1>11. [n EXCEPT ![r] = @ + Len(t)] = [n EXCEPT ![r] = to]
    BY <1>1, <1>2, <1>9 DEF from
  <1> QED BY <1>10, <1>11 DEF t, from, CommandsOf

-----------------------------------------------------------------------------
(* A proposal *)

\* Replica r puts e, with the new command c, where it has proposed nothing yet.
Proposes(s, lg, r, i, e, c) ==
    /\ i \in Nat /\ r = Proposer(s, i) /\ r \in Good(s) /\ i \notin DOMAIN lg[r]
    /\ e \in Instances(s.protocol) /\ e.command = c /\ c # Nil
    /\ hashOf(s.protocol, e) = c \/ (r = Leader /\ hashOf(s.protocol, e) = Nil)
    /\ ~doneIn(s.protocol, e)

LEMMA PutIs ==
  ASSUME NEW L, NEW i, NEW e
  PROVE  /\ DOMAIN put(L, i, e) = DOMAIN L \cup {i} /\ put(L, i, e)[i] = e
         /\ \A j \in DOMAIN L : j # i => put(L, i, e)[j] = L[j]
  BY DEF put

LEMMA PutType ==
  ASSUME NEW p, NEW L \in Logs(p), NEW i \in Nat, NEW e \in Instances(p)
  PROVE  put(L, i, e) \in Logs(p)
  <1>1. PICK dom \in SUBSET Nat : L \in [dom -> Instances(p)]
    BY DEF Logs
  <1>2. dom \cup {i} \in SUBSET Nat
    OBVIOUS
  <1>3. put(L, i, e) \in [dom \cup {i} -> Instances(p)]
    BY <1>1 DEF put
  <1> QED BY <1>2, <1>3 DEF Logs

LEMMA LogType ==
  ASSUME NEW p, NEW L \in Logs(p)
  PROVE  DOMAIN L \subseteq Nat /\ \A i \in DOMAIN L : L[i] \in Instances(p)
  <1>1. PICK dom \in SUBSET Nat : L \in [dom -> Instances(p)]
    BY DEF Logs
  <1> QED BY <1>1

LEMMA ProposeKeeps ==
  ASSUME NEW s \in Scenarios, NEW lg \in [Replicas -> Logs(s.protocol)], NEW r, NEW i, NEW e, NEW c,
         Proposes(s, lg, r, i, e, c)
  PROVE  LET lg2 == [lg EXCEPT ![r] = put(@, i, e)]
         IN  /\ \A j, d : d # Nil /\ Cert(s, lg, j, d) => Cert(s, lg2, j, d)
             /\ \A j, v : Proposed(s, lg, j, v) => Proposed(s, lg2, j, v)
             /\ Proposed(s, lg2, i, c)
  <1> DEFINE L == put(lg[r], i, e)
             lg2 == [lg EXCEPT ![r] = L]
  <1>1. r \in Replicas /\ r \in Good(s) /\ DOMAIN lg = Replicas /\ lg2[r] = L
    BY ScenarioFacts DEF Proposes
  <1>2. /\ DOMAIN L = DOMAIN lg[r] \cup {i} /\ L[i] = e /\ i \notin DOMAIN lg[r]
        /\ \A j \in DOMAIN lg[r] : L[j] = lg[r][j]
    <2>1. i \notin DOMAIN lg[r]
      BY DEF Proposes
    <2> QED BY <2>1 DEF put
  <1> HIDE DEF L
  <1>3. Advances(s.protocol, lg[r], L)
    BY <1>2 DEF Advances
  <1>4. \A j, d : d # Nil /\ Cert(s, lg, j, d) => Cert(s, lg2, j, d)
    BY <1>1, <1>3, CertGrows
  <1>5. ASSUME NEW j, NEW v, Proposed(s, lg, j, v) PROVE Proposed(s, lg2, j, v)
    <2> DEFINE p == Proposer(s, j)
    <2>1. SUFFICES ASSUME p \in Good(s)
                   PROVE  j \in DOMAIN lg2[p] /\ PropOf(s.protocol, lg2[p][j]) = v
      BY DEF Proposed
    <2>2. j \in DOMAIN lg[p] /\ PropOf(s.protocol, lg[p][j]) = v /\ p \in Replicas
      BY <1>5, <2>1, ScenarioFacts DEF Proposed
    <2>3. j \in DOMAIN lg2[p] /\ lg2[p][j] = lg[p][j]
      BY <1>1, <1>2, <2>2
    <2> HIDE DEF lg2, p
    <2> QED BY <2>2, <2>3
  <1>6. Proposed(s, lg2, i, c)
    <2>1. Proposer(s, i) = r /\ PropOf(s.protocol, e) = c
      BY DEF Proposes, PropOf
    <2> HIDE DEF lg2
    <2> QED BY <1>1, <1>2, <2>1 DEF Proposed
  <1> QED BY <1>4, <1>5, <1>6 DEF L

LEMMA ProposeOk ==
  ASSUME NEW s, NEW req, NEW lg, NEW n, NEW x, LogsOk(s, req, lg, n, x),
         NEW r, NEW i, NEW e, NEW c \in Commands \ req, Proposes(s, lg, r, i, e, c)
  PROVE  LogsOk(s, req \cup {c}, [lg EXCEPT ![r] = put(@, i, e)], n, x)
  <1> DEFINE L == put(lg[r], i, e)
             lg2 == [lg EXCEPT ![r] = put(@, i, e)]
             p == s.protocol
  <1>1. /\ s \in Scenarios /\ lg \in [Replicas -> Logs(p)] /\ req \subseteq Commands
        /\ EntriesOk(s, lg) /\ Distinct(s, lg, req) /\ ExecOk(s, lg, n, x) /\ Nil \notin Commands
    BY ClusterAssumption DEF LogsOk
  <1>2. r \in Replicas /\ r \in Good(s) /\ i \in Nat /\ e \in Instances(p) /\ Good(s) \subseteq Replicas
    BY <1>1, ScenarioFacts DEF Proposes
  <1>3. L \in Logs(p)
    <2>1. lg[r] \in Logs(p)
      BY <1>1, <1>2
    <2> QED BY <1>2, <2>1, PutType
  <1>4. lg2 \in [Replicas -> Logs(p)] /\ lg2[r] = L /\ \A q \in Replicas : q # r => lg2[q] = lg[q]
    BY <1>1, <1>2, <1>3
  <1>5. /\ DOMAIN L = DOMAIN lg[r] \cup {i} /\ L[i] = e /\ i \notin DOMAIN lg[r]
        /\ \A j \in DOMAIN lg[r] : L[j] = lg[r][j]
    <2>1. i \notin DOMAIN lg[r]
      BY DEF Proposes
    <2> QED BY <2>1 DEF put
  <1>6. /\ \A j, d : d # Nil /\ Cert(s, lg, j, d) => Cert(s, lg2, j, d)
        /\ \A j, v : Proposed(s, lg, j, v) => Proposed(s, lg2, j, v)
        /\ Proposed(s, lg2, i, c)
    BY <1>1, ProposeKeeps
  <1>7. /\ e.command = c /\ c # Nil /\ ~doneIn(p, e) /\ Proposer(s, i) = r
        /\ hashOf(p, e) = c \/ (r = Leader /\ hashOf(p, e) = Nil)
    BY DEF Proposes
  <1> HIDE DEF L, lg2, p
  <1>8. EntriesOk(s, lg2)
    <2> SUFFICES ASSUME NEW q \in Good(s), NEW j \in DOMAIN lg2[q]
                 PROVE  /\ Entry(s, lg2, q, j, lg2[q][j])
                        /\ doneIn(p, lg2[q][j]) => Cert(s, lg2, j, hashOf(p, lg2[q][j]))
      BY DEF EntriesOk, p
    <2>1. CASE q = r /\ j = i
      <3>1. lg2[q][j] = e
        BY <1>4, <1>5, <2>1
      <3>2. Entry(s, lg2, q, j, e)
        BY <1>6, <1>7, <2>1 DEF Entry, p
      <3> QED BY <1>7, <3>1, <3>2
    <2>2. CASE ~(q = r /\ j = i)
      <3>1. j \in DOMAIN lg[q] /\ lg2[q][j] = lg[q][j]
        BY <1>2, <1>4, <1>5, <2>2
      <3>2. /\ Entry(s, lg, q, j, lg[q][j])
            /\ doneIn(p, lg[q][j]) => Cert(s, lg, j, hashOf(p, lg[q][j]))
        BY <1>1, <3>1 DEF EntriesOk, p
      <3>3. Entry(s, lg2, q, j, lg[q][j])
        BY <1>6, <3>2 DEF Entry
      <3>4. doneIn(p, lg[q][j]) => hashOf(p, lg[q][j]) # Nil
        BY <3>2 DEF Entry, p
      <3> QED BY <1>6, <3>1, <3>2, <3>3, <3>4
    <2> QED BY <2>1, <2>2
  <1>9. Distinct(s, lg2, req \cup {c})
    <2> DEFINE at(l, j) == Proposer(s, j) \in Good(s) /\ j \in DOMAIN l[Proposer(s, j)]
               prop(l, j) == PropOf(p, l[Proposer(s, j)][j])
    <2>1. ASSUME NEW j \in Nat, at(lg2, j), j # i PROVE at(lg, j) /\ prop(lg2, j) = prop(lg, j)
      <3>1. Proposer(s, j) \in Replicas
        BY <1>2, <2>1
      <3> QED BY <1>4, <1>5, <2>1, <3>1
    <2>2. prop(lg2, i) = c
      BY <1>4, <1>5, <1>7 DEF PropOf
    <2>3. ASSUME NEW j \in Nat, NEW k \in Nat, at(lg2, j), at(lg2, k)
          PROVE  prop(lg2, j) \in req \cup {c} /\ (prop(lg2, j) = prop(lg2, k) => j = k)
      <3>1. \A m \in {j, k} : m # i => prop(lg2, m) \in req
        <4>1. \A m \in Nat : at(lg, m) => prop(lg, m) \in req
          BY <1>1 DEF Distinct, p
        <4> HIDE DEF at, prop
        <4> QED BY <2>1, <2>3, <4>1
      <3>2. ASSUME j # i, k # i, prop(lg2, j) = prop(lg2, k) PROVE j = k
        <4>1. at(lg, j) /\ at(lg, k) /\ prop(lg, j) = prop(lg, k)
          <5> HIDE DEF at, prop
          <5> QED BY <2>1, <2>3, <3>2
        <4> QED BY <1>1, <4>1 DEF Distinct, p
      <3> HIDE DEF at, prop
      <3> QED BY <2>2, <3>1, <3>2
    <2> QED BY <2>3 DEF Distinct, p
  <1>10. ExecOk(s, lg2, n, x)
    <2>1. \A q \in Good(s) : \A k \in 1 .. Len(x[q]) : x[q][k] \in Commands
      BY <1>1, <1>2 DEF ExecOk
    <2> QED BY <1>1, <1>6, <2>1 DEF ExecOk
  <1> QED BY <1>1, <1>4, <1>8, <1>9, <1>10 DEF LogsOk, lg2, p

-----------------------------------------------------------------------------
(* The messages on their way and the callbacks that wait *)

\* What may be in a channel: proposals, and certificates for what has enough votes.
OkMsgs(s, lg) ==
    {m \in [type : {"Preprepare", "Prepare", "Commit", "CommitSlow"}, index : Nat, val : Commands] :
        /\ Proposed(s, lg, m.index, m.val)
        /\ m.type \in {"Commit", "CommitSlow"} => Cert(s, lg, m.index, m.val)
        /\ s.protocol \in {"linhybster", "minbft", "hybster"} => Leader \in Good(s)
        /\ s.protocol \in {"minbft", "hybster"} => Leader \in Voters(s, lg, m.index, m.val)}

\* What may wait at r: the check of a certificate, an aggregation, a vote of another replica.
VerifyJobs(s, lg, r) ==
    {j \in [type : {"Verify"}, index : Nat] :
        /\ j.index \in DOMAIN lg[r] /\ hashOf(s.protocol, lg[r][j.index]) # Nil
        /\ Cert(s, lg, j.index, hashOf(s.protocol, lg[r][j.index]))}

AggregateJobs(s, lg, r) ==
    {j \in [type : {"Aggregate", "AggregateSlow"}, index : Nat, hash : Commands] :
        /\ r = Leader /\ j.index \in DOMAIN lg[r] /\ hashOf(s.protocol, lg[r][j.index]) = j.hash
        /\ j.type = "AggregateSlow" \/ s.protocol # "sbftslow" => Cert(s, lg, j.index, j.hash)}

VoteJobs(s, lg) ==
    {j \in [type : {"Commit"}, from : Replicas, index : Nat, hash : Commands] :
        j.from \in Voters(s, lg, j.index, j.hash)}

OkJobs(s, lg, r) == VerifyJobs(s, lg, r) \cup AggregateJobs(s, lg, r) \cup VoteJobs(s, lg)

NetOk(s, lg, ch, jb) ==
    /\ ch \in [Replicas -> Seq(OkMsgs(s, lg))]
    /\ DOMAIN jb = Replicas /\ \A r \in Replicas : DOMAIN jb[r] \subseteq OkJobs(s, lg, r)

\* Nothing of this is lost when the log lg becomes lg2.
Keeps(s, lg, lg2) ==
    /\ \A i, c : c # Nil => Voters(s, lg, i, c) \subseteq Voters(s, lg2, i, c)
    /\ \A i, v : Proposed(s, lg, i, v) => Proposed(s, lg2, i, v)
    /\ \A r \in Replicas : \A i \in DOMAIN lg[r] :
          /\ i \in DOMAIN lg2[r]
          /\ hashOf(s.protocol, lg[r][i]) # Nil =>
                hashOf(s.protocol, lg2[r][i]) = hashOf(s.protocol, lg[r][i])

LEMMA StepKeeps ==
  ASSUME NEW s \in Scenarios, NEW lg \in [Replicas -> Logs(s.protocol)], NEW r, NEW L, LogStep(s, lg, r, L)
  PROVE  Keeps(s, lg, [lg EXCEPT ![r] = L])
  <1> DEFINE lg2 == [lg EXCEPT ![r] = L]
  <1>1. r \in Replicas /\ r \in Good(s) /\ DOMAIN lg = Replicas
    BY ScenarioFacts DEF LogStep
  <1>2. Advances(s.protocol, lg[r], L) /\ \A j \in DOMAIN L : Entry(s, lg, r, j, L[j])
    BY DEF LogStep
  <1>3. \A i, c : c # Nil => Voters(s, lg, i, c) \subseteq Voters(s, lg2, i, c)
    BY <1>1, <1>2, VotersGrow
  <1>4. \A i, v : Proposed(s, lg, i, v) => Proposed(s, lg2, i, v)
    BY <1>1, <1>2, ProposedStays
  <1>5. ASSUME NEW q \in Replicas, NEW i \in DOMAIN lg[q]
        PROVE  /\ i \in DOMAIN lg2[q]
               /\ hashOf(s.protocol, lg[q][i]) # Nil =>
                     hashOf(s.protocol, lg2[q][i]) = hashOf(s.protocol, lg[q][i])
    <2>1. CASE q = r
      <3>1. lg2[q] = L
        BY <1>1, <2>1
      <3> HIDE DEF lg2
      <3> QED BY <1>2, <2>1, <3>1 DEF Advances
    <2>2. CASE q # r
      <3>1. lg2[q] = lg[q]
        BY <1>1, <2>2
      <3> HIDE DEF lg2
      <3> QED BY <3>1
    <2> QED BY <2>1, <2>2
  <1> HIDE DEF lg2
  <1>6. Keeps(s, lg, lg2)
    BY <1>3, <1>4, <1>5 DEF Keeps
  <1> QED BY <1>6 DEF lg2

LEMMA ProposeKeepsAll ==
  ASSUME NEW s \in Scenarios, NEW lg \in [Replicas -> Logs(s.protocol)], NEW r, NEW i, NEW e, NEW c,
         Proposes(s, lg, r, i, e, c)
  PROVE  /\ Keeps(s, lg, [lg EXCEPT ![r] = put(@, i, e)])
         /\ Proposed(s, [lg EXCEPT ![r] = put(@, i, e)], i, c)
  <1> DEFINE L == put(lg[r], i, e)
             lg2 == [lg EXCEPT ![r] = put(@, i, e)]
  <1>1. r \in Replicas /\ r \in Good(s) /\ DOMAIN lg = Replicas /\ lg2 = [lg EXCEPT ![r] = L]
    BY ScenarioFacts DEF Proposes
  <1>2. /\ i \in DOMAIN L /\ DOMAIN lg[r] \subseteq DOMAIN L
        /\ \A j \in DOMAIN lg[r] : L[j] = lg[r][j]
    <2>1. i \notin DOMAIN lg[r]
      BY DEF Proposes
    <2> QED BY <2>1 DEF put
  <1>3. Advances(s.protocol, lg[r], L)
    <2> HIDE DEF L
    <2> QED BY <1>2 DEF Advances
  <1>4. \A j, d : d # Nil => Voters(s, lg, j, d) \subseteq Voters(s, lg2, j, d)
    <2> HIDE DEF L, lg2
    <2> QED BY <1>1, <1>3, VotersGrow
  <1>5. (\A j, v : Proposed(s, lg, j, v) => Proposed(s, lg2, j, v)) /\ Proposed(s, lg2, i, c)
    BY ProposeKeeps
  <1>6. \A q \in Replicas : \A j \in DOMAIN lg[q] : j \in DOMAIN lg2[q] /\ lg2[q][j] = lg[q][j]
    <2> HIDE DEF L, lg2
    <2> QED BY <1>1, <1>2
  <1> HIDE DEF L, lg2
  <1>7. Keeps(s, lg, lg2)
    BY <1>4, <1>5, <1>6 DEF Keeps
  <1> QED BY <1>5, <1>7 DEF lg2

LEMMA OkMsgsGrow ==
  ASSUME NEW s \in Scenarios, NEW lg, NEW lg2, Keeps(s, lg, lg2)
  PROVE  OkMsgs(s, lg) \subseteq OkMsgs(s, lg2)
  <1> SUFFICES ASSUME NEW m \in OkMsgs(s, lg) PROVE m \in OkMsgs(s, lg2)
    OBVIOUS
  <1>1. m \in [type : {"Preprepare", "Prepare", "Commit", "CommitSlow"}, index : Nat, val : Commands] /\ Nil \notin Commands
    BY ClusterAssumption DEF OkMsgs
  <1>2. m.val \in Commands /\ m.val # Nil
    BY <1>1
  <1>3. Voters(s, lg, m.index, m.val) \subseteq Voters(s, lg2, m.index, m.val)
    BY <1>2 DEF Keeps
  <1>4. Proposed(s, lg2, m.index, m.val)
    BY DEF OkMsgs, Keeps
  <1>5. Cert(s, lg, m.index, m.val) => Cert(s, lg2, m.index, m.val)
    BY <1>3, CertMore
  <1> QED BY <1>1, <1>3, <1>4, <1>5 DEF OkMsgs

LEMMA OkJobsGrow ==
  ASSUME NEW s \in Scenarios, NEW lg, NEW lg2, Keeps(s, lg, lg2), NEW r \in Replicas
  PROVE  OkJobs(s, lg, r) \subseteq OkJobs(s, lg2, r)
  <1>1. \A i, c : c # Nil /\ Cert(s, lg, i, c) => Cert(s, lg2, i, c)
    BY CertMore DEF Keeps
  <1>2. Nil \notin Commands
    BY ClusterAssumption
  <1>3. ASSUME NEW j \in VerifyJobs(s, lg, r) PROVE j \in VerifyJobs(s, lg2, r)
    <2>1. /\ j \in [type : {"Verify"}, index : Nat]
          /\ j.index \in DOMAIN lg[r] /\ hashOf(s.protocol, lg[r][j.index]) # Nil
          /\ Cert(s, lg, j.index, hashOf(s.protocol, lg[r][j.index]))
      BY DEF VerifyJobs
    <2>2. j.index \in DOMAIN lg2[r] /\ hashOf(s.protocol, lg2[r][j.index]) = hashOf(s.protocol, lg[r][j.index])
      BY <2>1 DEF Keeps
    <2>3. Cert(s, lg2, j.index, hashOf(s.protocol, lg2[r][j.index]))
      BY <1>1, <2>1, <2>2
    <2> QED BY <2>1, <2>2, <2>3 DEF VerifyJobs
  <1>4. ASSUME NEW j \in AggregateJobs(s, lg, r) PROVE j \in AggregateJobs(s, lg2, r)
    <2>1. /\ j \in [type : {"Aggregate", "AggregateSlow"}, index : Nat, hash : Commands]
          /\ r = Leader /\ j.index \in DOMAIN lg[r] /\ hashOf(s.protocol, lg[r][j.index]) = j.hash
          /\ j.type = "AggregateSlow" \/ s.protocol # "sbftslow" => Cert(s, lg, j.index, j.hash)
      BY DEF AggregateJobs
    <2>2. j.hash \in Commands /\ j.hash # Nil
      BY <1>2, <2>1
    <2>3. j.index \in DOMAIN lg2[r] /\ hashOf(s.protocol, lg2[r][j.index]) = j.hash
      BY <2>1, <2>2 DEF Keeps
    <2>4. j.type = "AggregateSlow" \/ s.protocol # "sbftslow" => Cert(s, lg2, j.index, j.hash)
      BY <1>1, <2>1, <2>2
    <2> QED BY <2>1, <2>3, <2>4 DEF AggregateJobs
  <1>5. ASSUME NEW j \in VoteJobs(s, lg) PROVE j \in VoteJobs(s, lg2)
    <2>1. /\ j \in [type : {"Commit"}, from : Replicas, index : Nat, hash : Commands]
          /\ j.from \in Voters(s, lg, j.index, j.hash)
      BY DEF VoteJobs
    <2>2. j.hash \in Commands /\ j.hash # Nil
      BY <1>2, <2>1
    <2>3. j.from \in Voters(s, lg2, j.index, j.hash)
      BY <2>1, <2>2 DEF Keeps
    <2> QED BY <2>1, <2>3 DEF VoteJobs
  <1> QED BY <1>3, <1>4, <1>5 DEF OkJobs

LEMMA SeqOfMore ==
  ASSUME NEW A, NEW B, A \subseteq B, NEW t \in Seq(A) PROVE t \in Seq(B)
  OBVIOUS

LEMMA NetGrows ==
  ASSUME NEW s \in Scenarios, NEW lg, NEW lg2, Keeps(s, lg, lg2), NEW ch, NEW jb, NetOk(s, lg, ch, jb)
  PROVE  NetOk(s, lg2, ch, jb)
  <1> DEFINE A == OkMsgs(s, lg)
             B == OkMsgs(s, lg2)
  <1>1. A \subseteq B
    BY OkMsgsGrow
  <1>2. ch \in [Replicas -> Seq(A)]
    BY DEF NetOk
  <1> HIDE DEF A, B
  <1>3. \A r \in Replicas : ch[r] \in Seq(B)
    BY <1>1, <1>2, SeqOfMore
  <1>4. ch \in [Replicas -> Seq(B)]
    BY <1>2, <1>3
  <1>5. \A r \in Replicas : DOMAIN jb[r] \subseteq OkJobs(s, lg2, r)
    BY OkJobsGrow DEF NetOk
  <1> QED BY <1>4, <1>5 DEF NetOk, B

-----------------------------------------------------------------------------
(* What the helpers of module Cluster do to them *)

LEMMA SendOk ==
  ASSUME NEW s, NEW lg, NEW jb, NetOk(s, lg, chan, jb), NEW to, NEW m \in OkMsgs(s, lg)
  PROVE  NetOk(s, lg, sendTo(to, m), jb)
  <1> DEFINE A == OkMsgs(s, lg)
  <1>1. chan \in [Replicas -> Seq(A)] /\ m \in A
    BY DEF NetOk
  <1> HIDE DEF A
  <1>2. sendTo(to, m) \in [Replicas -> Seq(A)]
    BY <1>1 DEF sendTo
  <1> QED BY <1>2 DEF NetOk, A

\* A message that r has received is one of those, and can be taken off.
LEMMA ReceivedOk ==
  ASSUME NEW s, NEW lg, NEW jb, NetOk(s, lg, chan, jb), NEW r \in Replicas, NEW type,
         NEW m \in received(r, type)
  PROVE  /\ m \in OkMsgs(s, lg) /\ m.type = type /\ r \in Alive
         /\ NetOk(s, lg, popped(r), jb)
  <1> DEFINE A == OkMsgs(s, lg)
  <1>1. chan \in [Replicas -> Seq(A)] /\ chan[r] \in Seq(A)
    BY DEF NetOk
  <1> HIDE DEF A
  <1>2. chan[r] # << >> /\ m = Head(chan[r]) /\ m.type = type /\ r \in Alive
    BY DEF received
  <1>3. Head(chan[r]) \in A /\ Tail(chan[r]) \in Seq(A)
    BY <1>1, <1>2
  <1>4. popped(r) \in [Replicas -> Seq(A)]
    BY <1>1, <1>3 DEF popped
  <1> QED BY <1>2, <1>3, <1>4 DEF NetOk, A

LEMMA BagAdd ==
  ASSUME NEW B, NEW j PROVE DOMAIN withOne(B, j) = DOMAIN B \cup {j}
  BY DEF withOne

LEMMA BagDrop ==
  ASSUME NEW B, NEW j PROVE DOMAIN withoutOne(B, j) \subseteq DOMAIN B
  BY DEF withoutOne

LEMMA BagNone == DOMAIN noJobs = {}
  BY DEF noJobs

LEMMA WithJobOk ==
  ASSUME NEW s, NEW lg, NEW ch, NetOk(s, lg, ch, jobs), NEW r \in Replicas, NEW j \in OkJobs(s, lg, r)
  PROVE  NetOk(s, lg, ch, withJob(r, j))
  <1>1. DOMAIN jobs = Replicas /\ \A q \in Replicas : DOMAIN jobs[q] \subseteq OkJobs(s, lg, q)
    BY DEF NetOk
  <1>2. /\ DOMAIN withJob(r, j) = Replicas
        /\ withJob(r, j)[r] = withOne(jobs[r], j)
        /\ \A q \in Replicas : q # r => withJob(r, j)[q] = jobs[q]
    BY <1>1 DEF withJob
  <1>3. DOMAIN withJob(r, j)[r] = DOMAIN jobs[r] \cup {j}
    BY <1>2, BagAdd
  <1>4. \A q \in Replicas : DOMAIN withJob(r, j)[q] \subseteq OkJobs(s, lg, q)
    BY <1>1, <1>2, <1>3
  <1> QED BY <1>2, <1>4 DEF NetOk

LEMMA WithoutJobOk ==
  ASSUME NEW s, NEW lg, NEW ch, NetOk(s, lg, ch, jobs), NEW r \in Replicas, NEW j
  PROVE  NetOk(s, lg, ch, withoutJob(r, j))
  <1>1. DOMAIN jobs = Replicas /\ \A q \in Replicas : DOMAIN jobs[q] \subseteq OkJobs(s, lg, q)
    BY DEF NetOk
  <1>2. /\ DOMAIN withoutJob(r, j) = Replicas
        /\ withoutJob(r, j)[r] = withoutOne(jobs[r], j)
        /\ \A q \in Replicas : q # r => withoutJob(r, j)[q] = jobs[q]
    BY <1>1 DEF withoutJob
  <1>3. DOMAIN withoutJob(r, j)[r] \subseteq DOMAIN jobs[r]
    BY <1>2, BagDrop
  <1>4. \A q \in Replicas : DOMAIN withoutJob(r, j)[q] \subseteq OkJobs(s, lg, q)
    BY <1>1, <1>2, <1>3
  <1> QED BY <1>2, <1>4 DEF NetOk

LEMMA PendingOk ==
  ASSUME NEW s, NEW lg, NEW ch, NetOk(s, lg, ch, jobs), NEW r \in Replicas, NEW type,
         NEW j \in pending(r, type)
  PROVE  j \in OkJobs(s, lg, r) /\ j.type = type /\ r \in Alive
  BY DEF NetOk, pending

LEMMA StopOk ==
  ASSUME NEW s, NEW lg, NetOk(s, lg, chan, jobs), NEW r \in Replicas, stop(r)
  PROVE  NetOk(s, lg, chan', jobs')
  <1> DEFINE A == OkMsgs(s, lg)
  <1>1. chan \in [Replicas -> Seq(A)]
    BY DEF NetOk
  <1> HIDE DEF A
  <1>2. chan' = [chan EXCEPT ![r] = << >>]
    BY DEF stop
  <1>3. chan' \in [Replicas -> Seq(A)]
    BY <1>1, <1>2
  <1>4. DOMAIN jobs = Replicas /\ \A q \in Replicas : DOMAIN jobs[q] \subseteq OkJobs(s, lg, q)
    BY DEF NetOk
  <1>5. /\ DOMAIN jobs' = Replicas /\ jobs'[r] = noJobs
        /\ \A q \in Replicas : q # r => jobs'[q] = jobs[q]
    BY <1>4 DEF stop
  <1>6. \A q \in Replicas : DOMAIN jobs'[q] \subseteq OkJobs(s, lg, q)
    BY <1>4, <1>5, BagNone
  <1> QED BY <1>3, <1>5, <1>6 DEF NetOk, A

-----------------------------------------------------------------------------
(* The invariant that the protocols share *)

\* The leader's next index is behind all that it has proposed.
FreshOk(s, lg, ix) ==
    /\ ix \in [Replicas -> Nat]
    /\ Leader \in Good(s) /\ s.protocol # "mirbft" => \A i \in DOMAIN lg[Leader] : i < ix[Leader]

\* In the protocols whose leader cannot lie nothing happens without a correct one.
LeaderFine(s) == s.protocol \in {"linhybster", "minbft", "hybster"} => Leader \in Good(s)
LeaderOk(s, lg) == \A r \in Good(s) : DOMAIN lg[r] # {} => LeaderFine(s)

\* Hybster's replicas log the votes one by one.
QuorumsOk(s, lg) ==
    s.protocol = "hybster" => \A r \in Good(s) : \A i \in DOMAIN lg[r] :
        lg[r][i].hash # Nil /\ lg[r][i].quorum \subseteq Voters(s, lg, i, lg[r][i].hash)

\* Results come from faulty replicas or from those that have executed the command.
AnswersOk(s, x, res, ans) ==
    /\ res \in [Commands -> SUBSET Replicas] /\ ans \in [Commands -> Nat]
    /\ \A c \in Commands : \A r \in res[c] : r \in s.faulty \/ (r \in Good(s) /\ c \in Range(x[r]))
    /\ \A c \in Commands : ans[c] > 0 => \E r \in Good(s) : c \in Range(x[r])

Core ==
    /\ LogsOk(cfg, requested, log, execIdx, executed)
    /\ FreshOk(cfg, log, index) /\ LeaderOk(cfg, log)
    /\ AnswersOk(cfg, executed, results, answered)

ClusterInv == Core /\ NetOk(cfg, log, chan, jobs) /\ QuorumsOk(cfg, log)

\* What a handler leaves alone, or only adds to.
Frame ==
    /\ cfg' = cfg /\ results' = results /\ answered' = answered
    /\ requested \subseteq requested' /\ requested' \subseteq Commands
    /\ index' \in [Replicas -> Nat] /\ index'[Leader] >= index[Leader]

LEMMA CoreFacts ==
  ASSUME Core
  PROVE  /\ cfg \in Scenarios /\ log \in [Replicas -> Logs(cfg.protocol)]
         /\ DOMAIN log = Replicas /\ Correct = Good(cfg) /\ Correct \subseteq Replicas
         /\ executed \in [Replicas -> Seq(Commands)] /\ execIdx \in [Replicas -> 0 .. MaxIndex]
         /\ requested \subseteq Commands /\ index \in [Replicas -> Nat] /\ Leader \in Replicas
         /\ Nil \notin Commands /\ MaxIndex \in Nat
  <1>1. cfg \in Scenarios
    BY DEF Core, LogsOk
  <1>2. Correct = Good(cfg) /\ Good(cfg) \subseteq Replicas
    BY <1>1, ScenarioFacts DEF Correct, Good
  <1> QED BY <1>1, <1>2, ClusterAssumption DEF Core, LogsOk, ExecOk, FreshOk

LEMMA AnswersGrow ==
  ASSUME NEW s, NEW x, NEW x2, NEW res, NEW ans, AnswersOk(s, x, res, ans),
         \A r \in Good(s) : Range(x[r]) \subseteq Range(x2[r])
  PROVE  AnswersOk(s, x2, res, ans)
  BY DEF AnswersOk

LEMMA RangeGrows ==
  ASSUME NEW t \in Seq(Commands), NEW u \in Seq(Commands) PROVE Range(t) \subseteq Range(t \o u)
  <1>1. \A k \in DOMAIN t : k \in DOMAIN (t \o u) /\ (t \o u)[k] = t[k]
    OBVIOUS
  <1> QED BY <1>1 DEF Range

LEMMA FreshStep ==
  ASSUME NEW s \in Scenarios, NEW lg \in [Replicas -> Logs(s.protocol)], NEW r, NEW L, LogStep(s, lg, r, L),
         NEW ix, FreshOk(s, lg, ix), NEW ix2 \in [Replicas -> Nat], ix2[Leader] >= ix[Leader]
  PROVE  FreshOk(s, [lg EXCEPT ![r] = L], ix2)
  <1> DEFINE lg2 == [lg EXCEPT ![r] = L]
  <1>1. SUFFICES ASSUME Leader \in Good(s), s.protocol # "mirbft", NEW i \in DOMAIN lg2[Leader]
                 PROVE  i < ix2[Leader]
    BY DEF FreshOk
  <1>2. /\ r \in Replicas /\ Leader \in Replicas /\ DOMAIN lg = Replicas /\ Proposer(s, i) = Leader
        /\ DOMAIN lg[Leader] \subseteq Nat
    <2>1. r \in Replicas /\ Leader \in Replicas /\ DOMAIN lg = Replicas /\ Proposer(s, i) = Leader
      BY <1>1, ScenarioFacts DEF LogStep, Proposer
    <2> QED BY <2>1, LogType
  <1>3. i \in DOMAIN lg[Leader]
    <2>1. CASE r = Leader
      <3>1. Entry(s, lg, r, i, L[i])
        BY <1>1, <1>2, <2>1 DEF LogStep
      <3>2. \E v : Proposed(s, lg, i, v)
        BY <3>1 DEF Entry
      <3> QED BY <1>1, <1>2, <3>2 DEF Proposed
    <2>2. CASE r # Leader
      BY <1>1, <1>2, <2>2
    <2> QED BY <2>1, <2>2
  <1>4. i \in Nat /\ i < ix[Leader] /\ ix[Leader] \in Nat /\ ix2[Leader] \in Nat
    BY <1>1, <1>2, <1>3 DEF FreshOk
  <1> QED BY <1>4

LEMMA LeaderStep ==
  ASSUME NEW s, LeaderFine(s), NEW lg PROVE LeaderOk(s, lg)
  BY DEF LeaderOk

\* A handler that stores L as the log of r.
LEMMA StoreStep ==
  ASSUME Core, Frame, NEW r, NEW L, LogStep(cfg, log, r, L), LeaderFine(cfg),
         log' = [log EXCEPT ![r] = L], UNCHANGED <<execIdx, executed>>
  PROVE  Core' /\ Keeps(cfg, log, log')
  <1>1. cfg \in Scenarios /\ log \in [Replicas -> Logs(cfg.protocol)]
    BY CoreFacts
  <1>2. LogsOk(cfg, requested', log', execIdx, executed)
    <2>1. LogsOk(cfg, requested, log, execIdx, executed) /\ requested' \in SUBSET Commands
          /\ requested \subseteq requested'
      BY DEF Core, Frame
    <2>2. LogsOk(cfg, requested', [log EXCEPT ![r] = L], execIdx, executed)
      BY <2>1, QuietStepOk
    <2> QED BY <2>2
  <1>3. FreshOk(cfg, log', index')
    <2>1. FreshOk(cfg, log, index) /\ index' \in [Replicas -> Nat] /\ index'[Leader] >= index[Leader]
      BY DEF Core, Frame
    <2>2. FreshOk(cfg, [log EXCEPT ![r] = L], index')
      BY <1>1, <2>1, FreshStep
    <2> QED BY <2>2
  <1>4. LeaderOk(cfg, log')
    BY LeaderStep
  <1>5. AnswersOk(cfg, executed, results, answered)
    BY DEF Core
  <1>6. Keeps(cfg, log, log')
    BY <1>1, StepKeeps
  <1>7. cfg' = cfg /\ results' = results /\ answered' = answered
    BY DEF Frame
  <1> QED BY <1>2, <1>3, <1>4, <1>5, <1>6, <1>7 DEF Core

\* A handler that stores L as the log of r and then calls exec.
LEMMA ExecStep ==
  ASSUME Core, Frame, NEW r, NEW L, LogStep(cfg, log, r, L), LeaderFine(cfg), NEW L2,
         NEW to \in execIdx[r] .. MaxIndex, Loop(cfg, L, L2, execIdx[r], to),
         log' = [log EXCEPT ![r] = L2], execIdx' = [execIdx EXCEPT ![r] = to],
         executed' = [executed EXCEPT ![r] = @ \o [k \in 1 .. to - execIdx[r] |-> L[execIdx[r] + k - 1].command]]
  PROVE  Core' /\ Keeps(cfg, log, log')
  <1> DEFINE t == [k \in 1 .. to - execIdx[r] |-> L[execIdx[r] + k - 1].command]
             x2 == [executed EXCEPT ![r] = @ \o t]
  <1>1. cfg \in Scenarios /\ log \in [Replicas -> Logs(cfg.protocol)]
    BY CoreFacts
  <1>2. LogsOk(cfg, requested', [log EXCEPT ![r] = L2], [execIdx EXCEPT ![r] = to], x2)
    <2>1. LogsOk(cfg, requested, log, execIdx, executed) /\ requested' \in SUBSET Commands
          /\ requested \subseteq requested'
      BY DEF Core, Frame
    <2> DEFINE req2 == requested'
               n == execIdx
               x == executed
               lg == log
               s == cfg
    <2>2. /\ LogsOk(s, requested, lg, n, x) /\ req2 \in SUBSET Commands /\ requested \subseteq req2
          /\ LogStep(s, lg, r, L) /\ to \in n[r] .. MaxIndex /\ Loop(s, L, L2, n[r], to)
      BY <2>1
    <2> HIDE DEF req2, n, x, lg, s
    <2>3. LogsOk(s, req2, [lg EXCEPT ![r] = L2], [n EXCEPT ![r] = to],
                 [x EXCEPT ![r] = @ \o CommandsOf(L, n[r], to)])
      BY <2>2, LoopOk
    <2> QED BY <2>3 DEF req2, n, x, lg, s, CommandsOf
  <1>3. LogStep(cfg, log, r, L2)
    BY <1>1, LoopStep
  <1>4. FreshOk(cfg, log', index')
    <2>1. FreshOk(cfg, log, index) /\ index' \in [Replicas -> Nat] /\ index'[Leader] >= index[Leader]
      BY DEF Core, Frame
    <2>2. FreshOk(cfg, [log EXCEPT ![r] = L2], index')
      BY <1>1, <1>3, <2>1, FreshStep
    <2> QED BY <2>2
  <1>5. LeaderOk(cfg, log')
    BY LeaderStep
  <1>6. AnswersOk(cfg, x2, results, answered)
    <2>1. executed \in [Replicas -> Seq(Commands)] /\ r \in Replicas /\ Good(cfg) \subseteq Replicas
      BY CoreFacts DEF LogStep
    <2>2. \A k \in 1 .. to - execIdx[r] : L[execIdx[r] + k - 1].command \in Commands
      <3>1. execIdx[r] \in Nat /\ to \in Nat /\ execIdx[r] <= to
        BY <2>1, CoreFacts
      <3>2. \A i \in execIdx[r] .. to - 1 : L[i].command \in Commands
        BY DEF Loop
      <3> QED BY <3>1, <3>2
    <2>3. t \in Seq(Commands)
      <3>1. to - execIdx[r] \in Nat
        BY <2>1, CoreFacts
      <3>2. t \in [1 .. to - execIdx[r] -> Commands]
        BY <2>2
      <3> HIDE DEF t
      <3> QED BY <3>1, <3>2, FunctionIsSequence
    <2> HIDE DEF t
    <2>4. \A q \in Good(cfg) : Range(executed[q]) \subseteq Range(x2[q])
      <3>1. Range(executed[r]) \subseteq Range(executed[r] \o t)
        BY <2>1, <2>3, RangeGrows
      <3>2. x2[r] = executed[r] \o t /\ \A q \in Replicas : q # r => x2[q] = executed[q]
        BY <2>1
      <3> HIDE DEF x2
      <3> QED BY <2>1, <3>1, <3>2
    <2>5. AnswersOk(cfg, executed, results, answered)
      BY DEF Core
    <2> HIDE DEF x2
    <2> QED BY <2>4, <2>5, AnswersGrow
  <1>7. Keeps(cfg, log, log')
    BY <1>1, <1>3, StepKeeps
  <1>8. cfg' = cfg /\ results' = results /\ answered' = answered /\ executed' = x2
    BY DEF Frame
  <1> HIDE DEF x2
  <1> QED BY <1>2, <1>4, <1>5, <1>6, <1>7, <1>8 DEF Core

\* exec, whose loop goes on while it finds instances of P and turns each into E[i].
Passes(s, L, P, E) ==
    P \subseteq DOMAIN L /\ \A i \in P :
        /\ doneIn(s.protocol, L[i]) /\ L[i].command \in Commands
        /\ E[i] \in Instances(s.protocol) /\ Executes(s.protocol, L[i], E[i])

Passed(L, E, from, to) == [i \in DOMAIN L |-> IF i \in from .. to - 1 THEN E[i] ELSE L[i]]

LEMMA ExecIs ==
  ASSUME Core, Frame, NEW r, NEW L, LogStep(cfg, log, r, L), LeaderFine(cfg),
         NEW P, NEW E, Passes(cfg, L, P, E), NEW to, to = loopEnd(execIdx[r], P),
         log' = [log EXCEPT ![r] = Passed(L, E, execIdx[r], to)],
         execIdx' = [execIdx EXCEPT ![r] = to],
         executed' = [executed EXCEPT ![r] = @ \o CommandsOf(L, execIdx[r], to)]
  PROVE  Core' /\ Keeps(cfg, log, log')
  <1> DEFINE from == execIdx[r]
             L2 == [i \in DOMAIN L |-> IF i \in from .. to - 1 THEN E[i] ELSE L[i]]
             I == Instances(cfg.protocol)
  <1>1. r \in Replicas /\ from \in 0 .. MaxIndex /\ L \in Logs(cfg.protocol)
    BY CoreFacts DEF LogStep
  <1>2. to \in from .. MaxIndex /\ \A i \in from .. to - 1 : i \in P
    <2> HIDE DEF from
    <2>1. to = loopEnd(from, P)
      BY DEF from
    <2> QED BY <1>1, <2>1, LoopEnd
  <1>3. \A i \in DOMAIN L : L[i] \in I /\ i \in Nat
    BY <1>1, LogType
  <1>4. L2 \in Logs(cfg.protocol) /\ DOMAIN L2 = DOMAIN L
    <2>1. \A i \in DOMAIN L : L2[i] \in I
      BY <1>2, <1>3 DEF Passes
    <2>2. DOMAIN L2 = DOMAIN L /\ L2 = [i \in DOMAIN L |-> L2[i]]
      OBVIOUS
    <2>3. L2 \in [DOMAIN L -> I] /\ DOMAIN L \in SUBSET Nat
      <3> HIDE DEF L2, I
      <3> QED BY <1>3, <2>1, <2>2
    <2> QED BY <2>2, <2>3 DEF Logs
  <1>5. \A i \in DOMAIN L : L2[i] = L[i] \/ Executes(cfg.protocol, L[i], L2[i])
    BY <1>2 DEF Passes
  <1>6. Loop(cfg, L, L2, from, to)
    <2> HIDE DEF L2, from
    <2>1. \A i \in from .. to - 1 : i \in DOMAIN L /\ doneIn(cfg.protocol, L[i]) /\ L[i].command \in Commands
      BY <1>2 DEF Passes
    <2> QED BY <1>4, <1>5, <2>1 DEF Loop
  <1>7. log' = [log EXCEPT ![r] = L2]
    BY DEF Passed
  <1> HIDE DEF L2
  <1> QED BY <1>2, <1>6, <1>7, ExecStep DEF CommandsOf

\* A handler that leaves the logs alone.
LEMMA StillStep ==
  ASSUME Core, Frame, UNCHANGED <<log, execIdx, executed>>
  PROVE  Core'
  <1>1. /\ LogsOk(cfg, requested, log, execIdx, executed)
        /\ FreshOk(cfg, log, index) /\ LeaderOk(cfg, log)
        /\ AnswersOk(cfg, executed, results, answered)
    BY DEF Core
  <1>2. LogsOk(cfg, requested', log, execIdx, executed)
    BY <1>1 DEF LogsOk, Frame, Distinct
  <1>3. FreshOk(cfg, log, index')
    <2>1. DOMAIN log[Leader] \subseteq Nat /\ Leader \in Replicas
      <3>1. log \in [Replicas -> Logs(cfg.protocol)] /\ Leader \in Replicas
        BY CoreFacts
      <3> QED BY <3>1, LogType
    <2> QED BY <1>1, <2>1 DEF FreshOk, Frame
  <1>4. cfg' = cfg /\ results' = results /\ answered' = answered
    BY DEF Frame
  <1> QED BY <1>1, <1>2, <1>3, <1>4 DEF Core

\* A handler that leaves index and requested alone.
LEMMA SameFrame ==
  ASSUME Core, UNCHANGED <<cfg, requested, index, results, answered>>
  PROVE  Frame
  <1>1. requested \subseteq Commands /\ index \in [Replicas -> Nat] /\ Leader \in Replicas
    BY CoreFacts
  <1> QED BY <1>1 DEF Frame

\* A replica's end.
LEMMA StopStep ==
  ASSUME ClusterInv, NEW r \in Replicas, stop(r) PROVE ClusterInv'
  <1>1. Core /\ NetOk(cfg, log, chan, jobs) /\ QuorumsOk(cfg, log)
    BY DEF ClusterInv
  <1>2. UNCHANGED <<cfg, requested, index, log, execIdx, executed, results, answered>>
    BY DEF stop
  <1>3. Frame
    <2>1. requested \subseteq Commands /\ index \in [Replicas -> Nat] /\ index[Leader] \in Nat
      BY <1>1, CoreFacts
    <2> QED BY <1>2, <2>1 DEF Frame
  <1>4. Core'
    BY <1>1, <1>2, <1>3, StillStep
  <1>5. NetOk(cfg, log, chan', jobs')
    BY <1>1, StopOk
  <1> QED BY <1>1, <1>2, <1>4, <1>5 DEF ClusterInv

-----------------------------------------------------------------------------
(* The steps that handlers are made of *)

\* Replica r binds its instance i to command c, which has been proposed for it, as e.
Binds(s, lg, r, i, c, e) ==
    /\ r \in Good(s) /\ i \in Nat /\ c \in Commands /\ Proposed(s, lg, i, c)
    /\ e \in Instances(s.protocol) /\ hashOf(s.protocol, e) = c /\ e.command \in {Nil, c}
    /\ i \in DOMAIN lg[r] => /\ hashOf(s.protocol, lg[r][i]) \in {Nil, c}
                             /\ votedIn(s.protocol, lg[r][i]) => votedIn(s.protocol, e)

LEMMA BindStep ==
  ASSUME NEW s \in Scenarios, NEW lg \in [Replicas -> Logs(s.protocol)], EntriesOk(s, lg),
         NEW r, NEW i, NEW c, NEW e, Binds(s, lg, r, i, c, e),
         doneIn(s.protocol, e) => Cert(s, [lg EXCEPT ![r] = put(lg[r], i, e)], i, c)
  PROVE  LogStep(s, lg, r, put(lg[r], i, e))
  <1> DEFINE L == put(lg[r], i, e)
             lg2 == [lg EXCEPT ![r] = L]
             p == s.protocol
  <1>1. /\ r \in Good(s) /\ i \in Nat /\ c \in Commands /\ Proposed(s, lg, i, c)
        /\ e \in Instances(p) /\ hashOf(p, e) = c /\ e.command \in {Nil, c}
        /\ i \in DOMAIN lg[r] => /\ hashOf(p, lg[r][i]) \in {Nil, c}
                                 /\ votedIn(p, lg[r][i]) => votedIn(p, e)
    BY DEF Binds
  <1>2. c # Nil /\ r \in Replicas /\ DOMAIN lg = Replicas /\ lg[r] \in Logs(p)
    BY <1>1, ScenarioFacts, ClusterAssumption
  <1>3. L \in Logs(p)
    BY <1>1, <1>2, PutType
  <1>4. /\ DOMAIN L = DOMAIN lg[r] \cup {i} /\ L[i] = e
        /\ \A j \in DOMAIN lg[r] : j # i => L[j] = lg[r][j]
    BY DEF put
  <1>5. doneIn(p, e) => Cert(s, lg2, i, c)
    OBVIOUS
  <1> HIDE DEF L, lg2, p
  <1>6. Advances(p, lg[r], L)
    BY <1>1, <1>2, <1>4 DEF Advances
  <1>7. Entry(s, lg, r, i, e)
    BY <1>1, <1>2 DEF Entry, p
  <1>8. \A j \in DOMAIN lg[r] : Entry(s, lg, r, j, lg[r][j])
    BY <1>1 DEF EntriesOk
  <1>9. \A j \in DOMAIN L : Entry(s, lg, r, j, L[j])
    BY <1>4, <1>7, <1>8
  <1>10. ASSUME NEW j \in DOMAIN L, doneIn(p, L[j]) PROVE Cert(s, lg2, j, hashOf(p, L[j]))
    <2>1. CASE j = i
      BY <1>1, <1>4, <1>5, <1>10, <2>1
    <2>2. CASE j # i
      <3>1. j \in DOMAIN lg[r] /\ L[j] = lg[r][j]
        BY <1>4, <2>2
      <3>2. hashOf(p, L[j]) # Nil /\ Cert(s, lg, j, hashOf(p, L[j]))
        BY <1>1, <1>8, <1>10, <3>1 DEF EntriesOk, Entry, p
      <3>3. Advances(s.protocol, lg[r], L)
        BY <1>6 DEF p
      <3> DEFINE h == hashOf(p, L[j])
      <3>4. h # Nil /\ Cert(s, lg, j, h)
        BY <3>2
      <3> HIDE DEF h
      <3>5. Cert(s, [lg EXCEPT ![r] = L], j, h)
        BY <1>1, <1>2, <3>3, <3>4, CertGrows
      <3> QED BY <3>5 DEF h, lg2
    <2> QED BY <2>1, <2>2
  <1> QED BY <1>1, <1>3, <1>6, <1>9, <1>10 DEF LogStep, L, lg2, p

\* A quorum of the old log is one of the new log.
LEMMA BindCert ==
  ASSUME NEW s \in Scenarios, NEW lg \in [Replicas -> Logs(s.protocol)],
         NEW r, NEW i, NEW c, NEW e, Binds(s, lg, r, i, c, e), NEW j, NEW d, d # Nil, Cert(s, lg, j, d)
  PROVE  Cert(s, [lg EXCEPT ![r] = put(lg[r], i, e)], j, d)
  <1> DEFINE L == put(lg[r], i, e)
  <1>1. r \in Good(s) /\ DOMAIN lg = Replicas /\ c \in Commands /\ Nil \notin Commands
    BY ClusterAssumption DEF Binds
  <1>2. /\ hashOf(s.protocol, e) = c
        /\ i \in DOMAIN lg[r] => /\ hashOf(s.protocol, lg[r][i]) \in {Nil, c}
                                 /\ votedIn(s.protocol, lg[r][i]) => votedIn(s.protocol, e)
    BY DEF Binds
  <1>3. /\ DOMAIN L = DOMAIN lg[r] \cup {i} /\ L[i] = e
        /\ \A k \in DOMAIN lg[r] : k # i => L[k] = lg[r][k]
    BY DEF put
  <1> HIDE DEF L
  <1>4. Advances(s.protocol, lg[r], L)
    BY <1>1, <1>2, <1>3 DEF Advances
  <1>5. Cert(s, [lg EXCEPT ![r] = L], j, d)
    BY <1>1, <1>4, CertGrows
  <1> QED BY <1>5 DEF L

\* What a correct replica holds for an index and what a message has proposed for it agree.
LEMMA HeldAgrees ==
  ASSUME NEW s \in Scenarios, NEW lg, EntriesOk(s, lg), s.protocol # "mirbft",
         NEW r \in Good(s), NEW i \in DOMAIN lg[r], NEW c \in Commands, Proposed(s, lg, i, c),
         hashOf(s.protocol, lg[r][i]) \in {Nil, c}
  PROVE  lg[r][i].command \in {Nil, c}
  <1>1. Entry(s, lg, r, i, lg[r][i]) /\ Nil \notin Commands
    BY ClusterAssumption DEF EntriesOk
  <1>2. CASE r = Leader
    <2>1. Proposer(s, i) = Leader
      BY DEF Proposer
    <2> QED BY <1>1, <1>2, <2>1 DEF Entry, Proposed
  <1>3. CASE r # Leader
    BY <1>1, <1>3 DEF Entry
  <1> QED BY <1>2, <1>3

\* The instance that a vote of a correct replica is for has been proposed.
LEMMA VotedIsProposed ==
  ASSUME NEW s \in Scenarios, NEW lg, EntriesOk(s, lg), NEW i, NEW c \in Commands, NEW q,
         q \in Voters(s, lg, i, c)
  PROVE  Proposed(s, lg, i, c)
  <1>1. Nil \notin Commands
    BY ClusterAssumption
  <1>2. q \in Good(s) /\ i \in DOMAIN lg[q] /\ hashOf(s.protocol, lg[q][i]) = c
    BY DEF Voters
  <1>3. Entry(s, lg, q, i, lg[q][i])
    BY <1>2 DEF EntriesOk
  <1> QED BY <1>1, <1>2, <1>3 DEF Entry

LEMMA CertIsProposed ==
  ASSUME NEW s \in Scenarios, NEW lg, EntriesOk(s, lg), NEW i, NEW c \in Commands, Cert(s, lg, i, c)
  PROVE  Proposed(s, lg, i, c)
  BY CertHasVoter, VotedIsProposed

\* Every set of votes that is large enough is a quorum.
LEMMA CertOf ==
  ASSUME NEW s \in Scenarios, NEW lg, NEW i, NEW c, NEW V, V \subseteq Voters(s, lg, i, c) \cup Liars(s),
         Cardinality(V) >= Need(s)
  PROVE  Cert(s, lg, i, c)
  <1> DEFINE W == Voters(s, lg, i, c) \cup Liars(s)
  <1>1. W \subseteq Replicas
    BY ScenarioFacts DEF Voters
  <1>2. IsFiniteSet(W) /\ V \subseteq W
    BY <1>1, ScenarioFacts, FS_Subset
  <1> HIDE DEF W
  <1>3. Cardinality(V) <= Cardinality(W) /\ Cardinality(V) \in Nat /\ Cardinality(W) \in Nat /\ Need(s) \in Nat
    BY <1>2, FS_Subset, FS_CardinalityType, ScenarioFacts
  <1>4. Cardinality(W) >= Need(s)
    BY <1>3
  <1> QED BY <1>4 DEF Cert, W

\* A proposer stores a new command as its next instance.
LEMMA ProposeStep ==
  ASSUME Core, NEW r, NEW i, NEW e, NEW c \in Commands \ requested, Proposes(cfg, log, r, i, e, c),
         LeaderFine(cfg), requested' = requested \cup {c}, log' = [log EXCEPT ![r] = put(@, i, e)],
         index' \in [Replicas -> Nat],
         cfg.protocol # "mirbft" => r = Leader /\ i = index[Leader] /\ index'[Leader] = i + 1,
         UNCHANGED <<cfg, execIdx, executed, results, answered>>
  PROVE  Core' /\ Keeps(cfg, log, log') /\ Proposed(cfg, log', i, c)
  <1> DEFINE lg2 == [log EXCEPT ![r] = put(@, i, e)]
             req2 == requested \cup {c}
  <1>1. cfg \in Scenarios /\ log \in [Replicas -> Logs(cfg.protocol)]
        /\ Leader \in Replicas /\ index \in [Replicas -> Nat]
    BY CoreFacts
  <1>2. LogsOk(cfg, req2, lg2, execIdx, executed)
    <2>1. LogsOk(cfg, requested, log, execIdx, executed)
      BY DEF Core
    <2> QED BY <2>1, ProposeOk
  <1>3. Keeps(cfg, log, lg2) /\ Proposed(cfg, lg2, i, c)
    BY <1>1, ProposeKeepsAll
  <1>4. FreshOk(cfg, lg2, index')
    <2>1. SUFFICES ASSUME Leader \in Good(cfg), cfg.protocol # "mirbft", NEW j \in DOMAIN lg2[Leader]
                   PROVE  j < index'[Leader]
      BY DEF FreshOk
    <2>2. r = Leader /\ i = index[Leader] /\ index'[Leader] = i + 1 /\ i \in Nat
      BY <1>1, <2>1
    <2>3. lg2[Leader] = put(log[Leader], i, e)
      BY <1>1, <2>2
    <2>4. j \in DOMAIN log[Leader] \/ j = i
      BY <2>1, <2>3 DEF put
    <2>5. DOMAIN log[Leader] \subseteq Nat
      <3>1. log[Leader] \in Logs(cfg.protocol)
        BY <1>1
      <3> QED BY <3>1, LogType
    <2>6. \A k \in DOMAIN log[Leader] : k < index[Leader]
      BY <2>1 DEF Core, FreshOk
    <2> HIDE DEF lg2
    <2> QED BY <2>2, <2>4, <2>5, <2>6
  <1>5. LeaderOk(cfg, lg2)
    BY LeaderStep
  <1>6. AnswersOk(cfg, executed, results, answered)
    BY DEF Core
  <1>7. log' = lg2 /\ requested' = req2
    OBVIOUS
  <1> HIDE DEF lg2, req2
  <1> QED BY <1>2, <1>3, <1>4, <1>5, <1>6, <1>7 DEF Core

\* A leader's proposal, as all protocols but MirBFT make it.
LEMMA LeaderProposes ==
  ASSUME Core, cfg.protocol # "mirbft", Leader \in Alive, NEW e \in Instances(cfg.protocol),
         NEW c \in Commands, e.command = c, hashOf(cfg.protocol, e) \in {Nil, c}, ~doneIn(cfg.protocol, e)
  PROVE  Proposes(cfg, log, Leader, index[Leader], e, c) /\ LeaderFine(cfg)
  <1>1. Leader \in Good(cfg) /\ Leader \in Replicas /\ index \in [Replicas -> Nat] /\ Nil \notin Commands
    BY CoreFacts DEF Alive
  <1>2. index[Leader] \in Nat /\ Proposer(cfg, index[Leader]) = Leader
    BY <1>1 DEF Proposer
  <1>3. index[Leader] \notin DOMAIN log[Leader]
    BY <1>1, <1>2 DEF Core, FreshOk
  <1> QED BY <1>1, <1>2, <1>3 DEF Proposes, LeaderFine

\* A result more: the answering replica trusts f + 1 of them.
LEMMA ResultStep ==
  ASSUME Core, NEW r \in cfg.members, NEW c \in Commands, resultSent(r, c),
         results' = [results EXCEPT ![c] = @ \cup {r}], NEW v \in Nat,
         answered' = [answered EXCEPT ![c] = IF Cardinality(results[c]) + 1 > cfg.f THEN v ELSE @],
         UNCHANGED <<cfg, requested, index, log, execIdx, executed>>
  PROVE  Core'
  <1>1. cfg \in Scenarios /\ Good(cfg) \subseteq Replicas /\ cfg.members \subseteq Replicas
    BY CoreFacts, ScenarioFacts
  <1>2. /\ results \in [Commands -> SUBSET Replicas] /\ answered \in [Commands -> Nat]
        /\ \A d \in Commands : \A q \in results[d] :
              q \in cfg.faulty \/ (q \in Good(cfg) /\ d \in Range(executed[q]))
        /\ \A d \in Commands : answered[d] > 0 => \E q \in Good(cfg) : d \in Range(executed[q])
    BY DEF Core, AnswersOk
  <1>3. r \notin results[c] /\ (r \in cfg.faulty \/ (r \in Good(cfg) /\ c \in Range(executed[r])))
    BY CoreFacts DEF resultSent, Alive
  <1>4. /\ results' \in [Commands -> SUBSET Replicas] /\ results'[c] = results[c] \cup {r}
        /\ \A d \in Commands : d # c => results'[d] = results[d]
    BY <1>1, <1>2
  <1>5. \A d \in Commands : \A q \in results'[d] :
              q \in cfg.faulty \/ (q \in Good(cfg) /\ d \in Range(executed[q]))
    BY <1>2, <1>3, <1>4
  <1>6. /\ answered' \in [Commands -> Nat]
        /\ answered'[c] = IF Cardinality(results[c]) + 1 > cfg.f THEN v ELSE answered[c]
        /\ \A d \in Commands : d # c => answered'[d] = answered[d]
    BY <1>2
  <1>7. ASSUME Cardinality(results[c]) + 1 > cfg.f PROVE \E q \in Good(cfg) : c \in Range(executed[q])
    <2> DEFINE W == results[c] \cup {r}
    <2>1. IsFiniteSet(results[c]) /\ IsFiniteSet(cfg.faulty) /\ cfg.f \in Nat /\ Cardinality(cfg.faulty) <= cfg.f
      <3>1. IsFiniteSet(Replicas) /\ cfg.f \in Nat
        BY <1>1, ScenarioFacts
      <3>2. cfg.faulty \subseteq Replicas /\ Cardinality(cfg.faulty) <= cfg.f
        BY <1>1, ClusterAssumption DEF Scenario
      <3>3. results[c] \subseteq Replicas
        BY <1>2
      <3> QED BY <3>1, <3>2, <3>3, FS_Subset
    <2>2. Cardinality(W) = Cardinality(results[c]) + 1 /\ Cardinality(results[c]) \in Nat
      BY <1>3, <2>1, FS_AddElement, FS_CardinalityType
    <2>3. ~(W \subseteq cfg.faulty)
      <3>1. ASSUME W \subseteq cfg.faulty PROVE Cardinality(W) <= Cardinality(cfg.faulty)
        <4> HIDE DEF W
        <4> QED BY <2>1, <3>1, FS_Subset
      <3>2. Cardinality(cfg.faulty) \in Nat
        BY <2>1, FS_CardinalityType
      <3> HIDE DEF W
      <3> QED BY <1>7, <2>1, <2>2, <3>1, <3>2
    <2>4. PICK q \in W : q \notin cfg.faulty
      BY <2>3
    <2> QED BY <1>2, <1>3, <2>4
  <1>8. \A d \in Commands : answered'[d] > 0 => \E q \in Good(cfg) : d \in Range(executed[q])
    <2> SUFFICES ASSUME NEW d \in Commands, answered'[d] > 0 PROVE \E q \in Good(cfg) : d \in Range(executed[q])
      OBVIOUS
    <2>1. CASE d # c
      BY <1>2, <1>6, <2>1
    <2>2. CASE d = c /\ Cardinality(results[c]) + 1 > cfg.f
      BY <1>7, <2>2
    <2>3. CASE d = c /\ ~(Cardinality(results[c]) + 1 > cfg.f)
      <3>1. answered[c] > 0
        BY <1>6, <2>3
      <3> QED BY <1>2, <2>3, <3>1
    <2> QED BY <2>1, <2>2, <2>3
  <1>9. AnswersOk(cfg, executed, results', answered')
    BY <1>4, <1>5, <1>6, <1>8 DEF AnswersOk
  <1> QED BY <1>9 DEF Core

\* The end of every handler: the logs, then what it sends and what it gives to dispatchers.
LEMMA HandlerDone ==
  ASSUME Core', cfg' = cfg, cfg.protocol # "hybster", NetOk(cfg, log', chan', jobs')
  PROVE  ClusterInv'
  BY DEF ClusterInv, QuorumsOk

LEMMA NetKept ==
  ASSUME ClusterInv, Keeps(cfg, log, log') PROVE NetOk(cfg, log', chan, jobs)
  <1>1. cfg \in Scenarios /\ NetOk(cfg, log, chan, jobs)
    BY CoreFacts DEF ClusterInv
  <1> QED BY <1>1, NetGrows

\* A message that a handler may send.
LEMMA MsgOk ==
  ASSUME NEW s, NEW lg, NEW type \in {"Preprepare", "Prepare", "Commit", "CommitSlow"},
         NEW i \in Nat, NEW c \in Commands, Proposed(s, lg, i, c),
         LeaderFine(s), type \in {"Commit", "CommitSlow"} => Cert(s, lg, i, c),
         s.protocol \in {"minbft", "hybster"} => Leader \in Voters(s, lg, i, c)
  PROVE  [type |-> type, index |-> i, val |-> c] \in OkMsgs(s, lg)
  <1> DEFINE m == [type |-> type, index |-> i, val |-> c]
  <1>1. m \in [type : {"Preprepare", "Prepare", "Commit", "CommitSlow"}, index : Nat, val : Commands] /\ m.type = type /\ m.index = i /\ m.val = c
    OBVIOUS
  <1> HIDE DEF m
  <1>2. m \in OkMsgs(s, lg)
    BY <1>1 DEF OkMsgs, LeaderFine
  <1> QED BY <1>2 DEF m

LEMMA MsgFacts ==
  ASSUME NEW s, NEW lg, NEW m \in OkMsgs(s, lg)
  PROVE  /\ m.index \in Nat /\ m.val \in Commands /\ Proposed(s, lg, m.index, m.val) /\ LeaderFine(s)
         /\ m.type \in {"Commit", "CommitSlow"} => Cert(s, lg, m.index, m.val)
         /\ s.protocol \in {"minbft", "hybster"} => Leader \in Voters(s, lg, m.index, m.val)
  <1>1. m \in [type : {"Preprepare", "Prepare", "Commit", "CommitSlow"}, index : Nat, val : Commands]
    BY DEF OkMsgs
  <1> QED BY <1>1 DEF OkMsgs, LeaderFine

\* A callback that a handler may leave.
LEMMA VerifyOk ==
  ASSUME NEW s, NEW lg, NEW r, NEW i \in Nat, i \in DOMAIN lg[r], NEW c, c # Nil,
         hashOf(s.protocol, lg[r][i]) = c, Cert(s, lg, i, c)
  PROVE  [type |-> "Verify", index |-> i] \in OkJobs(s, lg, r)
  <1> DEFINE j == [type |-> "Verify", index |-> i]
  <1>1. j \in [type : {"Verify"}, index : Nat] /\ j.index = i
    OBVIOUS
  <1> HIDE DEF j
  <1>2. j \in VerifyJobs(s, lg, r)
    BY <1>1 DEF VerifyJobs
  <1> QED BY <1>2 DEF j, OkJobs

LEMMA AggregateOk ==
  ASSUME NEW s, NEW lg, NEW type \in {"Aggregate", "AggregateSlow"}, NEW i \in Nat, i \in DOMAIN lg[Leader],
         NEW c \in Commands, hashOf(s.protocol, lg[Leader][i]) = c,
         type = "AggregateSlow" \/ s.protocol # "sbftslow" => Cert(s, lg, i, c)
  PROVE  [type |-> type, index |-> i, hash |-> c] \in OkJobs(s, lg, Leader)
  <1> DEFINE j == [type |-> type, index |-> i, hash |-> c]
  <1>1. /\ j \in [type : {"Aggregate", "AggregateSlow"}, index : Nat, hash : Commands]
        /\ j.type = type /\ j.index = i /\ j.hash = c
    OBVIOUS
  <1> HIDE DEF j
  <1>2. j \in AggregateJobs(s, lg, Leader)
    BY <1>1 DEF AggregateJobs
  <1> QED BY <1>2 DEF j, OkJobs

LEMMA JobFacts ==
  ASSUME NEW s, NEW lg, NEW r, NEW j \in OkJobs(s, lg, r)
  PROVE  /\ j.index \in Nat
         /\ j.type = "Verify" =>
               /\ j.index \in DOMAIN lg[r] /\ hashOf(s.protocol, lg[r][j.index]) # Nil
               /\ Cert(s, lg, j.index, hashOf(s.protocol, lg[r][j.index]))
         /\ j.type \in {"Aggregate", "AggregateSlow"} =>
               /\ r = Leader /\ j.index \in DOMAIN lg[r] /\ hashOf(s.protocol, lg[r][j.index]) = j.hash
               /\ j.hash \in Commands
               /\ j.type = "AggregateSlow" \/ s.protocol # "sbftslow" => Cert(s, lg, j.index, j.hash)
         /\ j.type = "Commit" =>
               j.from \in Replicas /\ j.hash \in Commands /\ j.from \in Voters(s, lg, j.index, j.hash)
  <1>1. CASE j \in VerifyJobs(s, lg, r)
    <2>1. j \in [type : {"Verify"}, index : Nat]
      BY <1>1 DEF VerifyJobs
    <2>2. j.type = "Verify" /\ j.index \in Nat
      BY <2>1
    <2> QED BY <1>1, <2>2 DEF VerifyJobs
  <1>2. CASE j \in AggregateJobs(s, lg, r)
    <2>1. j \in [type : {"Aggregate", "AggregateSlow"}, index : Nat, hash : Commands]
      BY <1>2 DEF AggregateJobs
    <2>2. j.type \in {"Aggregate", "AggregateSlow"} /\ j.index \in Nat /\ j.hash \in Commands
      BY <2>1
    <2> QED BY <1>2, <2>2 DEF AggregateJobs
  <1>3. CASE j \in VoteJobs(s, lg)
    <2>1. j \in [type : {"Commit"}, from : Replicas, index : Nat, hash : Commands]
      BY <1>3 DEF VoteJobs
    <2>2. j.type = "Commit" /\ j.index \in Nat /\ j.hash \in Commands /\ j.from \in Replicas
      BY <2>1
    <2> QED BY <1>3, <2>2 DEF VoteJobs
  <1> QED BY <1>1, <1>2, <1>3 DEF OkJobs

-----------------------------------------------------------------------------
(* updateCommandHash, in the protocols whose instances have a field hash *)

Rehash(d, c) == [d EXCEPT !.hash = c]
Hashed == {"sbft", "sbftslow", "linhybster", "hybster"}

\* e is instance i of r after updateCommandHash with c.
HeldAs(s, lg, r, i, c, e) ==
    /\ e \in Instances(s.protocol) /\ e.hash = c /\ e.command \in {Nil, c}
    /\ i \in DOMAIN lg[r] =>
          /\ lg[r][i] \in Instances(s.protocol) /\ lg[r][i].hash \in {Nil, c}
          /\ e = Rehash(lg[r][i], c)
          /\ votedIn(s.protocol, e) <=> votedIn(s.protocol, lg[r][i])
          /\ doneIn(s.protocol, e) <=> doneIn(s.protocol, lg[r][i])
    /\ i \notin DOMAIN lg[r] => ~votedIn(s.protocol, e) /\ ~doneIn(s.protocol, e)

\* e differs from d in nothing but the hash, which is c.
HashedTo(p, d, c, e) ==
    /\ e \in Instances(p) /\ e.hash = c /\ e.command = d.command
    /\ votedIn(p, e) <=> votedIn(p, d)
    /\ doneIn(p, e) <=> doneIn(p, d)

LEMMA Rehashed ==
  ASSUME NEW p \in Hashed, NEW d \in Instances(p), NEW c \in Commands
  PROVE  HashedTo(p, d, c, Rehash(d, c))
  <1> DEFINE e == Rehash(d, c)
  <1>0. e = [d EXCEPT !.hash = c]
    BY DEF Rehash
  <1> HIDE DEF e
  <1> SUFFICES HashedTo(p, d, c, e)
    BY DEF e
  <1> USE DEF HashedTo
  <1>1. CASE p \in {"sbft", "linhybster"}
    <2>1. d \in [status : Nat, command : Value, hash : Value, signed : BOOLEAN]
      BY <1>1 DEF Instances
    <2>2. /\ e \in [status : Nat, command : Value, hash : Value, signed : BOOLEAN]
          /\ e.hash = c /\ e.command = d.command /\ e.signed = d.signed /\ e.status = d.status
      BY <1>0, <2>1 DEF Value
    <2> QED BY <1>1, <2>2 DEF Instances, votedIn, doneIn
  <1>2. CASE p = "sbftslow"
    <2>1. d \in [status : Nat, command : Value, hash : Value, signed : BOOLEAN, cSigned : BOOLEAN]
      BY <1>2 DEF Instances
    <2>2. /\ e \in [status : Nat, command : Value, hash : Value, signed : BOOLEAN, cSigned : BOOLEAN]
          /\ e.hash = c /\ e.command = d.command /\ e.cSigned = d.cSigned /\ e.status = d.status
      BY <1>0, <2>1 DEF Value
    <2> QED BY <1>2, <2>2 DEF Instances, votedIn, doneIn
  <1>3. CASE p = "hybster"
    <2> DEFINE R == [command : Value, hash : Value, prepared : BOOLEAN, commit : BOOLEAN, executed : BOOLEAN,
                     quorum : SUBSET Replicas]
    <2>1. d \in R
      BY <1>3 DEF Instances
    <2>2. /\ e \in R /\ e.hash = c /\ e.command = d.command /\ e.prepared = d.prepared /\ e.commit = d.commit
      BY <1>0, <2>1 DEF Value
    <2> QED BY <1>3, <2>2 DEF Instances, votedIn, doneIn
  <1> QED BY <1>1, <1>2, <1>3 DEF Hashed

LEMMA HeldOk ==
  ASSUME NEW s \in Scenarios, s.protocol \in Hashed, NEW lg \in [Replicas -> Logs(s.protocol)], EntriesOk(s, lg),
         NEW r \in Good(s), NEW i \in Nat, NEW c \in Commands, Proposed(s, lg, i, c),
         i \in DOMAIN lg[r] => lg[r][i].hash \in {Nil, c},
         NEW fresh \in Instances(s.protocol), fresh.hash = c, fresh.command = Nil,
         ~votedIn(s.protocol, fresh), ~doneIn(s.protocol, fresh),
         NEW e, e = IF i \in DOMAIN lg[r] THEN [lg[r][i] EXCEPT !.hash = c] ELSE fresh
  PROVE  HeldAs(s, lg, r, i, c, e)
  <1>1. CASE i \notin DOMAIN lg[r]
    BY <1>1 DEF HeldAs
  <1>2. CASE i \in DOMAIN lg[r]
    <2> DEFINE d == lg[r][i]
               p == s.protocol
    <2>1. d \in Instances(p)
      <3>1. lg[r] \in Logs(p)
        BY ScenarioFacts
      <3> QED BY <1>2, <3>1, LogType
    <2>2. e = Rehash(d, c)
      BY <1>2 DEF Rehash
    <2>3. d.command \in {Nil, c}
      <3>1. hashOf(p, d) \in {Nil, c} /\ p # "mirbft"
        BY <1>2 DEF hashOf, Hashed
      <3> QED BY <1>2, <3>1, HeldAgrees
    <2>4. d.hash \in {Nil, c}
      BY <1>2
    <2>5. p \in Hashed
      OBVIOUS
    <2> HIDE DEF p, d
    <2>6. HashedTo(p, d, c, e)
      BY <2>1, <2>2, <2>5, Rehashed
    <2> QED BY <1>2, <2>1, <2>2, <2>3, <2>4, <2>6 DEF HeldAs, HashedTo, p, d
  <1> QED BY <1>1, <1>2

\* The instance d goes on to e; if that is committed, d was so or there is a quorum.
LEMMA HeldBinds ==
  ASSUME Core, cfg.protocol \in Hashed, NEW r \in Good(cfg), NEW i \in Nat, NEW c \in Commands,
         Proposed(cfg, log, i, c), NEW d, HeldAs(cfg, log, r, i, c, d),
         NEW e \in Instances(cfg.protocol), e.hash = c, e.command \in {Nil, c},
         votedIn(cfg.protocol, d) => votedIn(cfg.protocol, e),
         doneIn(cfg.protocol, e) => \/ doneIn(cfg.protocol, d) \/ Cert(cfg, log, i, c)
                                    \/ Cert(cfg, [log EXCEPT ![r] = put(log[r], i, e)], i, c)
  PROVE  LogStep(cfg, log, r, put(log[r], i, e))
  <1> DEFINE p == cfg.protocol
             lg2 == [log EXCEPT ![r] = put(log[r], i, e)]
  <1>1. /\ cfg \in Scenarios /\ log \in [Replicas -> Logs(p)] /\ EntriesOk(cfg, log) /\ c # Nil
    BY CoreFacts DEF Core, LogsOk
  <1>2. \A x : hashOf(p, x) = x.hash
    BY DEF hashOf, Hashed
  <1>3. Binds(cfg, log, r, i, c, e)
    BY <1>2 DEF Binds, HeldAs
  <1>4. ASSUME doneIn(p, d) PROVE Cert(cfg, log, i, c)
    <2>1. i \in DOMAIN log[r] /\ doneIn(p, log[r][i]) /\ log[r][i].hash \in {Nil, c}
      BY <1>4 DEF HeldAs
    <2>2. Entry(cfg, log, r, i, log[r][i]) /\ Cert(cfg, log, i, log[r][i].hash)
      BY <1>1, <1>2, <2>1 DEF EntriesOk
    <2>3. log[r][i].hash = c
      BY <1>2, <2>1, <2>2 DEF Entry
    <2> QED BY <2>2, <2>3
  <1>5. Cert(cfg, log, i, c) => Cert(cfg, lg2, i, c)
    BY <1>1, <1>3, BindCert
  <1>6. doneIn(p, e) => Cert(cfg, lg2, i, c)
    <2>1. doneIn(p, e) => doneIn(p, d) \/ Cert(cfg, log, i, c) \/ Cert(cfg, lg2, i, c)
      OBVIOUS
    <2> HIDE DEF p, lg2
    <2> QED BY <1>4, <1>5, <2>1
  <1> QED BY <1>1, <1>3, <1>6, BindStep

\* Storing an instance that is there already.
Over(L, i, e) == [L EXCEPT ![i] = e]

LEMMA PutOver ==
  ASSUME NEW p, NEW L \in Logs(p), NEW i \in DOMAIN L, NEW e
  PROVE  Over(L, i, e) = put(L, i, e)
  <1>1. PICK dom \in SUBSET Nat : L \in [dom -> Instances(p)]
    BY DEF Logs
  <1>2. L = [j \in dom |-> L[j]] /\ DOMAIN L = dom
    BY <1>1
  <1> QED BY <1>2 DEF put, Over

LEMMA FineOf ==
  ASSUME Core, NEW r \in Good(cfg), DOMAIN log[r] # {} \/ r = Leader
  PROVE  LeaderFine(cfg)
  BY DEF Core, LeaderOk, LeaderFine

LEMMA BindVote ==
  ASSUME NEW s \in Scenarios, NEW lg \in [Replicas -> Logs(s.protocol)],
         NEW r, NEW i, NEW c, NEW e, Binds(s, lg, r, i, c, e), votedIn(s.protocol, e)
  PROVE  Voters(s, lg, i, c) \cup {r} \subseteq Voters(s, [lg EXCEPT ![r] = put(lg[r], i, e)], i, c)
  <1> DEFINE L == put(lg[r], i, e)
             lg2 == [lg EXCEPT ![r] = L]
  <1>1. r \in Good(s) /\ r \in Replicas /\ DOMAIN lg = Replicas /\ c \in Commands /\ Nil \notin Commands
    BY ClusterAssumption, ScenarioFacts DEF Binds
  <1>2. /\ hashOf(s.protocol, e) = c
        /\ i \in DOMAIN lg[r] => /\ hashOf(s.protocol, lg[r][i]) \in {Nil, c}
                                 /\ votedIn(s.protocol, lg[r][i]) => votedIn(s.protocol, e)
    BY DEF Binds
  <1>3. /\ DOMAIN L = DOMAIN lg[r] \cup {i} /\ L[i] = e
        /\ \A k \in DOMAIN lg[r] : k # i => L[k] = lg[r][k]
    BY DEF put
  <1> HIDE DEF L
  <1>4. Advances(s.protocol, lg[r], L)
    BY <1>1, <1>2, <1>3 DEF Advances
  <1>5. Voters(s, lg, i, c) \subseteq Voters(s, lg2, i, c)
    BY <1>1, <1>4, VotersGrow
  <1>6. lg2[r] = L
    BY <1>1
  <1> HIDE DEF lg2
  <1>7. r \in Voters(s, lg2, i, c)
    BY <1>1, <1>2, <1>3, <1>6 DEF Voters
  <1> QED BY <1>5, <1>7 DEF lg2, L

\* Storing over what has just been stored, and storing what is there.
LEMMA PutTwice ==
  ASSUME NEW K, NEW i, NEW e0, NEW e PROVE Over(put(K, i, e0), i, e) = put(K, i, e)
  BY DEF put, Over

LEMMA PutSame ==
  ASSUME NEW p, NEW L \in Logs(p), NEW i \in DOMAIN L PROVE put(L, i, L[i]) = L
  <1>1. PICK dom \in SUBSET Nat : L \in [dom -> Instances(p)]
    BY DEF Logs
  <1>2. L = [j \in dom |-> L[j]] /\ DOMAIN L = dom
    BY <1>1
  <1> QED BY <1>2 DEF put

\* Whoever holds something for an index holds what its correct proposer has proposed.
LEMMA SameProposal ==
  ASSUME NEW s, NEW lg, NEW i, NEW c, NEW d, Proposed(s, lg, i, c), Proposed(s, lg, i, d),
         Proposer(s, i) \in Good(s)
  PROVE  c = d
  BY DEF Proposed

LEMMA MaxOf ==
  ASSUME NEW a \in Nat, NEW b \in Nat PROVE Max({a, b}) \in Nat /\ Max({a, b}) >= a /\ Max({a, b}) >= b
  <1>1. \E x \in {a, b} : \A y \in {a, b} : x >= y
    OBVIOUS
  <1> DEFINE z == CHOOSE x \in {a, b} : \A y \in {a, b} : x >= y
  <1>2. z \in {a, b} /\ \A y \in {a, b} : z >= y
    BY <1>1
  <1>3. Max({a, b}) = z
    BY DEF Max
  <1> HIDE DEF z
  <1> QED BY <1>2, <1>3

-----------------------------------------------------------------------------
(* The commands of a sequence that are in A (b is TRUE), or those that are not *)

Chosen(s, A, b) ==
    LET upTo[k \in 0 .. Len(s)] ==
            IF k = 0 THEN << >>
            ELSE IF (s[k] \in A) = b THEN Append(upTo[k - 1], s[k]) ELSE upTo[k - 1]
    IN  upTo[Len(s)]

Once(s) == \A i, j \in DOMAIN s : s[i] = s[j] => i = j

\* f[k] is what is chosen of the first k elements, up to n.
ChosenFrom(f, s, A, b, k) ==
    IF k = 0 THEN << >> ELSE IF (s[k] \in A) = b THEN Append(f[k - 1], s[k]) ELSE f[k - 1]
Chooses(f, s, A, b, n) == f = [k \in 0 .. n |-> ChosenFrom(f, s, A, b, k)]

LEMMA ChoosesExists ==
  ASSUME NEW s, NEW A, NEW b, NEW n \in Nat
  PROVE  \E f : Chooses(f, s, A, b, n)
  <1> DEFINE Bad == {k \in Nat : ~\E f : Chooses(f, s, A, b, k)}
  <1>1. SUFFICES ASSUME Bad # {} PROVE FALSE
    OBVIOUS
  <1>2. PICK k \in Bad : \A m \in Bad : k <= m
    <2>1. Bad \in SUBSET Nat
      OBVIOUS
    <2> HIDE DEF Bad
    <2> QED BY <1>1, <2>1, LeastNumber
  <1>3. CASE k = 0
    <2> DEFINE f == [i \in 0 .. 0 |-> << >>]
    <2>1. Chooses(f, s, A, b, 0)
      BY DEF Chooses, ChosenFrom
    <2> QED BY <1>3, <2>1
  <1>4. CASE k # 0
    <2>1. k - 1 \in Nat /\ k - 1 \notin Bad
      BY <1>2, <1>4
    <2>2. PICK f : Chooses(f, s, A, b, k - 1)
      BY <2>1
    <2> DEFINE g == [i \in 0 .. k |-> IF i = k THEN ChosenFrom(f, s, A, b, k) ELSE f[i]]
    <2>3. ASSUME NEW i \in 0 .. k PROVE g[i] = ChosenFrom(g, s, A, b, i)
      <3>1. i # 0 => i - 1 \in 0 .. k /\ i - 1 # k
        OBVIOUS
      <3>2. i # 0 => g[i - 1] = f[i - 1]
        BY <3>1
      <3>3. g[i] = ChosenFrom(f, s, A, b, i)
        <4>1. CASE i = k
          BY <4>1
        <4>2. CASE i # k
          <5>1. i \in 0 .. k - 1
            BY <4>2
          <5> QED BY <2>2, <4>2, <5>1 DEF Chooses
        <4> QED BY <4>1, <4>2
      <3> HIDE DEF g
      <3> QED BY <3>2, <3>3 DEF ChosenFrom
    <2>4. Chooses(g, s, A, b, k)
      <3>1. g = [i \in 0 .. k |-> g[i]]
        OBVIOUS
      <3> HIDE DEF g
      <3> QED BY <2>3, <3>1 DEF Chooses
    <2> QED BY <2>4
  <1> QED BY <1>3, <1>4

LEMMA ChosenIsLast ==
  ASSUME NEW s, NEW A, NEW b, Len(s) \in Nat
  PROVE  \E f : Chooses(f, s, A, b, Len(s)) /\ Chosen(s, A, b) = f[Len(s)]
  <1> DEFINE upTo == CHOOSE f : f = [k \in 0 .. Len(s) |->
                        IF k = 0 THEN << >> ELSE IF (s[k] \in A) = b THEN Append(f[k - 1], s[k]) ELSE f[k - 1]]
  <1>1. \E f : f = [k \in 0 .. Len(s) |->
                        IF k = 0 THEN << >> ELSE IF (s[k] \in A) = b THEN Append(f[k - 1], s[k]) ELSE f[k - 1]]
    <2>1. PICK f : Chooses(f, s, A, b, Len(s))
      BY ChoosesExists
    <2>2. f = [k \in 0 .. Len(s) |->
                  IF k = 0 THEN << >> ELSE IF (s[k] \in A) = b THEN Append(f[k - 1], s[k]) ELSE f[k - 1]]
      BY <2>1 DEF Chooses, ChosenFrom
    <2> QED BY <2>2
  <1>2. upTo = [k \in 0 .. Len(s) |->
                  IF k = 0 THEN << >> ELSE IF (s[k] \in A) = b THEN Append(upTo[k - 1], s[k]) ELSE upTo[k - 1]]
    BY <1>1
  <1>3. Chosen(s, A, b) = upTo[Len(s)]
    BY Zenon DEF Chosen
  <1> HIDE DEF upTo
  <1> QED BY <1>2, <1>3 DEF Chooses, ChosenFrom

\* What is chosen of a common start is the same, and a sequence of the same elements.
LEMMA ChoosesPrefix ==
  ASSUME NEW C, NEW s, NEW t, NEW A, NEW b, NEW f, NEW g, NEW m \in Nat, NEW n \in Nat, m <= n,
         Chooses(f, s, A, b, m), Chooses(g, t, A, b, n), \A i \in 1 .. m : s[i] = t[i] /\ s[i] \in C,
         NEW j \in 0 .. m
  PROVE  f[j] = g[j] /\ f[j] \in Seq(C)
  <1> DEFINE Bad == {k \in 0 .. m : ~(f[k] = g[k] /\ f[k] \in Seq(C))}
  <1>1. SUFFICES ASSUME Bad # {} PROVE FALSE
    OBVIOUS
  <1>2. PICK k \in Bad : \A h \in Bad : k <= h
    <2>1. Bad \in SUBSET Nat
      OBVIOUS
    <2> HIDE DEF Bad
    <2> QED BY <1>1, <2>1, LeastNumber
  <1>3. f[k] = ChosenFrom(f, s, A, b, k) /\ g[k] = ChosenFrom(g, t, A, b, k)
    <2>1. k \in 0 .. m /\ k \in 0 .. n
      OBVIOUS
    <2> QED BY <2>1 DEF Chooses
  <1>4. CASE k = 0
    <2>1. f[k] = << >> /\ g[k] = << >> /\ << >> \in Seq(C)
      BY <1>3, <1>4 DEF ChosenFrom
    <2> QED BY <2>1
  <1>5. CASE k # 0
    <2>1. k - 1 \in 0 .. m /\ k - 1 \notin Bad /\ k \in 1 .. m
      BY <1>2, <1>5
    <2>2. f[k - 1] = g[k - 1] /\ f[k - 1] \in Seq(C) /\ s[k] = t[k] /\ s[k] \in C
      BY <2>1
    <2>3. Append(f[k - 1], s[k]) \in Seq(C)
      BY <2>2
    <2>4. f[k] = IF (s[k] \in A) = b THEN Append(f[k - 1], s[k]) ELSE f[k - 1]
      BY <1>3, <1>5 DEF ChosenFrom
    <2>5. g[k] = IF (s[k] \in A) = b THEN Append(f[k - 1], s[k]) ELSE f[k - 1]
      BY <1>3, <1>5, <2>2 DEF ChosenFrom
    <2>6. f[k] = g[k]
      BY <2>4, <2>5
    <2>7. f[k] \in Seq(C)
      BY <2>2, <2>3, <2>4
    <2> QED BY <2>6, <2>7
  <1> QED BY <1>4, <1>5

LEMMA ChosenNone ==
  ASSUME NEW A, NEW b PROVE Chosen(<< >>, A, b) = << >>
  <1>1. Len(<< >>) = 0 /\ 0 \in 0 .. 0
    OBVIOUS
  <1>2. PICK f : Chooses(f, << >>, A, b, 0) /\ Chosen(<< >>, A, b) = f[0]
    BY <1>1, ChosenIsLast
  <1>3. f[0] = ChosenFrom(f, << >>, A, b, 0)
    BY <1>1, <1>2 DEF Chooses
  <1> QED BY <1>2, <1>3 DEF ChosenFrom

LEMMA ChosenAppend ==
  ASSUME NEW C, NEW s \in Seq(C), NEW c \in C, NEW A, NEW b
  PROVE  /\ Chosen(s, A, b) \in Seq(C)
         /\ Chosen(Append(s, c), A, b) = IF (c \in A) = b THEN Append(Chosen(s, A, b), c) ELSE Chosen(s, A, b)
  <1> DEFINE t == Append(s, c)
             n == Len(s)
  <1>1. /\ t \in Seq(C) /\ Len(t) = n + 1 /\ n \in Nat /\ t[n + 1] = c
        /\ \A k \in 1 .. n : t[k] = s[k] /\ s[k] \in C
    BY AppendIdx, ElementOfSeq
  <1> HIDE DEF t, n
  <1>2. PICK f : Chooses(f, s, A, b, n) /\ Chosen(s, A, b) = f[n]
    BY <1>1, ChosenIsLast DEF n
  <1>3. PICK g : Chooses(g, t, A, b, n + 1) /\ Chosen(t, A, b) = g[n + 1]
    <2>1. Len(t) \in Nat
      BY <1>1
    <2> QED BY <1>1, <2>1, ChosenIsLast
  <1>4. n + 1 \in Nat /\ n <= n + 1 /\ n \in 0 .. n /\ n + 1 \in 0 .. n + 1 /\ n + 1 # 0 /\ (n + 1) - 1 = n
    BY <1>1
  <1>5. f[n] = g[n] /\ f[n] \in Seq(C)
    BY <1>1, <1>2, <1>3, <1>4, ChoosesPrefix
  <1>6. g[n + 1] = ChosenFrom(g, t, A, b, n + 1)
    BY <1>3, <1>4 DEF Chooses
  <1>7. g[n + 1] = IF (c \in A) = b THEN Append(g[n], c) ELSE g[n]
    BY <1>1, <1>4, <1>6 DEF ChosenFrom
  <1> QED BY <1>2, <1>3, <1>5, <1>7 DEF t

LEMMA OnceAppend ==
  ASSUME NEW C, NEW s \in Seq(C), NEW c \in C
  PROVE  /\ Range(Append(s, c)) = Range(s) \cup {c}
         /\ Once(Append(s, c)) <=> Once(s) /\ c \notin Range(s)
  <1> DEFINE t == Append(s, c)
             n == Len(s)
  <1>1. /\ n \in Nat /\ DOMAIN s = 1 .. n /\ DOMAIN t = 1 .. n + 1
        /\ t[n + 1] = c /\ \A k \in 1 .. n : t[k] = s[k]
    BY AppendIdx
  <1>2. /\ \A k \in 1 .. n + 1 : k \in 1 .. n \/ k = n + 1
        /\ \A k \in 1 .. n : k \in 1 .. n + 1 /\ k # n + 1
        /\ n + 1 \in 1 .. n + 1
    BY <1>1
  <1> HIDE DEF t, n
  <1>3. Range(t) = Range(s) \cup {c}
    BY <1>1, <1>2 DEF Range
  <1>4. Once(t) => Once(s) /\ c \notin Range(s)
    BY <1>1, <1>2 DEF Range, Once
  <1>5. Once(s) /\ c \notin Range(s) => Once(t)
    BY <1>1, <1>2 DEF Range, Once
  <1> QED BY <1>3, <1>4, <1>5 DEF t

\* What choosing does to a sequence.
ChosenOk(C, s, A) ==
    /\ \A b \in BOOLEAN : /\ Chosen(s, A, b) \in Seq(C)
                          /\ Range(Chosen(s, A, b)) = {c \in Range(s) : (c \in A) = b}
                          /\ Once(s) => Once(Chosen(s, A, b))
                          /\ Chosen(Chosen(s, A, b), A, b) = Chosen(s, A, b)
                          /\ Chosen(Chosen(s, A, b), A, ~b) = << >>
    /\ Once(Chosen(s, A, TRUE)) /\ Once(Chosen(s, A, FALSE)) => Once(s)

LEMMA ChosenNoneOk ==
  ASSUME NEW C, NEW A PROVE ChosenOk(C, << >>, A)
  <1>1. \A b : Chosen(<< >>, A, b) = << >>
    BY ChosenNone
  <1>2. << >> \in Seq(C) /\ Range(<< >>) = {} /\ Once(<< >>)
    BY DEF Range, Once
  <1> QED BY <1>1, <1>2 DEF ChosenOk

LEMMA ChosenAppendOk ==
  ASSUME NEW C, NEW s \in Seq(C), NEW A, NEW c \in C, ChosenOk(C, s, A)
  PROVE  ChosenOk(C, Append(s, c), A)
  <1> DEFINE t == Append(s, c)
             k == (c \in A)
  <1>1. \A b \in BOOLEAN : Chosen(s, A, b) \in Seq(C) /\ Chosen(t, A, b) = IF k = b THEN Append(Chosen(s, A, b), c) ELSE Chosen(s, A, b)
    BY ChosenAppend
  <1>2. Range(t) = Range(s) \cup {c} /\ (Once(t) <=> Once(s) /\ c \notin Range(s)) /\ t \in Seq(C)
    BY OnceAppend
  <1>3. k \in BOOLEAN
    OBVIOUS
  <1>4. ASSUME NEW b \in BOOLEAN, k # b
        PROVE  /\ Chosen(t, A, b) = Chosen(s, A, b) /\ Chosen(t, A, b) \in Seq(C)
               /\ Range(Chosen(t, A, b)) = {d \in Range(t) : (d \in A) = b}
               /\ Once(t) => Once(Chosen(t, A, b))
               /\ Chosen(Chosen(t, A, b), A, b) = Chosen(t, A, b)
               /\ Chosen(Chosen(t, A, b), A, ~b) = << >>
    <2>1. Chosen(t, A, b) = Chosen(s, A, b)
      BY <1>1, <1>4
    <2>2. {d \in Range(t) : (d \in A) = b} = {d \in Range(s) : (d \in A) = b}
      BY <1>2, <1>4
    <2> HIDE DEF t, k
    <2> QED BY <1>2, <2>1, <2>2 DEF ChosenOk
  <1>5. ASSUME NEW b \in BOOLEAN, k = b
        PROVE  /\ Chosen(t, A, b) = Append(Chosen(s, A, b), c) /\ Chosen(t, A, b) \in Seq(C)
               /\ Range(Chosen(t, A, b)) = {d \in Range(t) : (d \in A) = b}
               /\ Once(Chosen(t, A, b)) <=> Once(Chosen(s, A, b)) /\ c \notin Range(s)
               /\ Chosen(Chosen(t, A, b), A, b) = Chosen(t, A, b)
               /\ Chosen(Chosen(t, A, b), A, ~b) = << >>
    <2> DEFINE x == Chosen(s, A, b)
    <2>1. x \in Seq(C) /\ Chosen(t, A, b) = Append(x, c)
      BY <1>1, <1>5
    <2>2. /\ Range(x) = {d \in Range(s) : (d \in A) = b}
          /\ Chosen(x, A, b) = x /\ Chosen(x, A, ~b) = << >>
      BY DEF ChosenOk
    <2>3. (c \in A) = b /\ (c \in A) # (~b) /\ (~b) \in BOOLEAN
      BY <1>5
    <2> HIDE DEF t, k, x
    <2>4. Range(Append(x, c)) = Range(x) \cup {c} /\ Append(x, c) \in Seq(C)
      BY <2>1, OnceAppend, AppendIdx
    <2>5. Once(Append(x, c)) <=> Once(x) /\ c \notin Range(x)
      BY <2>1, OnceAppend
    <2>6. Chosen(Append(x, c), A, b) = Append(x, c)
      BY <2>1, <2>2, <2>3, ChosenAppend
    <2>7. Chosen(Append(x, c), A, ~b) = << >>
      BY <2>1, <2>2, <2>3, ChosenAppend
    <2>8. Range(Append(x, c)) = {d \in Range(t) : (d \in A) = b}
      BY <1>2, <2>2, <2>3, <2>4
    <2>9. c \in Range(x) <=> c \in Range(s)
      BY <2>2, <2>3
    <2> QED BY <2>1, <2>4, <2>5, <2>6, <2>7, <2>8, <2>9 DEF x
  <1> HIDE DEF t, k
  <1>6. ASSUME NEW b \in BOOLEAN
        PROVE  /\ Chosen(t, A, b) \in Seq(C)
               /\ Range(Chosen(t, A, b)) = {d \in Range(t) : (d \in A) = b}
               /\ Once(t) => Once(Chosen(t, A, b))
               /\ Chosen(Chosen(t, A, b), A, b) = Chosen(t, A, b)
               /\ Chosen(Chosen(t, A, b), A, ~b) = << >>
    <2>1. CASE k = b
      <3>1. Once(s) => Once(Chosen(s, A, b))
        BY DEF ChosenOk
      <3> QED BY <1>2, <1>5, <2>1, <3>1
    <2>2. CASE k # b
      BY <1>4, <2>2
    <2> QED BY <2>1, <2>2
  <1>7. ASSUME Once(Chosen(t, A, TRUE)), Once(Chosen(t, A, FALSE)) PROVE Once(t)
    <2>1. Once(Chosen(s, A, TRUE)) /\ Once(Chosen(s, A, FALSE)) => Once(s)
      BY DEF ChosenOk
    <2>2. CASE k = TRUE
      <3>1. Once(Chosen(s, A, TRUE)) /\ c \notin Range(s)
        BY <1>5, <1>7, <2>2
      <3>2. Chosen(t, A, FALSE) = Chosen(s, A, FALSE)
        BY <1>4, <2>2
      <3> QED BY <1>2, <1>7, <2>1, <3>1, <3>2
    <2>3. CASE k = FALSE
      <3>1. Once(Chosen(s, A, FALSE)) /\ c \notin Range(s)
        BY <1>5, <1>7, <2>3
      <3>2. Chosen(t, A, TRUE) = Chosen(s, A, TRUE)
        BY <1>4, <2>3
      <3> QED BY <1>2, <1>7, <2>1, <3>1, <3>2
    <2> QED BY <1>3, <2>2, <2>3
  <1>8. ChosenOk(C, t, A)
    BY <1>6, <1>7 DEF ChosenOk
  <1> QED BY <1>8 DEF t

LEMMA ChosenFacts ==
  ASSUME NEW C, NEW s \in Seq(C), NEW A PROVE ChosenOk(C, s, A)
  <1> DEFINE G == {t \in Seq(C) : ChosenOk(C, t, A)}
  <1>1. << >> \in G
    BY ChosenNoneOk
  <1>2. \A t \in G, c \in C : Append(t, c) \in G
    BY ChosenAppendOk, AppendIdx
  <1>3. G \in SUBSET Seq(C)
    OBVIOUS
  <1>4. s \in G
    <2> HIDE DEF G
    <2> QED BY <1>1, <1>2, <1>3, SeqInduct
  <1> QED BY <1>4

LEMMA ChosenConcat ==
  ASSUME NEW C, NEW s \in Seq(C), NEW t \in Seq(C), NEW A, NEW b \in BOOLEAN
  PROVE  Chosen(s \o t, A, b) = Chosen(s, A, b) \o Chosen(t, A, b)
  <1> DEFINE G == {u \in Seq(C) : Chosen(s \o u, A, b) = Chosen(s, A, b) \o Chosen(u, A, b)}
  <1>0. Chosen(s, A, b) \in Seq(C)
    BY ChosenFacts DEF ChosenOk
  <1>1. << >> \in G
    <2>1. Chosen(<< >>, A, b) = << >>
      BY ChosenNone
    <2>2. s \o << >> = s /\ Chosen(s, A, b) \o << >> = Chosen(s, A, b)
      BY <1>0, ConcatEmptySeq
    <2>3. << >> \in Seq(C) /\ Chosen(s \o << >>, A, b) = Chosen(s, A, b) \o Chosen(<< >>, A, b)
      <3>1. << >> \in Seq(C)
        OBVIOUS
      <3>2. Chosen(s \o << >>, A, b) = Chosen(s, A, b)
        BY <2>2, Zenon
      <3>3. Chosen(s, A, b) \o Chosen(<< >>, A, b) = Chosen(s, A, b)
        BY <2>1, <2>2, Zenon
      <3> QED BY <3>1, <3>2, <3>3, Zenon
    <2> QED BY <2>3
  <1>2. ASSUME NEW u \in G, NEW c \in C PROVE Append(u, c) \in G
    <2> DEFINE x == Chosen(s, A, b)
               y == Chosen(u, A, b)
    <2>1. u \in Seq(C) /\ Chosen(s \o u, A, b) = x \o y
      OBVIOUS
    <2>2. Append(u, c) \in Seq(C) /\ s \o u \in Seq(C)
      BY <2>1, AppendIdx
    <2>3. x \in Seq(C) /\ y \in Seq(C)
      BY <2>1, ChosenFacts DEF ChosenOk
    <2>4. s \o Append(u, c) = Append(s \o u, c)
      BY <2>1
    <2>5. Chosen(Append(s \o u, c), A, b) = IF (c \in A) = b THEN Append(x \o y, c) ELSE x \o y
      <3> DEFINE w == s \o u
      <3>1. w \in Seq(C) /\ Chosen(w, A, b) = x \o y
        BY <2>1, <2>2
      <3> HIDE DEF w, x, y, G
      <3>2. Chosen(Append(w, c), A, b) = IF (c \in A) = b THEN Append(Chosen(w, A, b), c) ELSE Chosen(w, A, b)
        <4>1. \A v \in Seq(C) : Chosen(Append(v, c), A, b) = IF (c \in A) = b THEN Append(Chosen(v, A, b), c) ELSE Chosen(v, A, b)
          BY ChosenAppend
        <4> QED BY <3>1, <4>1
      <3> QED BY <3>1, <3>2 DEF w
    <2>6. Chosen(Append(u, c), A, b) = IF (c \in A) = b THEN Append(y, c) ELSE y
      BY <2>1, ChosenAppend
    <2> HIDE DEF x, y
    <2>7. x \o Append(y, c) = Append(x \o y, c)
      BY <2>3
    <2>8. Chosen(s \o Append(u, c), A, b) = x \o Chosen(Append(u, c), A, b)
      BY <2>4, <2>5, <2>6, <2>7
    <2> QED BY <2>2, <2>8 DEF x
  <1>3. G \in SUBSET Seq(C)
    OBVIOUS
  <1>4. t \in G
    <2> HIDE DEF G
    <2> QED BY <1>1, <1>2, <1>3, SeqInduct
  <1> QED BY <1>4

-----------------------------------------------------------------------------
(* Agreement *)

\* Two quorums have a correct replica in common, where a faulty leader may lie.
LEMMA QuorumsMeet ==
  ASSUME NEW s \in Scenarios, s.protocol \in {"sbft", "sbftslow", "mirbft"}, NEW lg, NEW i, NEW c, NEW d,
         Cert(s, lg, i, c), Cert(s, lg, i, d)
  PROVE  c = d
  <1> DEFINE V == Voters(s, lg, i, c) \cup Liars(s)
             W == Voters(s, lg, i, d) \cup Liars(s)
  <1>1. /\ s.f \in Nat /\ s.c \in Nat /\ IsFiniteSet(Replicas) /\ s.members \subseteq Replicas
        /\ s.faulty \subseteq s.members /\ Cardinality(s.faulty) <= s.f
        /\ Cardinality(s.members) = size(s) /\ Liars(s) = s.faulty
    BY ScenarioFacts, ClusterAssumption DEF Liars
  <1>2. V \subseteq s.members /\ W \subseteq s.members
    BY <1>1 DEF Voters, Good
  <1>3. Cardinality(V) >= Need(s) /\ Cardinality(W) >= Need(s)
    BY DEF Cert
  <1>4. /\ Cardinality(V) \in Nat /\ Cardinality(W) \in Nat /\ IsFiniteSet(V) /\ IsFiniteSet(W)
        /\ IsFiniteSet(V \cup W) /\ IsFiniteSet(V \cap W) /\ IsFiniteSet(s.faulty)
        /\ Cardinality(V \cup W) <= size(s)
    <2> HIDE DEF V, W
    <2>1. IsFiniteSet(s.members) /\ IsFiniteSet(s.faulty)
      BY <1>1, FS_Subset
    <2>2. V \cup W \subseteq s.members /\ V \cap W \subseteq s.members
      BY <1>2
    <2> QED BY <1>1, <1>2, <2>1, <2>2, FS_Subset, FS_CardinalityType
  <1>5. /\ Cardinality(V \cup W) = Cardinality(V) + Cardinality(W) - Cardinality(V \cap W)
        /\ Cardinality(V \cup W) \in Nat /\ Cardinality(V \cap W) \in Nat /\ Cardinality(s.faulty) \in Nat
    <2> HIDE DEF V, W
    <2> QED BY <1>4, FS_Union, FS_CardinalityType
  <1>6. Need(s) \in Nat /\ size(s) \in Nat /\ 2 * Need(s) > size(s) + s.f
    <2>1. CASE s.protocol = "sbft"
      BY <1>1, <2>1 DEF Need, size
    <2>2. CASE s.protocol = "sbftslow"
      BY <1>1, <2>2 DEF Need, size
    <2>3. CASE s.protocol = "mirbft"
      BY <1>1, <2>3 DEF Need, size
    <2> QED BY <2>1, <2>2, <2>3
  <1>7. Cardinality(V \cap W) > Cardinality(s.faulty)
    <2> HIDE DEF V, W
    <2> QED BY <1>1, <1>3, <1>4, <1>5, <1>6
  <1>8. ~(V \cap W \subseteq s.faulty)
    <2> HIDE DEF V, W
    <2> SUFFICES ASSUME V \cap W \subseteq s.faulty PROVE FALSE
      OBVIOUS
    <2>1. Cardinality(V \cap W) <= Cardinality(s.faulty)
      BY <1>4, FS_Subset
    <2> QED BY <1>5, <1>7, <2>1
  <1>9. PICK q \in V \cap W : q \notin s.faulty
    BY <1>8
  <1>10. q \in Voters(s, lg, i, c) /\ q \in Voters(s, lg, i, d)
    BY <1>1, <1>9
  <1> QED BY <1>10 DEF Voters

\* There is one command for an index that a quorum can have voted for: two quorums
\* share a correct replica, or the leader that proposed the command cannot lie.
LEMMA OneCert ==
  ASSUME NEW s \in Scenarios, s.protocol # "duobft", NEW lg, EntriesOk(s, lg), LeaderOk(s, lg), NEW i,
         NEW c \in Commands, NEW d \in Commands, Cert(s, lg, i, c), Cert(s, lg, i, d)
  PROVE  c = d
  <1>1. s.protocol \in Protocols
    BY ClusterAssumption DEF Scenario
  <1>2. CASE s.protocol \in {"sbft", "sbftslow", "mirbft"}
    BY <1>2, QuorumsMeet
  <1>3. CASE s.protocol \notin {"sbft", "sbftslow", "mirbft"}
    <2>1. s.protocol \in {"linhybster", "minbft", "hybster"}
      BY <1>1, <1>3 DEF Protocols
    <2>2. PICK q \in Good(s) : q \in Voters(s, lg, i, c)
      BY CertHasVoter
    <2>3. DOMAIN lg[q] # {}
      BY <2>2 DEF Voters
    <2>4. Leader \in Good(s)
      BY <2>1, <2>2, <2>3 DEF LeaderOk, LeaderFine
    <2>5. Proposed(s, lg, i, c) /\ Proposed(s, lg, i, d)
      BY CertIsProposed
    <2>6. Proposer(s, i) = Leader
      BY <2>1 DEF Proposer
    <2> QED BY <2>4, <2>5, <2>6 DEF Proposed
  <1> QED BY <1>2, <1>3

\* What two correct replicas have executed does not differ where both have executed.
LEMMA CoreOrders ==
  ASSUME Core, cfg.protocol # "duobft", NEW r \in Correct, NEW q \in Correct
  PROVE  Compatible(executed[r], executed[q])
  <1>1. /\ cfg \in Scenarios /\ Correct = Good(cfg) /\ executed[r] \in Seq(Commands) /\ executed[q] \in Seq(Commands)
    BY CoreFacts
  <1>2. /\ EntriesOk(cfg, log) /\ LeaderOk(cfg, log)
        /\ \A k \in 1 .. Len(executed[r]) : Cert(cfg, log, k - 1, executed[r][k])
        /\ \A k \in 1 .. Len(executed[q]) : Cert(cfg, log, k - 1, executed[q][k])
    BY <1>1 DEF Core, LogsOk, ExecOk
  <1>3. ASSUME NEW k \in 1 .. Len(executed[r]), k \in 1 .. Len(executed[q])
        PROVE  executed[r][k] = executed[q][k]
    <2>1. executed[r][k] \in Commands /\ executed[q][k] \in Commands
      BY <1>1, <1>3, ElementOfSeq
    <2>2. Cert(cfg, log, k - 1, executed[r][k]) /\ Cert(cfg, log, k - 1, executed[q][k])
      BY <1>2, <1>3
    <2> QED BY <1>1, <1>2, <2>1, <2>2, OneCert
  <1> QED BY <1>3 DEF Compatible

-----------------------------------------------------------------------------
(* What a step executes *)

\* One correct replica executes more, the others nothing.
GrowsAt(r) == \E T : \E t \in Seq(T) : executed' = [executed EXCEPT ![r] = @ \o t]
Grows == cfg' = cfg /\ (executed' = executed \/ \E r \in Correct : GrowsAt(r))

LEMMA GrowsPrefix ==
  ASSUME executed \in [Replicas -> Seq(Commands)], NEW r \in Replicas, GrowsAt(r)
  PROVE  /\ \A q \in Replicas \ {r} : executed'[q] = executed[q]
         /\ Len(executed[r]) <= Len(executed'[r]) /\ Compatible(executed[r], executed'[r])
  <1>0. PICK T : \E t \in Seq(T) : executed' = [executed EXCEPT ![r] = @ \o t]
    BY DEF GrowsAt
  <1>1. PICK t \in Seq(T) : executed' = [executed EXCEPT ![r] = @ \o t]
    BY <1>0
  <1>2. executed'[r] = executed[r] \o t /\ \A q \in Replicas \ {r} : executed'[q] = executed[q]
    BY <1>1
  <1>3. executed[r] \in Seq(Commands \cup T) /\ t \in Seq(Commands \cup T)
    BY SeqOfMore
  <1>4. /\ Len(executed[r] \o t) = Len(executed[r]) + Len(t) /\ Len(t) \in Nat /\ Len(executed[r]) \in Nat
        /\ \A k \in 1 .. Len(executed[r]) : (executed[r] \o t)[k] = executed[r][k]
    BY <1>3, ConcatProperties, LenProperties
  <1> QED BY <1>2, <1>4 DEF Compatible

\* exec executes the commands of a part of a log.
LEMMA ExecGrows ==
  ASSUME execIdx \in [Replicas -> 0 .. MaxIndex], NEW r \in Replicas, NEW L, NEW P,
         executed' = [executed EXCEPT ![r] = @ \o CommandsOf(L, execIdx[r], loopEnd(execIdx[r], P))]
  PROVE  GrowsAt(r)
  <1> DEFINE n == loopEnd(execIdx[r], P) - execIdx[r]
             t == CommandsOf(L, execIdx[r], loopEnd(execIdx[r], P))
             T == {t[k] : k \in 1 .. n}
  <1>1. n \in Nat
    BY LoopEnd, ClusterAssumption
  <1>2. t \in [1 .. n -> T]
    BY DEF CommandsOf
  <1> HIDE DEF n, t, T
  <1>3. t \in Seq(T)
    BY <1>1, <1>2, FunctionIsSequence
  <1> QED BY <1>3 DEF GrowsAt, t

-----------------------------------------------------------------------------
(* The total order *)

LongestOf(G, d) == d[CHOOSE r \in G : \A s \in G : Len(d[s]) <= Len(d[r])]

IsPrefixOf(s, t) == Len(s) <= Len(t) /\ \A i \in 1 .. Len(s) : s[i] = t[i]

\* Deliver of TotalOrder, of a replica r that takes d to e and the order from o to p.
Delivers(d, e, o, p, r) ==
    /\ e[r] \in Seq(Commands) \ {d[r]}
    /\ IsPrefixOf(d[r], e[r])
    /\ \A s \in Replicas \ {r} : e[s] = d[s]
    /\ IsPrefixOf(e[r], p) /\ IsPrefixOf(o, p)
    /\ p \in {o, e[r]}

LEMMA LongestIs ==
  ASSUME NEW G, IsFiniteSet(G), G # {}, NEW d, \A r \in G : d[r] \in Seq(Commands)
  PROVE  \E q \in G : Longest([r \in G |-> d[r]], G, q) /\ LongestOf(G, d) = d[q]
  <1> DEFINE f == [r \in G |-> d[r]]
             q == CHOOSE r \in G : \A s \in G : Len(d[s]) <= Len(d[r])
  <1>1. f \in [G -> Seq(Commands)] /\ \A r \in G : f[r] = d[r]
    OBVIOUS
  <1> HIDE DEF f
  <1>2. PICK p \in G : Longest(f, G, p)
    BY <1>1, LongestExists
  <1>3. \A s \in G : Len(d[s]) <= Len(d[p])
    BY <1>1, <1>2 DEF Longest
  <1>4. q \in G /\ \A s \in G : Len(d[s]) <= Len(d[q])
    BY <1>3
  <1>5. LongestOf(G, d) = d[q]
    BY DEF LongestOf
  <1> HIDE DEF q
  <1>6. Longest(f, G, q)
    BY <1>1, <1>4 DEF Longest
  <1> QED BY <1>4, <1>5, <1>6 DEF f

\* When one replica goes on, and all agree before and after, it delivers more of one order.
LEMMA OrderStep ==
  ASSUME NEW G \in SUBSET Replicas, IsFiniteSet(G), NEW d \in [Replicas -> Seq(Commands)],
         NEW e \in [Replicas -> Seq(Commands)],
         \A s, t \in G : Compatible(d[s], d[t]), \A s, t \in G : Compatible(e[s], e[t]),
         NEW r \in G, \A s \in Replicas \ {r} : e[s] = d[s], Len(d[r]) <= Len(e[r]), Compatible(d[r], e[r]),
         e[r] # d[r]
  PROVE  Delivers(d, e, LongestOf(G, d), LongestOf(G, e), r)
  <1> DEFINE x == [s \in G |-> d[s]]
             y == [s \in G |-> e[s]]
  <1>1. /\ x \in [G -> Seq(Commands)] /\ \A s \in G : x[s] = d[s]
        /\ y \in [G -> Seq(Commands)] /\ \A s \in G : y[s] = e[s]
    OBVIOUS
  <1>2. PICK p \in G : Longest(x, G, p) /\ LongestOf(G, d) = d[p]
    BY LongestIs
  <1>3. PICK q \in G : Longest(y, G, q) /\ LongestOf(G, e) = e[q]
    BY LongestIs
  <1> HIDE DEF x, y
  <1>4. /\ \A s, t \in G : Compatible(x[s], x[t]) /\ Compatible(y[s], y[t])
        /\ \A s \in G \ {r} : y[s] = x[s]
        /\ Len(x[r]) <= Len(y[r]) /\ Compatible(x[r], y[r])
    BY <1>1
  <1>5. /\ Len(y[r]) <= Len(y[q]) /\ \A i \in 1 .. Len(y[r]) : y[r][i] = y[q][i]
        /\ Len(x[p]) <= Len(y[q]) /\ \A i \in 1 .. Len(x[p]) : x[p][i] = y[q][i]
        /\ y[q] \in {x[p], y[r]}
    BY <1>1, <1>2, <1>3, <1>4, LongestGrows
  <1>6. x[p] = d[p] /\ y[q] = e[q] /\ x[r] = d[r] /\ y[r] = e[r]
    BY <1>1
  <1>7. IsPrefixOf(d[r], e[r])
    <2>1. Len(d[r]) \in Nat /\ Len(e[r]) \in Nat
      BY LenProperties
    <2> QED BY <2>1 DEF IsPrefixOf, Compatible
  <1>8. IsPrefixOf(e[r], e[q]) /\ IsPrefixOf(d[p], e[q]) /\ e[q] \in {d[p], e[r]}
    BY <1>5, <1>6 DEF IsPrefixOf
  <1> QED BY <1>2, <1>3, <1>7, <1>8 DEF Delivers

-----------------------------------------------------------------------------
(* The sequence numbers of MirBFT *)

LEMMA ModIs ==
  ASSUME NEW n \in Nat, n > 0, NEW k \in 0 .. n - 1, NEW m \in Nat PROVE (k + n * m) % n = k
  <1> DEFINE x == k + n * m
             q == x \div n
             t == x % n
  <1>1. n * m \in Nat
    OBVIOUS
  <1>2. x \in Nat
    BY <1>1
  <1>3. x = n * q + t /\ q \in Int /\ t \in 0 .. n - 1
    <2> HIDE DEF x
    <2> QED BY <1>2
  <1> HIDE DEF q, t
  <1>4. k + n * m = n * q + t
    BY <1>3
  <1>5. m = q
    <2>1. CASE m > q
      <3>1. m >= q + 1
        BY <1>3, <2>1
      <3>2. n * m >= n * (q + 1)
        BY <1>3, <3>1
      <3>3. n * (q + 1) = n * q + n
        BY <1>3
      <3> QED BY <1>1, <1>3, <1>4, <3>2, <3>3
    <2>2. CASE m < q
      <3>1. q >= m + 1
        BY <1>3, <2>2
      <3>2. n * q >= n * (m + 1)
        BY <1>3, <3>1
      <3>3. n * (m + 1) = n * m + n
        BY <1>3
      <3> QED BY <1>1, <1>3, <1>4, <3>2, <3>3
    <2> QED BY <1>3, <2>1, <2>2
  <1>6. k = t
    BY <1>1, <1>3, <1>4, <1>5
  <1> QED BY <1>6 DEF t, x

Id(s, r) == CHOOSE k \in 0 .. Cardinality(s.members) - 1 : s.peers[k + 1] = r
\* The index of the next proposal of r.
NextOf(s, ix, r) == Id(s, r) + Cardinality(s.members) * ix[r]
\* What MirBFT's instances have besides: a command until it is executed, a proposer with
\* clients, and an index before the next one if they are the replica's own.
MirEntry(s, ix, r, i, e) ==
    /\ e.status # "Executed" => e.command # Nil
    /\ Proposer(s, i) \in s.clients
    /\ Proposer(s, i) = r => i < NextOf(s, ix, r)

MirOk(s, lg, ix) ==
    s.protocol = "mirbft" => \A r \in Good(s) : \A i \in DOMAIN lg[r] : MirEntry(s, ix, r, i, lg[r][i])
LEMMA MPeers ==
  ASSUME NEW s \in Scenarios, s.protocol = "mirbft", NEW r \in s.members
  PROVE  /\ Cardinality(s.members) \in Nat /\ Cardinality(s.members) > 0
         /\ Id(s, r) \in 0 .. Cardinality(s.members) - 1 /\ s.peers[Id(s, r) + 1] = r
  <1>1. s.f \in Nat /\ size(s) = 3 * s.f + 1
    BY ScenarioFacts DEF size
  <1>2. Cardinality(s.members) = size(s) /\ s.peers \in Bijection(1 .. size(s), s.members)
    BY ClusterAssumption
  <1>3. \E k \in 1 .. size(s) : s.peers[k] = r
    BY <1>2 DEF Bijection, Surjection
  <1>4. PICK k \in 1 .. size(s) : s.peers[k] = r
    BY <1>3
  <1> DEFINE j == k - 1
  <1>5. j \in 0 .. size(s) - 1 /\ j + 1 = k
    BY <1>1, <1>4
  <1>6. j \in 0 .. Cardinality(s.members) - 1 /\ s.peers[j + 1] = r
    BY <1>2, <1>4, <1>5
  <1> HIDE DEF j
  <1>7. Id(s, r) \in 0 .. Cardinality(s.members) - 1 /\ s.peers[Id(s, r) + 1] = r
    BY <1>6 DEF Id
  <1> QED BY <1>1, <1>2, <1>7

\* The next index of r is its own, and the one after is greater.
LEMMA MNextOf ==
  ASSUME NEW s \in Scenarios, s.protocol = "mirbft", NEW r \in s.members, NEW ix, ix[r] \in Nat
  PROVE  /\ NextOf(s, ix, r) \in Nat /\ Proposer(s, NextOf(s, ix, r)) = r
         /\ \A iy : iy[r] = ix[r] + 1 => NextOf(s, iy, r) \in Nat /\ NextOf(s, iy, r) > NextOf(s, ix, r)
  <1> DEFINE n == Cardinality(s.members)
             k == Id(s, r)
             m == ix[r]
  <1>1. n \in Nat /\ n > 0 /\ k \in 0 .. n - 1 /\ s.peers[k + 1] = r /\ m \in Nat
    BY MPeers
  <1>2. NextOf(s, ix, r) = k + n * m /\ \A iy : iy[r] = m + 1 => NextOf(s, iy, r) = k + n * (m + 1)
    BY DEF NextOf
  <1>3. Proposer(s, k + n * m) = s.peers[((k + n * m) % n) + 1]
    BY DEF Proposer
  <1>4. \A iy : iy[r] = ix[r] + 1 => iy[r] = m + 1
    OBVIOUS
  <1> HIDE DEF n, k, m
  <1>5. (k + n * m) % n = k
    BY <1>1, ModIs
  <1>6. n * m \in Nat /\ n * (m + 1) = n * m + n
    BY <1>1
  <1>7. k + n * m \in Nat /\ k + n * (m + 1) \in Nat /\ k + n * (m + 1) > k + n * m
    BY <1>1, <1>6
  <1> QED BY <1>1, <1>2, <1>3, <1>4, <1>5, <1>7

-----------------------------------------------------------------------------
(* The invariant of DuoBFT *)

DuoRecord ==
    [status : {"Prepared", "PreCommitted", "Committed", "Executed"},
     tStatus : {"TPrepared", "TCommitted", "TExecuted"},
     command : Commands, voted : BOOLEAN, cVoted : BOOLEAN]

DuoLogs == UNION {[dom -> DuoRecord] : dom \in SUBSET Nat}
DVoters(s, lg, i) == {q \in Good(s) : i \in DOMAIN lg[q] /\ lg[q][i].voted}
DCVoters(s, lg, i) == {q \in Good(s) : i \in DOMAIN lg[q] /\ lg[q][i].cVoted}
\* What the leader has proposed, and the first m commands of it.
Plan(lg) == [i \in DOMAIN lg[Leader] |-> lg[Leader][i].command]
Firsts(pl, m) == [k \in 1 .. m |-> pl[k - 1]]
\* Instance e for index i holds the leader's proposal, and has passed the tests of the votes.
DuoEntry(s, lg, i, e) ==
    /\ Leader \in Good(s) /\ i \in DOMAIN lg[Leader] /\ lg[Leader][i].voted
    /\ e.command = Plan(lg)[i]
    /\ e.tStatus # "TPrepared" => Cardinality(DVoters(s, lg, i)) >= s.f + 1
    /\ e.status \in {"Committed", "Executed"} => Cardinality(DCVoters(s, lg, i)) >= 2 * s.f + 1

\* The instances of log L that texec has passed.
TExecuted(L) == {i \in DOMAIN L : L[i].tStatus = "TExecuted"}
TEnd(L) == loopEnd(0, TExecuted(L))
\* Of its log L a replica has executed, as x, the commands with a Command.Meta that are before
\* TEnd, and those without one that are before n, each in the leader's order.
DuoExec(s, pl, L, n, x) ==
    /\ x \in Seq(Commands) /\ n \in 0 .. MaxIndex
    /\ \A i \in 0 .. n - 1 : i \in DOMAIN L /\ L[i].status = "Executed"
    /\ \A i \in TExecuted(L) : i < TEnd(L)
    /\ Chosen(x, s.meta, TRUE) = Chosen(Firsts(pl, TEnd(L)), s.meta, TRUE)
    /\ Chosen(x, s.meta, FALSE) = Chosen(Firsts(pl, n), s.meta, FALSE)

\* The leader proposes each command once.
DuoPlan(s, req, ix, pl) ==
    Leader \in Good(s) => \A i \in DOMAIN pl : /\ i < ix[Leader] /\ pl[i] \in req
                                               /\ \A j \in DOMAIN pl : pl[i] = pl[j] => i = j

DuoOk(s, req, ix, lg, n, x) ==
    /\ s \in Scenarios /\ s.protocol = "duobft" /\ req \subseteq Commands /\ ix \in [Replicas -> Nat]
    /\ lg \in [Replicas -> DuoLogs] /\ n \in [Replicas -> 0 .. MaxIndex] /\ x \in [Replicas -> Seq(Commands)]
    /\ DuoPlan(s, req, ix, Plan(lg))
    /\ \A r \in Good(s) : /\ \A i \in DOMAIN lg[r] : DuoEntry(s, lg, i, lg[r][i])
                          /\ DuoExec(s, Plan(lg), lg[r], n[r], x[r])

DuoInv ==
    /\ DuoOk(cfg, requested, index, log, execIdx, executed)
    /\ answered = [c \in Commands |-> 0]

\* Log L2 of a replica has come from K.
DuoAdvances(K, L2) ==
    \A i \in DOMAIN K : /\ i \in DOMAIN L2 /\ L2[i].command = K[i].command
                        /\ K[i].voted => L2[i].voted
                        /\ K[i].cVoted => L2[i].cVoted

LEMMA DLogType ==
  ASSUME NEW L \in DuoLogs
  PROVE  DOMAIN L \subseteq Nat /\ \A i \in DOMAIN L : L[i] \in DuoRecord
  BY DEF DuoLogs

LEMMA DLogIs ==
  ASSUME NEW dom \in SUBSET Nat, NEW L \in [dom -> DuoRecord] PROVE L \in DuoLogs
  BY DEF DuoLogs

\* Votes are for good.
LEMMA DVotersGrow ==
  ASSUME NEW s \in Scenarios, NEW lg \in [Replicas -> DuoLogs], NEW r \in Good(s), NEW L2,
         DuoAdvances(lg[r], L2), NEW i
  PROVE  LET lg2 == [lg EXCEPT ![r] = L2]
         IN  /\ Cardinality(DVoters(s, lg, i)) <= Cardinality(DVoters(s, lg2, i))
             /\ Cardinality(DCVoters(s, lg, i)) <= Cardinality(DCVoters(s, lg2, i))
             /\ Cardinality(DVoters(s, lg, i)) \in Nat /\ Cardinality(DVoters(s, lg2, i)) \in Nat
             /\ Cardinality(DCVoters(s, lg, i)) \in Nat /\ Cardinality(DCVoters(s, lg2, i)) \in Nat
  <1> DEFINE lg2 == [lg EXCEPT ![r] = L2]
             A == DVoters(s, lg, i)
             A2 == DVoters(s, lg2, i)
             B == DCVoters(s, lg, i)
             B2 == DCVoters(s, lg2, i)
  <1>1. r \in Replicas /\ Good(s) \subseteq Replicas /\ IsFiniteSet(Replicas)
    BY ScenarioFacts
  <1>2. lg2[r] = L2 /\ \A q \in Good(s) \ {r} : lg2[q] = lg[q]
    BY <1>1
  <1> HIDE DEF lg2
  <1>3. A \subseteq A2 /\ B \subseteq B2
    BY <1>2 DEF DVoters, DCVoters, DuoAdvances
  <1>4. A2 \subseteq Replicas /\ B2 \subseteq Replicas
    BY <1>1 DEF DVoters, DCVoters
  <1> HIDE DEF A, A2, B, B2
  <1>5. IsFiniteSet(A2) /\ IsFiniteSet(B2)
    BY <1>1, <1>4, FS_Subset
  <1>6. IsFiniteSet(A) /\ Cardinality(A) <= Cardinality(A2)
    BY <1>3, <1>5, FS_Subset
  <1>7. IsFiniteSet(B) /\ Cardinality(B) <= Cardinality(B2)
    BY <1>3, <1>5, FS_Subset
  <1>8. Cardinality(A) \in Nat /\ Cardinality(A2) \in Nat /\ Cardinality(B) \in Nat /\ Cardinality(B2) \in Nat
    BY <1>5, <1>6, <1>7, FS_CardinalityType
  <1> QED BY <1>6, <1>7, <1>8 DEF A, A2, B, B2, lg2

LEMMA DEntryStays ==
  ASSUME NEW s \in Scenarios, NEW lg \in [Replicas -> DuoLogs], NEW r \in Good(s), NEW L2,
         DuoAdvances(lg[r], L2), NEW i, NEW e, DuoEntry(s, lg, i, e)
  PROVE  DuoEntry(s, [lg EXCEPT ![r] = L2], i, e)
  <1> DEFINE lg2 == [lg EXCEPT ![r] = L2]
  <1>1. r \in Replicas /\ Leader \in Replicas /\ s.f \in Nat
    BY ScenarioFacts, ClusterAssumption
  <1>2. lg2[r] = L2 /\ \A q \in Replicas \ {r} : lg2[q] = lg[q]
    BY <1>1
  <1>3. /\ Cardinality(DVoters(s, lg, i)) <= Cardinality(DVoters(s, lg2, i))
        /\ Cardinality(DCVoters(s, lg, i)) <= Cardinality(DCVoters(s, lg2, i))
        /\ Cardinality(DVoters(s, lg, i)) \in Nat /\ Cardinality(DVoters(s, lg2, i)) \in Nat
        /\ Cardinality(DCVoters(s, lg, i)) \in Nat /\ Cardinality(DCVoters(s, lg2, i)) \in Nat
    BY DVotersGrow
  <1> HIDE DEF lg2
  <1>4. i \in DOMAIN lg2[Leader] /\ lg2[Leader][i].voted /\ Plan(lg2)[i] = Plan(lg)[i]
    BY <1>1, <1>2 DEF DuoEntry, DuoAdvances, Plan
  <1>5. /\ e.tStatus # "TPrepared" => Cardinality(DVoters(s, lg2, i)) >= s.f + 1
        /\ e.status \in {"Committed", "Executed"} => Cardinality(DCVoters(s, lg2, i)) >= 2 * s.f + 1
    <2>1. s.f + 1 \in Nat /\ 2 * s.f + 1 \in Nat
      BY <1>1
    <2> QED BY <1>3, <2>1 DEF DuoEntry
  <1>6. DuoEntry(s, lg2, i, e)
    BY <1>4, <1>5 DEF DuoEntry
  <1> QED BY <1>6 DEF lg2

\* A handler of r leaves it with log L2, execIdx m and the executed commands y.
LEMMA DStep ==
  ASSUME NEW s, NEW req, NEW ix, NEW lg, NEW n, NEW x, DuoOk(s, req, ix, lg, n, x),
         NEW r \in Good(s), NEW L2 \in DuoLogs, DuoAdvances(lg[r], L2),
         r = Leader => DOMAIN L2 = DOMAIN lg[r], NEW m, NEW y,
         \A i \in DOMAIN L2 : DuoEntry(s, [lg EXCEPT ![r] = L2], i, L2[i]),
         DuoExec(s, Plan(lg), L2, m, y)
  PROVE  DuoOk(s, req, ix, [lg EXCEPT ![r] = L2], [n EXCEPT ![r] = m], [x EXCEPT ![r] = y])
  <1> DEFINE lg2 == [lg EXCEPT ![r] = L2]
             n2 == [n EXCEPT ![r] = m]
             x2 == [x EXCEPT ![r] = y]
  <1>1. /\ s \in Scenarios /\ s.protocol = "duobft" /\ req \subseteq Commands /\ ix \in [Replicas -> Nat]
        /\ lg \in [Replicas -> DuoLogs] /\ n \in [Replicas -> 0 .. MaxIndex] /\ x \in [Replicas -> Seq(Commands)]
        /\ DuoPlan(s, req, ix, Plan(lg))
    BY DEF DuoOk
  <1>2. r \in Replicas /\ Good(s) \subseteq Replicas /\ Leader \in Replicas
    BY <1>1, ScenarioFacts, ClusterAssumption
  <1>3. /\ lg2 \in [Replicas -> DuoLogs] /\ lg2[r] = L2 /\ \A q \in Replicas \ {r} : lg2[q] = lg[q]
        /\ \A q \in Replicas \ {r} : n2[q] = n[q] /\ x2[q] = x[q]
        /\ n2[r] = m /\ x2[r] = y
    BY <1>1, <1>2
  <1>4. n2 \in [Replicas -> 0 .. MaxIndex] /\ x2 \in [Replicas -> Seq(Commands)]
    BY <1>1, <1>2 DEF DuoExec
  <1>5. \A q \in Good(s) : \A i \in DOMAIN lg[q] : DuoEntry(s, lg2, i, lg[q][i])
    BY <1>1, DEntryStays DEF DuoOk
  <1> HIDE DEF lg2, n2, x2
  <1>6. Plan(lg2) = Plan(lg)
    <2>1. CASE r = Leader
      BY <1>2, <1>3, <2>1 DEF Plan, DuoAdvances
    <2>2. CASE r # Leader
      BY <1>2, <1>3, <2>2 DEF Plan
    <2> QED BY <2>1, <2>2
  <1>7. ASSUME NEW q \in Good(s)
        PROVE  /\ \A i \in DOMAIN lg2[q] : DuoEntry(s, lg2, i, lg2[q][i])
               /\ DuoExec(s, Plan(lg2), lg2[q], n2[q], x2[q])
    <2>1. CASE q = r
      BY <1>3, <1>6, <2>1 DEF lg2
    <2>2. CASE q # r
      <3>1. lg2[q] = lg[q] /\ n2[q] = n[q] /\ x2[q] = x[q]
        BY <1>2, <1>3, <2>2
      <3>2. DuoExec(s, Plan(lg), lg[q], n[q], x[q])
        BY DEF DuoOk
      <3> QED BY <1>5, <1>6, <3>1, <3>2
    <2> QED BY <2>1, <2>2
  <1>8. DuoOk(s, req, ix, lg2, n2, x2)
    BY <1>1, <1>3, <1>4, <1>6, <1>7 DEF DuoOk
  <1> QED BY <1>8 DEF lg2, n2, x2

\* The loop ends at the bound or at an instance that does not pass.
LEMMA LoopStops ==
  ASSUME NEW i \in 0 .. MaxIndex, NEW P
  PROVE  loopEnd(i, P) = MaxIndex \/ loopEnd(i, P) \notin P
  <1> DEFINE T == {m \in i .. MaxIndex : m = MaxIndex \/ m \notin P}
  <1>1. MaxIndex \in Nat /\ i \in Nat
    BY ClusterAssumption
  <1>2. T \in SUBSET Nat /\ MaxIndex \in T
    BY <1>1
  <1>3. \E m \in T : \A j \in T : m <= j
    <2> HIDE DEF T
    <2> QED BY <1>2, LeastNumber
  <1>4. loopEnd(i, P) = CHOOSE m \in T : \A j \in T : m <= j
    BY DEF loopEnd, Min
  <1>5. loopEnd(i, P) \in T
    <2> HIDE DEF T
    <2> QED BY <1>3, <1>4
  <1> QED BY <1>5

LEMMA TEndIs ==
  ASSUME NEW L \in DuoLogs, NEW m \in 0 .. MaxIndex, \A i \in 0 .. m - 1 : i \in TExecuted(L),
         \A i \in TExecuted(L) : i < m
  PROVE  TEnd(L) = m
  <1> DEFINE t == loopEnd(0, TExecuted(L))
  <1>1. MaxIndex \in Nat /\ 0 \in 0 .. MaxIndex /\ m \in Nat /\ m <= MaxIndex
    BY ClusterAssumption
  <1>2. t \in 0 .. MaxIndex /\ \A i \in 0 .. t - 1 : i \in TExecuted(L)
    BY <1>1, LoopEnd
  <1>3. t = MaxIndex \/ t \notin TExecuted(L)
    BY <1>1, LoopStops
  <1> HIDE DEF t
  <1>4. ~(t < m)
    BY <1>1, <1>2, <1>3
  <1>5. ~(m < t)
    BY <1>1, <1>2
  <1>6. t = m
    BY <1>1, <1>2, <1>4, <1>5
  <1> QED BY <1>6 DEF TEnd, t

LEMMA TEndFacts ==
  ASSUME NEW L
  PROVE  TEnd(L) \in 0 .. MaxIndex /\ \A i \in 0 .. TEnd(L) - 1 : i \in TExecuted(L)
  <1>1. 0 \in 0 .. MaxIndex
    BY ClusterAssumption
  <1> QED BY <1>1, LoopEnd DEF TEnd

\* The first commands, and those that follow.
LEMMA FirstsType ==
  ASSUME NEW pl, NEW m \in Nat, \A i \in 0 .. m - 1 : pl[i] \in Commands
  PROVE  Firsts(pl, m) \in Seq(Commands) /\ Len(Firsts(pl, m)) = m
  <1>1. \A k \in 1 .. m : k - 1 \in 0 .. m - 1
    OBVIOUS
  <1>2. Firsts(pl, m) \in [1 .. m -> Commands]
    BY <1>1 DEF Firsts
  <1> QED BY <1>2, FunctionIsSequence

LEMMA FirstsMore ==
  ASSUME NEW pl, NEW a \in Nat, NEW b \in Nat, a <= b, \A i \in 0 .. b - 1 : pl[i] \in Commands, NEW L,
         \A i \in a .. b - 1 : L[i].command = pl[i]
  PROVE  /\ CommandsOf(L, a, b) \in Seq(Commands) /\ Firsts(pl, a) \in Seq(Commands)
         /\ Firsts(pl, b) = Firsts(pl, a) \o CommandsOf(L, a, b)
  <1> DEFINE u == CommandsOf(L, a, b)
             v == Firsts(pl, a)
             w == Firsts(pl, b)
             d == b - a
  <1>1. d \in Nat /\ a + d = b
    OBVIOUS
  <1>2. \A k \in 1 .. d : a + k - 1 \in a .. b - 1 /\ a + k - 1 \in 0 .. b - 1
    OBVIOUS
  <1>3. u \in [1 .. d -> Commands] /\ \A k \in 1 .. d : u[k] = pl[a + k - 1]
    <2>1. \A k \in 1 .. d : L[a + k - 1].command = pl[a + k - 1] /\ pl[a + k - 1] \in Commands
      BY <1>2
    <2> QED BY <2>1 DEF CommandsOf
  <1>4. v \in Seq(Commands) /\ Len(v) = a /\ w \in Seq(Commands) /\ Len(w) = b
    <2>1. \A i \in 0 .. a - 1 : pl[i] \in Commands
      OBVIOUS
    <2> QED BY <2>1, FirstsType
  <1>5. (\A k \in 1 .. a : v[k] = pl[k - 1]) /\ \A k \in 1 .. b : w[k] = pl[k - 1]
    BY DEF Firsts
  <1> HIDE DEF u, v, w, d
  <1>6. u \in Seq(Commands) /\ Len(u) = d
    BY <1>1, <1>3, FunctionIsSequence
  <1>7. /\ v \o u \in Seq(Commands) /\ Len(v \o u) = b
        /\ \A k \in 1 .. b : (v \o u)[k] = IF k <= a THEN v[k] ELSE u[k - a]
    <2>1. /\ v \o u \in Seq(Commands) /\ Len(v \o u) = Len(v) + Len(u)
          /\ \A k \in 1 .. Len(v) + Len(u) : (v \o u)[k] = IF k <= Len(v) THEN v[k] ELSE u[k - Len(v)]
      BY <1>4, <1>6, ConcatProperties
    <2> QED BY <1>1, <1>4, <1>6, <2>1
  <1>8. ASSUME NEW k \in 1 .. b PROVE w[k] = (v \o u)[k]
    <2>1. CASE k <= a
      <3>1. k \in 1 .. a
        BY <2>1
      <3> QED BY <1>5, <1>7, <2>1, <3>1
    <2>2. CASE ~(k <= a)
      <3>1. k - a \in 1 .. d /\ a + (k - a) - 1 = k - 1
        BY <1>1, <2>2
      <3>2. u[k - a] = pl[k - 1]
        BY <1>3, <3>1
      <3> QED BY <1>5, <1>7, <2>2, <3>2
    <2> QED BY <2>1, <2>2
  <1>9. w = v \o u
    BY <1>4, <1>7, <1>8, SeqEqual
  <1> QED BY <1>4, <1>6, <1>9 DEF u, v, w

LEMMA DSameExec ==
  ASSUME NEW s, NEW pl, NEW K, NEW n, NEW x, DuoExec(s, pl, K, n, x), NEW L, TExecuted(L) = TExecuted(K),
         \A i \in DOMAIN K : K[i].status = "Executed" => i \in DOMAIN L /\ L[i].status = "Executed"
  PROVE  DuoExec(s, pl, L, n, x)
  <1>1. TEnd(L) = TEnd(K)
    BY DEF TEnd
  <1> QED BY <1>1 DEF DuoExec

LEMMA DConcat ==
  ASSUME NEW A, NEW b \in BOOLEAN
  PROVE  \A x, w \in Seq(Commands) : Chosen(x \o w, A, b) = Chosen(x, A, b) \o Chosen(w, A, b)
  <1> TAKE x, w \in Seq(Commands)
  <1> QED BY ChosenConcat

\* Choosing from what is executed next.
LEMMA DConcatSame ==
  ASSUME NEW A, NEW x \in Seq(Commands), NEW v \in Seq(Commands), NEW u \in Seq(Commands),
         NEW w \in Seq(Commands), NEW b \in BOOLEAN
  PROVE  w = Chosen(u, A, b) /\ Chosen(w, A, b) = w /\ Chosen(x, A, b) = Chosen(v, A, b) =>
             Chosen(x \o w, A, b) = Chosen(v \o u, A, b)
  <1>0. \A p, q \in Seq(Commands) : Chosen(p \o q, A, b) = Chosen(p, A, b) \o Chosen(q, A, b)
    BY DConcat, Zenon
  <1>1. Chosen(x \o w, A, b) = Chosen(x, A, b) \o Chosen(w, A, b)
    BY <1>0
  <1>2. Chosen(v \o u, A, b) = Chosen(v, A, b) \o Chosen(u, A, b)
    BY <1>0
  <1> QED BY <1>1, <1>2

LEMMA DConcatOther ==
  ASSUME NEW A, NEW x \in Seq(Commands), NEW w \in Seq(Commands), NEW b \in BOOLEAN, Chosen(w, A, b) = << >>
  PROVE  Chosen(x \o w, A, b) = Chosen(x, A, b)
  <1>1. Chosen(x \o w, A, b) = Chosen(x, A, b) \o Chosen(w, A, b)
    BY DConcat
  <1>2. Chosen(x, A, b) \in Seq(Commands)
    BY ChosenFacts DEF ChosenOk
  <1>3. Chosen(x, A, b) \o << >> = Chosen(x, A, b)
    BY <1>2, ConcatEmptySeq
  <1> QED BY <1>1, <1>3

DuoMore(A, x, v, u, b, nb) ==
    /\ x \o Chosen(u, A, b) \in Seq(Commands)
    /\ Chosen(x \o Chosen(u, A, b), A, b) = Chosen(v \o u, A, b)
    /\ Chosen(x \o Chosen(u, A, b), A, nb) = Chosen(x, A, nb)

LEMMA DChosenMore ==
  ASSUME NEW A, NEW x \in Seq(Commands), NEW v \in Seq(Commands), NEW u \in Seq(Commands), NEW b \in BOOLEAN,
         NEW nb \in BOOLEAN, nb = ~b, Chosen(x, A, b) = Chosen(v, A, b)
  PROVE  DuoMore(A, x, v, u, b, nb)
  <1> DEFINE w == Chosen(u, A, b)
  <1>1. ChosenOk(Commands, u, A)
    BY ChosenFacts
  <1>2. w \in Seq(Commands)
    BY <1>1 DEF ChosenOk
  <1>3. Chosen(w, A, b) = w /\ Chosen(w, A, nb) = << >>
    BY <1>1 DEF ChosenOk
  <1> HIDE DEF w
  <1>4. w = Chosen(u, A, b)
    BY DEF w
  <1>5. Chosen(x \o w, A, b) = Chosen(v \o u, A, b)
    BY <1>2, <1>3, <1>4, DConcatSame
  <1>6. Chosen(x \o w, A, nb) = Chosen(x, A, nb)
    BY <1>2, <1>3, DConcatOther
  <1>7. x \o w \in Seq(Commands)
    BY <1>2, ConcatProperties
  <1> QED BY <1>5, <1>6, <1>7 DEF w, DuoMore

LEMMA DTexec ==
  ASSUME NEW s, NEW pl, NEW L \in DuoLogs, NEW n, NEW x, DuoExec(s, pl, L, n, x),
         \A i \in DOMAIN L : L[i].command = pl[i]
  PROVE  LET from == TEnd(L)
             to == loopEnd(from, {i \in DOMAIN L : L[i].tStatus = "TCommitted"})
             L2 == [i \in DOMAIN L |->
                       IF i \in from .. to - 1 THEN [L[i] EXCEPT !.tStatus = "TExecuted"] ELSE L[i]]
         IN  DuoExec(s, pl, L2, n, x \o Chosen(CommandsOf(L, from, to), s.meta, TRUE))
  <1> DEFINE from == TEnd(L)
             P == {i \in DOMAIN L : L[i].tStatus = "TCommitted"}
             to == loopEnd(from, P)
             L2 == [i \in DOMAIN L |->
                       IF i \in from .. to - 1 THEN [L[i] EXCEPT !.tStatus = "TExecuted"] ELSE L[i]]
             u == CommandsOf(L, from, to)
             v == Firsts(pl, from)
  <1>1. from \in 0 .. MaxIndex /\ (\A i \in 0 .. from - 1 : i \in TExecuted(L)) /\ MaxIndex \in Nat
    BY TEndFacts, ClusterAssumption
  <1> HIDE DEF from
  <1>2. to \in from .. MaxIndex /\ \A i \in from .. to - 1 : i \in P
    BY <1>1, LoopEnd
  <1> HIDE DEF to
  <1>3. DOMAIN L \subseteq Nat /\ \A i \in DOMAIN L : L[i] \in DuoRecord
    BY DLogType
  <1>4. \A i \in DOMAIN L : /\ L2[i] \in DuoRecord /\ L2[i].status = L[i].status
                            /\ i \in from .. to - 1 => L2[i].tStatus = "TExecuted"
                            /\ i \notin from .. to - 1 => L2[i] = L[i]
    BY <1>3 DEF DuoRecord
  <1>5. DOMAIN L2 = DOMAIN L
    OBVIOUS
  <1> HIDE DEF L2
  <1>6. L2 \in DuoLogs
    <2>1. L2 \in [DOMAIN L -> DuoRecord]
      <3>1. L2 = [i \in DOMAIN L |-> L2[i]]
        BY DEF L2
      <3> QED BY <1>4, <3>1
    <2> QED BY <1>3, <2>1, DLogIs
  <1>13. \A i \in TExecuted(L2) : i < to
    <2> SUFFICES ASSUME NEW i \in TExecuted(L2) PROVE i < to
      OBVIOUS
    <2>1. i \in DOMAIN L /\ i \in Nat /\ L2[i].tStatus = "TExecuted"
      BY <1>3, <1>5 DEF TExecuted
    <2>2. CASE i \in from .. to - 1
      BY <1>1, <1>2, <2>2
    <2>3. CASE i \notin from .. to - 1
      <3>1. i \in TExecuted(L)
        BY <1>4, <2>1, <2>3 DEF TExecuted
      <3>2. i < from
        BY <3>1 DEF DuoExec, from
      <3> QED BY <1>1, <1>2, <2>1, <3>2
    <2> QED BY <2>2, <2>3
  <1>7. TEnd(L2) = to
    <2>1. \A i \in 0 .. to - 1 : i \in TExecuted(L2)
      <3> SUFFICES ASSUME NEW i \in 0 .. to - 1 PROVE i \in TExecuted(L2)
        OBVIOUS
      <3>1. CASE i \in from .. to - 1
        <4>1. i \in DOMAIN L
          BY <1>2, <3>1
        <4> QED BY <1>4, <1>5, <3>1, <4>1 DEF TExecuted
      <3>2. CASE i \notin from .. to - 1
        <4>1. i \in 0 .. from - 1
          BY <1>1, <1>2, <3>2
        <4>2. i \in DOMAIN L /\ L[i].tStatus = "TExecuted"
          BY <1>1, <4>1 DEF TExecuted
        <4> QED BY <1>4, <1>5, <3>2, <4>2 DEF TExecuted
      <3> QED BY <3>1, <3>2
    <2>2. to \in 0 .. MaxIndex
      BY <1>1, <1>2
    <2> QED BY <1>6, <1>13, <2>1, <2>2, TEndIs
  <1>8. /\ \A i \in 0 .. to - 1 : pl[i] \in Commands
        /\ \A i \in from .. to - 1 : L[i].command = pl[i]
    <2>1. \A i \in 0 .. to - 1 : i \in DOMAIN L
      <3>1. \A i \in 0 .. to - 1 : i \in from .. to - 1 \/ i \in 0 .. from - 1
        BY <1>1, <1>2
      <3> QED BY <1>1, <1>2, <3>1 DEF TExecuted
    <2>2. \A i \in from .. to - 1 : i \in DOMAIN L
      BY <1>2
    <2> QED BY <1>3, <2>1, <2>2 DEF DuoRecord
  <1>9. from \in Nat /\ to \in Nat /\ from <= to
    BY <1>1, <1>2
  <1>10. /\ u \in Seq(Commands) /\ v \in Seq(Commands) /\ Firsts(pl, to) = v \o u
    BY <1>8, <1>9, FirstsMore
  <1> HIDE DEF u, v
  <1>11. /\ x \in Seq(Commands) /\ Chosen(x, s.meta, TRUE) = Chosen(v, s.meta, TRUE)
         /\ Chosen(x, s.meta, FALSE) = Chosen(Firsts(pl, n), s.meta, FALSE)
    BY DEF DuoExec, v, from
  <1> DEFINE y == x \o Chosen(u, s.meta, TRUE)
  <1>12. /\ y \in Seq(Commands) /\ Chosen(y, s.meta, TRUE) = Chosen(v \o u, s.meta, TRUE)
         /\ Chosen(y, s.meta, FALSE) = Chosen(x, s.meta, FALSE)
    <2> DEFINE A == s.meta
    <2>1. Chosen(x, A, TRUE) = Chosen(v, A, TRUE)
      BY <1>11
    <2> HIDE DEF A
    <2>2. DuoMore(A, x, v, u, TRUE, FALSE)
      BY <1>10, <1>11, <2>1, DChosenMore
    <2> QED BY <2>2 DEF A, DuoMore
  <1> HIDE DEF y
  <1>14. /\ Chosen(y, s.meta, TRUE) = Chosen(Firsts(pl, TEnd(L2)), s.meta, TRUE)
         /\ Chosen(y, s.meta, FALSE) = Chosen(Firsts(pl, n), s.meta, FALSE)
    BY <1>7, <1>10, <1>11, <1>12
  <1>15. \A i \in TExecuted(L2) : i < TEnd(L2)
    BY <1>7, <1>13
  <1>16. \A i \in 0 .. n - 1 : i \in DOMAIN L2 /\ L2[i].status = "Executed"
    BY <1>4, <1>5 DEF DuoExec
  <1>17. n \in 0 .. MaxIndex
    BY DEF DuoExec
  <1>18. DuoExec(s, pl, L2, n, y)
    BY <1>12, <1>14, <1>15, <1>16, <1>17 DEF DuoExec
  <1> QED BY <1>18 DEF L2, y, u, to, from, P

LEMMA DExecs ==
  ASSUME NEW s, NEW pl, NEW L \in DuoLogs, NEW n, NEW x, DuoExec(s, pl, L, n, x),
         \A i \in DOMAIN L : L[i].command = pl[i]
  PROVE  LET to == loopEnd(n, {i \in DOMAIN L : L[i].status = "Committed"})
             L2 == [i \in DOMAIN L |->
                       IF i \in n .. to - 1 THEN [L[i] EXCEPT !.status = "Executed"] ELSE L[i]]
         IN  DuoExec(s, pl, L2, to, x \o Chosen(CommandsOf(L, n, to), s.meta, FALSE))
  <1> DEFINE P == {i \in DOMAIN L : L[i].status = "Committed"}
             to == loopEnd(n, P)
             L2 == [i \in DOMAIN L |->
                       IF i \in n .. to - 1 THEN [L[i] EXCEPT !.status = "Executed"] ELSE L[i]]
             u == CommandsOf(L, n, to)
             v == Firsts(pl, n)
  <1>1. /\ n \in 0 .. MaxIndex /\ MaxIndex \in Nat
        /\ \A i \in 0 .. n - 1 : i \in DOMAIN L /\ L[i].status = "Executed"
    BY ClusterAssumption DEF DuoExec
  <1>2. to \in n .. MaxIndex /\ \A i \in n .. to - 1 : i \in P
    BY <1>1, LoopEnd
  <1> HIDE DEF to
  <1>3. DOMAIN L \subseteq Nat /\ \A i \in DOMAIN L : L[i] \in DuoRecord
    BY DLogType
  <1>4. \A i \in DOMAIN L : /\ L2[i].tStatus = L[i].tStatus
                            /\ i \in n .. to - 1 => L2[i].status = "Executed"
                            /\ i \notin n .. to - 1 => L2[i] = L[i]
    BY <1>3 DEF DuoRecord
  <1>5. DOMAIN L2 = DOMAIN L
    OBVIOUS
  <1> HIDE DEF L2
  <1>6. TExecuted(L2) = TExecuted(L) /\ TEnd(L2) = TEnd(L)
    <2>1. TExecuted(L2) = TExecuted(L)
      BY <1>4, <1>5 DEF TExecuted
    <2> QED BY <2>1 DEF TEnd
  <1>7. \A i \in 0 .. to - 1 : i \in n .. to - 1 \/ i \in 0 .. n - 1
    BY <1>1, <1>2
  <1>8. \A i \in 0 .. to - 1 : i \in DOMAIN L2 /\ L2[i].status = "Executed"
    <2> SUFFICES ASSUME NEW i \in 0 .. to - 1 PROVE i \in DOMAIN L2 /\ L2[i].status = "Executed"
      OBVIOUS
    <2>1. CASE i \in n .. to - 1
      BY <1>2, <1>4, <1>5, <2>1
    <2>2. CASE i \notin n .. to - 1
      BY <1>1, <1>4, <1>5, <1>7, <2>2
    <2> QED BY <2>1, <2>2
  <1>9. /\ \A i \in 0 .. to - 1 : pl[i] \in Commands
        /\ \A i \in n .. to - 1 : L[i].command = pl[i]
    <2>1. \A i \in n .. to - 1 : i \in DOMAIN L
      BY <1>2
    <2> QED BY <1>3, <1>5, <1>8, <2>1 DEF DuoRecord
  <1>10. n \in Nat /\ to \in Nat /\ n <= to /\ to \in 0 .. MaxIndex
    BY <1>1, <1>2
  <1>11. /\ u \in Seq(Commands) /\ v \in Seq(Commands) /\ Firsts(pl, to) = v \o u
    BY <1>9, <1>10, FirstsMore
  <1> HIDE DEF u, v
  <1>12. /\ x \in Seq(Commands) /\ Chosen(x, s.meta, FALSE) = Chosen(v, s.meta, FALSE)
         /\ Chosen(x, s.meta, TRUE) = Chosen(Firsts(pl, TEnd(L)), s.meta, TRUE)
    BY DEF DuoExec, v
  <1> DEFINE y == x \o Chosen(u, s.meta, FALSE)
  <1>13. /\ y \in Seq(Commands) /\ Chosen(y, s.meta, FALSE) = Chosen(v \o u, s.meta, FALSE)
         /\ Chosen(y, s.meta, TRUE) = Chosen(x, s.meta, TRUE)
    <2> DEFINE A == s.meta
    <2>1. Chosen(x, A, FALSE) = Chosen(v, A, FALSE)
      BY <1>12
    <2> HIDE DEF A
    <2>2. DuoMore(A, x, v, u, FALSE, TRUE)
      BY <1>11, <1>12, <2>1, DChosenMore
    <2> QED BY <2>2 DEF A, DuoMore
  <1> HIDE DEF y
  <1>14. /\ Chosen(y, s.meta, TRUE) = Chosen(Firsts(pl, TEnd(L2)), s.meta, TRUE)
         /\ Chosen(y, s.meta, FALSE) = Chosen(Firsts(pl, to), s.meta, FALSE)
    BY <1>6, <1>11, <1>12, <1>13
  <1>15. \A i \in TExecuted(L2) : i < TEnd(L2)
    BY <1>6 DEF DuoExec
  <1>16. DuoExec(s, pl, L2, to, y)
    BY <1>8, <1>10, <1>13, <1>14, <1>15 DEF DuoExec
  <1> QED BY <1>16 DEF L2, y, u, to, P

LEMMA DFacts ==
  ASSUME DuoInv
  PROVE  /\ cfg \in Scenarios /\ log \in [Replicas -> DuoLogs] /\ DOMAIN log = Replicas
         /\ Correct = Good(cfg) /\ Correct \subseteq Replicas /\ cfg.f \in Nat
         /\ executed \in [Replicas -> Seq(Commands)] /\ execIdx \in [Replicas -> 0 .. MaxIndex]
         /\ requested \subseteq Commands /\ index \in [Replicas -> Nat] /\ Leader \in Replicas
  <1>1. cfg \in Scenarios
    BY DEF DuoInv, DuoOk
  <1>2. Correct = Good(cfg) /\ Good(cfg) \subseteq Replicas /\ cfg.f \in Nat
    BY <1>1, ScenarioFacts DEF Correct, Good
  <1> QED BY <1>1, <1>2, ClusterAssumption DEF DuoInv, DuoOk

\* Replica r may go on with log L.
DuoReady(r, L) ==
    /\ L \in DuoLogs /\ DuoAdvances(log[r], L) /\ (r = Leader => DOMAIN L = DOMAIN log[r])
    /\ \A i \in DOMAIN L : DuoEntry(cfg, [log EXCEPT ![r] = L], i, L[i])
    /\ DuoExec(cfg, Plan(log), L, execIdx[r], executed[r])

DuoFrame == UNCHANGED <<cfg, requested, index, answered>>
\* Log L2 is what a loop of exec or texec makes of L.
DuoPassed(L, L2) ==
    /\ L2 \in [DOMAIN L -> DuoRecord]
    /\ \A i \in DOMAIN L : /\ L2[i].command = L[i].command
                           /\ L2[i].voted = L[i].voted /\ L2[i].cVoted = L[i].cVoted
                           /\ L2[i].tStatus # "TPrepared" => L[i].tStatus # "TPrepared"
                           /\ L2[i].status \in {"Committed", "Executed"} => L[i].status \in {"Committed", "Executed"}

LEMMA DPlanSame ==
  ASSUME NEW lg \in [Replicas -> DuoLogs], NEW r \in Replicas, NEW L2, DuoAdvances(lg[r], L2),
         r = Leader => DOMAIN L2 = DOMAIN lg[r]
  PROVE  Plan([lg EXCEPT ![r] = L2]) = Plan(lg)
  <1> DEFINE lg2 == [lg EXCEPT ![r] = L2]
  <1>1. lg2[r] = L2 /\ (\A q \in Replicas \ {r} : lg2[q] = lg[q]) /\ Leader \in Replicas
    BY ClusterAssumption
  <1> HIDE DEF lg2
  <1>2. CASE r = Leader
    BY <1>1, <1>2 DEF Plan, DuoAdvances, lg2
  <1>3. CASE r # Leader
    BY <1>1, <1>3 DEF Plan, lg2
  <1> QED BY <1>2, <1>3

LEMMA DPassedOk ==
  ASSUME DuoInv, NEW r \in Correct, NEW L, DuoReady(r, L), NEW L2, DuoPassed(L, L2), NEW m, NEW y,
         DuoExec(cfg, Plan(log), L2, m, y)
  PROVE  DuoOk(cfg, requested, index, [log EXCEPT ![r] = L2], [execIdx EXCEPT ![r] = m], [executed EXCEPT ![r] = y])
  <1> DEFINE lg1 == [log EXCEPT ![r] = L]
             lg2 == [log EXCEPT ![r] = L2]
  <1>1. /\ cfg \in Scenarios /\ log \in [Replicas -> DuoLogs] /\ r \in Replicas /\ r \in Good(cfg)
        /\ L \in DuoLogs /\ DOMAIN L \subseteq Nat
    BY DFacts, DLogType DEF DuoReady
  <1>2. lg1 \in [Replicas -> DuoLogs] /\ lg1[r] = L /\ lg2 = [lg1 EXCEPT ![r] = L2]
    BY <1>1
  <1>3. L2 \in DuoLogs /\ DOMAIN L2 = DOMAIN L
    BY <1>1, DLogIs DEF DuoPassed
  <1>4. DuoAdvances(L, L2)
    BY <1>3 DEF DuoAdvances, DuoPassed
  <1>5. DuoAdvances(log[r], L2) /\ (r = Leader => DOMAIN L2 = DOMAIN log[r])
    BY <1>3, <1>4 DEF DuoAdvances, DuoReady
  <1> HIDE DEF lg1, lg2
  <1>6. ASSUME NEW i \in DOMAIN L2 PROVE DuoEntry(cfg, lg2, i, L2[i])
    <2>1. DuoEntry(cfg, lg1, i, L[i]) /\ i \in DOMAIN L
      BY <1>3, <1>6 DEF DuoReady, lg1
    <2>2. DuoEntry(cfg, lg2, i, L[i])
      BY <1>1, <1>2, <1>4, <2>1, DEntryStays
    <2> QED BY <2>1, <2>2 DEF DuoEntry, DuoPassed
  <1> QED BY <1>1, <1>3, <1>5, <1>6, DStep DEF DuoInv, lg2

\* The commands that texec and exec take are those of the leader.
LEMMA DReadyPlan ==
  ASSUME DuoInv, NEW r \in Correct, NEW L, DuoReady(r, L)
  PROVE  \A i \in DOMAIN L : L[i].command = Plan(log)[i]
  <1>1. log \in [Replicas -> DuoLogs] /\ r \in Replicas
    BY DFacts
  <1>2. Plan([log EXCEPT ![r] = L]) = Plan(log)
    BY <1>1, DPlanSame DEF DuoReady
  <1> QED BY <1>2 DEF DuoReady, DuoEntry

LEMMA DTakes ==
  ASSUME NEW L \in DuoLogs, NEW from \in 0 .. MaxIndex, NEW P \in SUBSET DOMAIN L, NEW A, NEW b \in BOOLEAN
  PROVE  Chosen(CommandsOf(L, from, loopEnd(from, P)), A, b) \in Seq(Commands)
  <1> DEFINE to == loopEnd(from, P)
  <1>1. to \in from .. MaxIndex /\ \A i \in from .. to - 1 : i \in DOMAIN L
    BY LoopEnd
  <1>2. \A i \in DOMAIN L : L[i].command \in Commands
    BY DLogType DEF DuoRecord
  <1>3. MaxIndex \in Nat
    BY ClusterAssumption
  <1> HIDE DEF to
  <1>4. to - from \in Nat /\ \A k \in 1 .. to - from : from + k - 1 \in from .. to - 1
    BY <1>1, <1>3
  <1>5. CommandsOf(L, from, to) \in [1 .. to - from -> Commands]
    BY <1>1, <1>2, <1>4 DEF CommandsOf
  <1>6. CommandsOf(L, from, to) \in Seq(Commands)
    BY <1>4, <1>5, FunctionIsSequence
  <1> QED BY <1>6, ChosenFacts DEF ChosenOk, to

LEMMA DStoreStep ==
  ASSUME DuoInv, DuoFrame, NEW r \in Correct, NEW L, DuoReady(r, L), log' = [log EXCEPT ![r] = L],
         UNCHANGED <<execIdx, executed>>
  PROVE  DuoInv'
  <1>1. /\ r \in Replicas /\ executed \in [Replicas -> Seq(Commands)]
        /\ execIdx \in [Replicas -> 0 .. MaxIndex] /\ r \in Good(cfg)
    BY DFacts
  <1>2. [execIdx EXCEPT ![r] = execIdx[r]] = execIdx' /\ [executed EXCEPT ![r] = executed[r]] = executed'
    BY <1>1
  <1>3. DuoOk(cfg, requested, index, log', [execIdx EXCEPT ![r] = execIdx[r]],
              [executed EXCEPT ![r] = executed[r]])
    BY <1>1, DStep DEF DuoReady, DuoInv
  <1> QED BY <1>2, <1>3 DEF DuoInv, DuoFrame

\* Instance e is what the tests of the votes make of d.
DuoUpdates(d, e) ==
    /\ e \in DuoRecord /\ e.command = d.command
    /\ (d.voted => e.voted) /\ (d.cVoted => e.cVoted)
    /\ (e.tStatus = "TExecuted" <=> d.tStatus = "TExecuted")
    /\ d.status = "Executed" => e.status = "Executed"
    /\ e.tStatus # "TPrepared" /\ d.tStatus = "TPrepared" => e.tStatus = "TCommitted"

\* The votes that e has been tested with are in log lg.
DuoTested(s, lg, i, d, e) ==
    /\ e.tStatus = d.tStatus \/ Cardinality(DVoters(s, lg, i)) >= s.f + 1
    /\ e.status = d.status \/ e.status = "PreCommitted" \/ Cardinality(DCVoters(s, lg, i)) >= 2 * s.f + 1

LEMMA DReadyIs ==
  ASSUME DuoInv, NEW r \in Correct, NEW i \in DOMAIN log[r], NEW e, DuoUpdates(log[r][i], e),
         DuoTested(cfg, [log EXCEPT ![r] = [log[r] EXCEPT ![i] = e]], i, log[r][i], e)
  PROVE  DuoReady(r, [log[r] EXCEPT ![i] = e])
  <1> DEFINE K == log[r]
             L == [log[r] EXCEPT ![i] = e]
             lg1 == [log EXCEPT ![r] = L]
  <1>1. /\ cfg \in Scenarios /\ log \in [Replicas -> DuoLogs] /\ r \in Replicas /\ r \in Good(cfg) /\ K \in DuoLogs
    BY DFacts
  <1>2. DOMAIN K \subseteq Nat /\ \A j \in DOMAIN K : K[j] \in DuoRecord
    BY <1>1, DLogType
  <1>3. DOMAIN L = DOMAIN K /\ L[i] = e /\ \A j \in DOMAIN K \ {i} : L[j] = K[j]
    OBVIOUS
  <1>4. L \in DuoLogs
    <2>1. L \in [DOMAIN K -> DuoRecord]
      BY <1>1, <1>2 DEF DuoUpdates
    <2> QED BY <1>2, <2>1, DLogIs
  <1>5. /\ \A j \in DOMAIN K : DuoEntry(cfg, log, j, K[j])
        /\ DuoExec(cfg, Plan(log), K, execIdx[r], executed[r])
    BY <1>1 DEF DuoInv, DuoOk
  <1> HIDE DEF K, L, lg1
  <1>6. DuoAdvances(K, L)
    BY <1>3 DEF DuoAdvances, DuoUpdates, K
  <1>7. \A j \in DOMAIN K : DuoEntry(cfg, lg1, j, K[j])
    BY <1>1, <1>5, <1>6, DEntryStays DEF K, lg1
  <1>8. DuoEntry(cfg, lg1, i, e)
    <2>1. DuoEntry(cfg, lg1, i, K[i]) /\ DuoTested(cfg, lg1, i, K[i], e) /\ DuoUpdates(K[i], e)
      BY <1>7 DEF K, L, lg1
    <2> QED BY <2>1 DEF DuoEntry, DuoTested, DuoUpdates
  <1>9. \A j \in DOMAIN L : DuoEntry(cfg, lg1, j, L[j])
    BY <1>3, <1>7, <1>8
  <1>10. TExecuted(L) = TExecuted(K)
    BY <1>3 DEF TExecuted, DuoUpdates, K
  <1>11. \A j \in DOMAIN K : K[j].status = "Executed" => j \in DOMAIN L /\ L[j].status = "Executed"
    BY <1>3 DEF DuoUpdates, K
  <1>12. DuoExec(cfg, Plan(log), L, execIdx[r], executed[r])
    BY <1>5, <1>10, <1>11, DSameExec
  <1>13. DuoReady(r, L)
    BY <1>3, <1>4, <1>6, <1>9, <1>12 DEF DuoReady, K, lg1
  <1> QED BY <1>13 DEF L

\* Votes that are in a log are enough for what they are enough for.
LEMMA DEnough ==
  ASSUME NEW s \in Scenarios, NEW lg, NEW i, NEW k \in Nat, NEW votes, Cardinality(votes) >= k
  PROVE  /\ votes \subseteq DVoters(s, lg, i) => Cardinality(DVoters(s, lg, i)) >= k
         /\ votes \subseteq DCVoters(s, lg, i) => Cardinality(DCVoters(s, lg, i)) >= k
  <1>1. Good(s) \subseteq Replicas /\ IsFiniteSet(Replicas)
    BY ScenarioFacts
  <1>2. ASSUME NEW V, V \subseteq Good(s), votes \subseteq V PROVE Cardinality(V) >= k
    <2>1. IsFiniteSet(V)
      BY <1>1, <1>2, FS_Subset
    <2>2. IsFiniteSet(votes) /\ Cardinality(votes) <= Cardinality(V)
      BY <1>2, <2>1, FS_Subset
    <2>3. Cardinality(votes) \in Nat /\ Cardinality(V) \in Nat
      BY <2>1, <2>2, FS_CardinalityType
    <2> QED BY <2>2, <2>3
  <1>3. DVoters(s, lg, i) \subseteq Good(s) /\ DCVoters(s, lg, i) \subseteq Good(s)
    BY DEF DVoters, DCVoters
  <1> QED BY <1>2, <1>3

\* A new proposal leaves the first commands as they are.
LEMMA DPlanGrows ==
  ASSUME NEW s, NEW lg, NEW n, NEW x, NEW L \in DuoLogs, DuoExec(s, Plan(lg), L, n, x), NEW lg2,
         DOMAIN L \subseteq DOMAIN Plan(lg), \A i \in DOMAIN Plan(lg) : Plan(lg2)[i] = Plan(lg)[i]
  PROVE  DuoExec(s, Plan(lg2), L, n, x)
  <1>1. n \in 0 .. MaxIndex /\ TEnd(L) \in 0 .. MaxIndex /\ MaxIndex \in Nat
    BY TEndFacts, ClusterAssumption DEF DuoExec
  <1>2. ASSUME NEW m \in Nat, \A i \in 0 .. m - 1 : i \in DOMAIN L PROVE Firsts(Plan(lg2), m) = Firsts(Plan(lg), m)
    <2>1. \A k \in 1 .. m : k - 1 \in 0 .. m - 1
      OBVIOUS
    <2>2. \A k \in 1 .. m : Plan(lg2)[k - 1] = Plan(lg)[k - 1]
      BY <1>2, <2>1
    <2> QED BY <2>2 DEF Firsts
  <1>3. Firsts(Plan(lg2), n) = Firsts(Plan(lg), n)
    BY <1>1, <1>2 DEF DuoExec
  <1>4. \A i \in 0 .. TEnd(L) - 1 : i \in DOMAIN L
    BY TEndFacts DEF TExecuted
  <1>5. Firsts(Plan(lg2), TEnd(L)) = Firsts(Plan(lg), TEnd(L))
    BY <1>1, <1>2, <1>4
  <1> QED BY <1>3, <1>5 DEF DuoExec

-----------------------------------------------------------------------------
(* What it says of the commands that DuoBFT executes *)

\* The commands of either kind that r has executed are those of the leader's first m.
LEMMA DExecutedIs ==
  ASSUME DuoInv, NEW r \in Correct, NEW b \in BOOLEAN
  PROVE  \E m \in 0 .. MaxIndex :
            /\ Chosen(executed[r], cfg.meta, b) = Chosen(Firsts(Plan(log), m), cfg.meta, b)
            /\ \A i \in 0 .. m - 1 :
                  /\ i \in DOMAIN Plan(log) /\ Plan(log)[i] \in Commands /\ Leader \in Good(cfg)
                  /\ b => Cardinality(DVoters(cfg, log, i)) >= cfg.f + 1
                  /\ ~b => Cardinality(DCVoters(cfg, log, i)) >= 2 * cfg.f + 1
  <1>1. /\ log \in [Replicas -> DuoLogs] /\ Correct = Good(cfg) /\ Correct \subseteq Replicas /\ Leader \in Replicas
    BY DFacts
  <1>2. /\ DuoExec(cfg, Plan(log), log[r], execIdx[r], executed[r])
        /\ \A i \in DOMAIN log[r] : DuoEntry(cfg, log, i, log[r][i])
    BY <1>1 DEF DuoInv, DuoOk
  <1>3. \A i \in DOMAIN Plan(log) : Plan(log)[i] \in Commands
    BY <1>1, DLogType DEF Plan, DuoRecord
  <1>4. \A i \in DOMAIN log[r] : i \in DOMAIN Plan(log) /\ Plan(log)[i] \in Commands /\ Leader \in Good(cfg)
    BY <1>2, <1>3 DEF DuoEntry, Plan
  <1>5. CASE b = TRUE
    <2>1. TEnd(log[r]) \in 0 .. MaxIndex /\ \A i \in 0 .. TEnd(log[r]) - 1 : i \in TExecuted(log[r])
      BY TEndFacts
    <2>2. \A i \in 0 .. TEnd(log[r]) - 1 : i \in DOMAIN log[r] /\ Cardinality(DVoters(cfg, log, i)) >= cfg.f + 1
      BY <1>2, <2>1 DEF TExecuted, DuoEntry
    <2> QED BY <1>2, <1>4, <1>5, <2>1, <2>2 DEF DuoExec
  <1>6. CASE b = FALSE
    <2>1. execIdx[r] \in 0 .. MaxIndex
      BY <1>2 DEF DuoExec
    <2>2. \A i \in 0 .. execIdx[r] - 1 :
             i \in DOMAIN log[r] /\ Cardinality(DCVoters(cfg, log, i)) >= 2 * cfg.f + 1
      BY <1>2 DEF DuoExec, DuoEntry
    <2> QED BY <1>2, <1>4, <1>6, <2>1, <2>2 DEF DuoExec
  <1> QED BY <1>5, <1>6

\* The first m commands are the start of the first k.
LEMMA DFirstsPrefix ==
  ASSUME NEW pl, NEW m \in Nat, NEW k \in Nat, m <= k, \A i \in 0 .. k - 1 : pl[i] \in Commands,
         NEW A, NEW b \in BOOLEAN
  PROVE  /\ Chosen(Firsts(pl, m), A, b) \in Seq(Commands) /\ Chosen(Firsts(pl, k), A, b) \in Seq(Commands)
         /\ Compatible(Chosen(Firsts(pl, m), A, b), Chosen(Firsts(pl, k), A, b))
         /\ Compatible(Chosen(Firsts(pl, k), A, b), Chosen(Firsts(pl, m), A, b))
  <1> DEFINE L == [i \in m .. k - 1 |-> [command |-> pl[i]]]
             u == CommandsOf(L, m, k)
             v == Firsts(pl, m)
             x == Chosen(v, A, b)
             y == Chosen(u, A, b)
  <1>1. \A i \in m .. k - 1 : L[i].command = pl[i]
    OBVIOUS
  <1> HIDE DEF L
  <1>2. u \in Seq(Commands) /\ v \in Seq(Commands) /\ Firsts(pl, k) = v \o u
    BY <1>1, FirstsMore
  <1> HIDE DEF u, v
  <1>3. x \in Seq(Commands) /\ y \in Seq(Commands)
    BY <1>2, ChosenFacts DEF ChosenOk
  <1>4. Chosen(Firsts(pl, k), A, b) = x \o y
    <2>1. u \in Seq(Commands) /\ v \in Seq(Commands)
      BY <1>2
    <2>2. Chosen(v \o u, A, b) = x \o y
      BY <2>1, DConcat
    <2> QED BY <1>2, <2>2
  <1> HIDE DEF x, y
  <1>5. /\ Len(x) \in Nat /\ Len(y) \in Nat /\ Len(x \o y) = Len(x) + Len(y) /\ x \o y \in Seq(Commands)
        /\ \A i \in 1 .. Len(x) : (x \o y)[i] = x[i]
    BY <1>3, ConcatProperties, LenProperties
  <1>6. Compatible(x, x \o y) /\ Compatible(x \o y, x)
    BY <1>5 DEF Compatible
  <1> QED BY <1>3, <1>4, <1>5, <1>6 DEF x, v

\* So of the commands of either kind all execute the same.
LEMMA DOrders ==
  ASSUME DuoInv, NEW r \in Correct, NEW q \in Correct, NEW b \in BOOLEAN
  PROVE  Compatible(Chosen(executed[r], cfg.meta, b), Chosen(executed[q], cfg.meta, b))
  <1> DEFINE pl == Plan(log)
             A == cfg.meta
  <1>0. MaxIndex \in Nat
    BY ClusterAssumption
  <1>1. PICK m \in 0 .. MaxIndex : /\ Chosen(executed[r], A, b) = Chosen(Firsts(pl, m), A, b)
                                   /\ \A i \in 0 .. m - 1 : pl[i] \in Commands
    BY DExecutedIs
  <1>2. PICK k \in 0 .. MaxIndex : /\ Chosen(executed[q], A, b) = Chosen(Firsts(pl, k), A, b)
                                   /\ \A i \in 0 .. k - 1 : pl[i] \in Commands
    BY DExecutedIs
  <1> HIDE DEF pl, A
  <1>3. m \in Nat /\ k \in Nat /\ (m <= k \/ k <= m)
    BY <1>0
  <1>4. Compatible(Chosen(Firsts(pl, m), A, b), Chosen(Firsts(pl, k), A, b))
    <2>1. CASE m <= k
      BY <1>2, <1>3, <2>1, DFirstsPrefix
    <2>2. CASE k <= m
      BY <1>1, <1>3, <2>2, DFirstsPrefix
    <2> QED BY <1>3, <2>1, <2>2
  <1> QED BY <1>1, <1>2, <1>4 DEF A

\* And none twice, as the leader proposes none twice.
LEMMA DOnce ==
  ASSUME DuoInv, NEW r \in Correct
  PROVE  Once(executed[r])
  <1> DEFINE pl == Plan(log)
             A == cfg.meta
             x == executed[r]
  <1>1. x \in Seq(Commands) /\ MaxIndex \in Nat
    BY DFacts, ClusterAssumption
  <1>2. Leader \in Good(cfg) => \A i, j \in DOMAIN pl : pl[i] = pl[j] => i = j
    BY DEF DuoInv, DuoOk, DuoPlan
  <1>3. ASSUME NEW b \in BOOLEAN PROVE Once(Chosen(x, A, b))
    <2>1. PICK m \in 0 .. MaxIndex : /\ Chosen(x, A, b) = Chosen(Firsts(pl, m), A, b)
                                     /\ \A i \in 0 .. m - 1 : i \in DOMAIN pl /\ pl[i] \in Commands /\ Leader \in Good(cfg)
      BY DExecutedIs
    <2> HIDE DEF pl, A, x
    <2>2. m \in Nat
      BY <1>1
    <2>3. Firsts(pl, m) \in Seq(Commands)
      BY <2>1, <2>2, FirstsType
    <2>4. \A k \in 1 .. m : k - 1 \in 0 .. m - 1 /\ Firsts(pl, m)[k] = pl[k - 1]
      BY <2>2 DEF Firsts
    <2>5. DOMAIN Firsts(pl, m) = 1 .. m
      BY DEF Firsts
    <2>6. \A k, l \in 1 .. m : Firsts(pl, m)[k] = Firsts(pl, m)[l] => k - 1 = l - 1
      BY <1>2, <2>1, <2>4
    <2>7. Once(Firsts(pl, m))
      BY <2>5, <2>6 DEF Once
    <2>8. ChosenOk(Commands, Firsts(pl, m), A)
      BY <2>3, ChosenFacts
    <2> QED BY <2>1, <2>7, <2>8 DEF ChosenOk
  <1>4. ChosenOk(Commands, x, A)
    <2> HIDE DEF x, A
    <2> QED BY <1>1, ChosenFacts
  <1> QED BY <1>3, <1>4 DEF ChosenOk

-----------------------------------------------------------------------------
(* The initial state *)

\* DuoBFT starts with empty logs, for which the invariant holds.
LEMMA DInit ==
  ASSUME Init, cfg.protocol = "duobft"
  PROVE  DuoInv
  <1>1. /\ cfg \in Scenarios /\ MaxIndex \in Nat /\ Good(cfg) \subseteq Replicas /\ Leader \in Replicas
    BY ScenarioFacts, ClusterAssumption DEF Init
  <1>2. \A r \in Replicas : log[r] = << >> /\ execIdx[r] = 0 /\ executed[r] = << >> /\ index[r] = 0
    BY DEF Init
  <1>3. DOMAIN << >> = {}
    OBVIOUS
  <1>4. << >> \in DuoLogs
    <2>1. << >> \in [{} -> DuoRecord]
      BY <1>3
    <2> QED BY <2>1, DLogIs
  <1>5. /\ log \in [Replicas -> DuoLogs] /\ execIdx \in [Replicas -> 0 .. MaxIndex]
        /\ executed \in [Replicas -> Seq(Commands)] /\ index \in [Replicas -> Nat]
    BY <1>1, <1>4 DEF Init
  <1>6. DOMAIN Plan(log) = {}
    BY <1>1, <1>2, <1>3 DEF Plan
  <1>7. DuoExec(cfg, Plan(log), << >>, 0, << >>)
    <2>1. TExecuted(<< >>) = {}
      BY <1>3 DEF TExecuted
    <2>2. TEnd(<< >>) = 0
      BY <1>1, <1>4, <2>1, TEndIs
    <2>3. Firsts(Plan(log), 0) = << >>
      BY DEF Firsts
    <2>4. 0 \in 0 .. MaxIndex /\ 0 .. 0 - 1 = {} /\ << >> \in Seq(Commands)
      BY <1>1
    <2> QED BY <2>1, <2>2, <2>3, <2>4 DEF DuoExec
  <1>8. DuoPlan(cfg, requested, index, Plan(log))
    BY <1>6 DEF DuoPlan
  <1>9. \A r \in Good(cfg) : /\ \A i \in DOMAIN log[r] : DuoEntry(cfg, log, i, log[r][i])
                             /\ DuoExec(cfg, Plan(log), log[r], execIdx[r], executed[r])
    BY <1>1, <1>2, <1>3, <1>7
  <1>10. DuoOk(cfg, requested, index, log, execIdx, executed)
    BY <1>1, <1>5, <1>8, <1>9 DEF DuoOk, Init
  <1> QED BY <1>10 DEF DuoInv, Init

\* The same for the other protocols.
LEMMA CoreInit ==
  ASSUME Init
  PROVE  ClusterInv /\ MirOk(cfg, log, index)
  <1>1. /\ cfg \in Scenarios /\ MaxIndex \in Nat /\ Good(cfg) \subseteq Replicas /\ Leader \in Replicas
        /\ cfg.faulty \subseteq Replicas
    BY ScenarioFacts, ClusterAssumption DEF Init, Scenario
  <1>2. \A r \in Replicas : log[r] = << >> /\ execIdx[r] = 0 /\ executed[r] = << >> /\ index[r] = 0
    BY DEF Init
  <1>3. DOMAIN << >> = {} /\ << >> \in Seq(Commands) /\ Len(<< >>) = 0
    OBVIOUS
  <1>4. << >> \in Logs(cfg.protocol)
    <2>1. << >> \in [{} -> Instances(cfg.protocol)]
      BY <1>3
    <2> QED BY <2>1 DEF Logs
  <1>5. /\ log \in [Replicas -> Logs(cfg.protocol)] /\ execIdx \in [Replicas -> 0 .. MaxIndex]
        /\ executed \in [Replicas -> Seq(Commands)] /\ index \in [Replicas -> Nat]
    BY <1>1, <1>3, <1>4 DEF Init
  <1>6. \A r \in Replicas : DOMAIN log[r] = {}
    BY <1>2, <1>3
  <1>7. EntriesOk(cfg, log) /\ Distinct(cfg, log, requested) /\ FreshOk(cfg, log, index) /\ LeaderOk(cfg, log)
        /\ QuorumsOk(cfg, log) /\ MirOk(cfg, log, index)
    <2>1. \A r \in Good(cfg) : DOMAIN log[r] = {}
      BY <1>1, <1>6
    <2> QED BY <1>1, <1>5, <1>6, <2>1 DEF EntriesOk, Distinct, FreshOk, LeaderOk, QuorumsOk, MirOk
  <1>8. ExecOk(cfg, log, execIdx, executed)
    <2>1. \A r \in Good(cfg) : Len(executed[r]) = execIdx[r] /\ 1 .. Len(executed[r]) = {}
      BY <1>1, <1>2, <1>3
    <2> QED BY <1>5, <2>1 DEF ExecOk
  <1>9. AnswersOk(cfg, executed, results, answered)
    BY DEF AnswersOk, Init
  <1>10. NetOk(cfg, log, chan, jobs)
    <2>1. << >> \in Seq(OkMsgs(cfg, log))
      OBVIOUS
    <2>2. chan \in [Replicas -> Seq(OkMsgs(cfg, log))]
      BY <2>1 DEF Init
    <2>3. DOMAIN jobs = Replicas /\ \A r \in Replicas : jobs[r] = noJobs
      BY DEF Init
    <2> QED BY <2>2, <2>3, BagNone DEF NetOk
  <1>11. requested \subseteq Commands
    BY DEF Init
  <1> QED BY <1>1, <1>5, <1>7, <1>8, <1>9, <1>10, <1>11 DEF ClusterInv, Core, LogsOk

LEMMA CorrectSome ==
  ASSUME NEW s \in Scenarios PROVE Good(s) # {}
  <1>1. /\ s \in Scenario /\ s.f \in Nat /\ s.c \in Nat /\ s.members \subseteq Replicas /\ IsFiniteSet(Replicas)
        /\ s.faulty \subseteq s.members
    BY ScenarioFacts, ClusterAssumption
  <1>2. Cardinality(s.faulty) <= s.f /\ Cardinality(s.members) = size(s)
    BY ClusterAssumption
  <1>3. size(s) > s.f /\ size(s) \in Nat
    <2>1. 3 * s.f + 2 * s.c + 1 > s.f /\ 3 * s.f + 1 > s.f /\ 2 * s.f + 1 > s.f
      BY <1>1
    <2>2. 3 * s.f + 2 * s.c + 1 \in Nat /\ 3 * s.f + 1 \in Nat /\ 2 * s.f + 1 \in Nat
      BY <1>1
    <2> HIDE DEF Scenario
    <2>3. size(s) \in {3 * s.f + 2 * s.c + 1, 3 * s.f + 1, 2 * s.f + 1}
      BY DEF size
    <2> QED BY <2>1, <2>2, <2>3
  <1>4. IsFiniteSet(s.faulty)
    BY <1>1, FS_Subset
  <1>5. Cardinality(s.faulty) \in Nat
    BY <1>4, FS_CardinalityType
  <1>6. s.members # s.faulty
    BY <1>1, <1>2, <1>3, <1>5
  <1> QED BY <1>1, <1>6 DEF Good

-----------------------------------------------------------------------------
(* Growing sequences of either kind *)

\* What a sequence grows by it grows by in the commands of a kind.
LEMMA ChosenGrows ==
  ASSUME NEW x \in Seq(Commands), NEW y \in Seq(Commands), Len(x) <= Len(y), Compatible(x, y),
         NEW A, NEW b \in BOOLEAN
  PROVE  /\ Len(Chosen(x, A, b)) <= Len(Chosen(y, A, b))
         /\ Compatible(Chosen(x, A, b), Chosen(y, A, b))
  <1> DEFINE n == Len(x)
             d == Len(y) - n
             u == [k \in 1 .. d |-> y[n + k]]
             v == Chosen(x, A, b)
             w == Chosen(u, A, b)
  <1>1. n \in Nat /\ d \in Nat /\ Len(y) \in Nat /\ n + d = Len(y)
    BY LenProperties
  <1>2. u \in [1 .. d -> Commands]
    <2>1. \A k \in 1 .. d : n + k \in 1 .. Len(y)
      BY <1>1
    <2> QED BY <2>1, ElementOfSeq
  <1>3. \A k \in 1 .. d : u[k] = y[n + k]
    OBVIOUS
  <1> HIDE DEF u, d, n
  <1>4. u \in Seq(Commands) /\ Len(u) = d
    BY <1>1, <1>2, FunctionIsSequence
  <1>5. y = x \o u
    <2>1. /\ x \o u \in Seq(Commands) /\ Len(x \o u) = Len(x) + Len(u)
          /\ \A k \in 1 .. Len(x) + Len(u) : (x \o u)[k] = IF k <= Len(x) THEN x[k] ELSE u[k - Len(x)]
      BY <1>4, ConcatProperties
    <2>2. Len(x \o u) = Len(y)
      BY <1>1, <1>4, <2>1 DEF n
    <2>3. ASSUME NEW k \in 1 .. Len(y) PROVE y[k] = (x \o u)[k]
      <3>1. k \in 1 .. Len(x) + Len(u)
        BY <2>1, <2>2
      <3>2. CASE k <= Len(x)
        <4>1. k \in 1 .. Len(x)
          BY <3>2, LenProperties
        <4>2. x[k] = y[k]
          BY <4>1 DEF Compatible
        <4> QED BY <2>1, <3>1, <3>2, <4>2
      <3>3. CASE ~(k <= Len(x))
        <4>1. k - n \in 1 .. d /\ n + (k - n) = k
          BY <1>1, <3>3 DEF n
        <4>2. u[k - n] = y[k]
          BY <1>3, <4>1
        <4> QED BY <2>1, <3>1, <3>3, <4>2 DEF n
      <3> QED BY <3>2, <3>3
    <2> QED BY <2>1, <2>2, <2>3, SeqEqual
  <1>6. Chosen(x \o u, A, b) = v \o w
    BY <1>4, DConcat
  <1>7. v \in Seq(Commands)
    BY ChosenFacts DEF ChosenOk
  <1>8. w \in Seq(Commands)
    BY <1>4, ChosenFacts DEF ChosenOk
  <1>9. Chosen(y, A, b) = v \o w
    BY <1>5, <1>6
  <1> HIDE DEF v, w
  <1>10. /\ Len(v) \in Nat /\ Len(w) \in Nat /\ Len(v \o w) = Len(v) + Len(w)
         /\ \A k \in 1 .. Len(v) : (v \o w)[k] = v[k]
    BY <1>7, <1>8, ConcatProperties, LenProperties
  <1>11. Len(v) <= Len(v \o w) /\ Compatible(v, v \o w)
    BY <1>10 DEF Compatible
  <1> QED BY <1>9, <1>11 DEF v
====
