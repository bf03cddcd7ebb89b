---------------------------- MODULE DqPbftProofs ----------------------------
(***************************************************************************)
(* Agreement in both logs of DqPbft, for any number of replicas, commands, *)
(* instances and batches, and for every scenario, until a correct owner    *)
(* overwrites an entry that it has voted for.                              *)
(***************************************************************************)
EXTENDS DqPbft, LogLemmas

-----------------------------------------------------------------------------
(* Quorums *)

\* The replicas are finitely many, N of them.
LEMMA ReplicasFinite == IsFiniteSet(Replicas) /\ Cardinality(Replicas) = N
  <1> DEFINE b == N - 1
  <1>1. b \in Int /\ b >= 0 /\ N \in Nat
    BY DqAssumption
  <1> HIDE DEF b
  <1>2. IsFiniteSet(0 .. b) /\ Cardinality(0 .. b) = IF 0 > b THEN 0 ELSE b - 0 + 1
    BY <1>1, FS_Interval
  <1>3. IsFiniteSet(0 .. b) /\ Cardinality(0 .. b) = b + 1
    BY <1>1, <1>2
  <1> QED BY <1>1, <1>3 DEF b, Replicas

\* Quorum.Majority and OQuorum.Majority: a larger certificate has a majority too.
LEMMA MajorityGrows ==
  ASSUME NEW P, NEW Q \in SUBSET Replicas, P \subseteq Q, Majority(P)
  PROVE  Majority(Q)
  <1>1. IsFiniteSet(Q)
    BY ReplicasFinite, FS_Subset
  <1>2. IsFiniteSet(P) /\ Cardinality(P) <= Cardinality(Q)
    BY <1>1, FS_Subset
  <1>3. Cardinality(P) \in Nat /\ Cardinality(Q) \in Nat
    BY <1>1, <1>2, FS_CardinalityType
  <1> QED BY <1>2, <1>3, DqAssumption DEF Majority

\* Two majorities share a correct replica.
LEMMA MajoritiesMeet ==
  ASSUME NEW P \in SUBSET Replicas, NEW Q \in SUBSET Replicas, Majority(P), Majority(Q)
  PROVE  \E s \in Correct : s \in P /\ s \in Q
  <1>1. P \cup Q \in SUBSET Replicas /\ P \cap Q \in SUBSET Replicas /\ Faulty \in SUBSET Replicas
    BY DqAssumption
  <1>2. /\ IsFiniteSet(P) /\ IsFiniteSet(Q) /\ IsFiniteSet(P \cap Q) /\ IsFiniteSet(Faulty)
        /\ IsFiniteSet(P \cup Q) /\ Cardinality(P \cup Q) <= N
    BY <1>1, ReplicasFinite, FS_Subset
  <1>3. Cardinality(P \cup Q) = Cardinality(P) + Cardinality(Q) - Cardinality(P \cap Q)
    BY <1>2, FS_Union
  <1>4. /\ Cardinality(P) \in Nat /\ Cardinality(Q) \in Nat /\ Cardinality(P \cap Q) \in Nat
        /\ Cardinality(P \cup Q) \in Nat /\ Cardinality(Faulty) \in Nat
    BY <1>2, FS_CardinalityType
  <1>5. Cardinality(P \cap Q) > Cardinality(Faulty)
    BY <1>2, <1>3, <1>4, DqAssumption DEF Majority
  <1>6. ~(P \cap Q \subseteq Faulty)
    <2> SUFFICES ASSUME P \cap Q \subseteq Faulty PROVE FALSE
      OBVIOUS
    <2>1. Cardinality(P \cap Q) <= Cardinality(Faulty)
      BY <1>2, FS_Subset
    <2> QED BY <2>1, <1>4, <1>5
  <1> QED BY <1>6 DEF Correct

\* Votes come from replicas.
LEMMA VotersAreReplicas ==
  ASSUME NEW L, NEW liars \in SUBSET Faulty, NEW k, NEW v
  PROVE  prepareVoters(L, liars, k, v) \in SUBSET Replicas
  BY DqAssumption DEF prepareVoters, Correct

\* The quorums behind two prepared entries meet in a replica that holds one value.
LEMMA BackedAgrees ==
  ASSUME NEW L, NEW liars \in SUBSET Faulty, NEW keys, Backed(L, liars, keys)
  PROVE  Agrees(L, keys)
  <1> SUFFICES ASSUME NEW r \in Correct, NEW s \in Correct, NEW k \in keys,
                      L[r][k].status \in Certified, L[s][k].status \in Certified
               PROVE  L[r][k].val = L[s][k].val
    BY DEF Agrees
  <1> DEFINE P == prepareVoters(L, liars, k, L[r][k].val)
             Q == prepareVoters(L, liars, k, L[s][k].val)
  <1>1. Majority(P) /\ Majority(Q)
    BY DEF Backed
  <1>2. P \in SUBSET Replicas /\ Q \in SUBSET Replicas
    BY VotersAreReplicas
  <1>3. PICK q \in Correct : q \in P /\ q \in Q
    <2> HIDE DEF P, Q
    <2> QED BY <1>1, <1>2, MajoritiesMeet
  <1>4. q \notin liars
    BY DEF Correct
  <1> QED BY <1>3, <1>4 DEF prepareVoters

-----------------------------------------------------------------------------
(* Steps of a log *)

\* An entry that has been voted for keeps its value.
Keeps(L, M, keys) ==
    \A s \in Correct : \A k \in keys :
        L[s][k].status # "Absent" => M[s][k].status # "Absent" /\ M[s][k].val = L[s][k].val

\* What is prepared after a step was prepared with that value before, or has
\* its votes now.
Certifies(L, M, liars, keys) ==
    \A s \in Correct : \A k \in keys :
        M[s][k].status \in Certified =>
            \/ L[s][k].status \in Certified
            \/ Majority(prepareVoters(M, liars, k, M[s][k].val))

\* A step that keeps values and certifies what has votes keeps a log backed.
LEMMA StaysBacked ==
  ASSUME NEW L, NEW M, NEW liars \in SUBSET Faulty, NEW keys,
         Backed(L, liars, keys), Keeps(L, M, keys), Certifies(L, M, liars, keys),
         \A s \in Correct : \A k \in keys : M[s][k].status = "Absent" <=> M[s][k].val = Nil
  PROVE  Backed(M, liars, keys)
  <1> SUFFICES ASSUME NEW s \in Correct, NEW k \in keys, M[s][k].status \in Certified
               PROVE  Majority(prepareVoters(M, liars, k, M[s][k].val))
    BY DEF Backed
  <1>1. CASE L[s][k].status \in Certified
    <2>1. M[s][k].val = L[s][k].val
      BY <1>1 DEF Keeps, Certified
    <2>2. prepareVoters(L, liars, k, L[s][k].val) \subseteq prepareVoters(M, liars, k, L[s][k].val)
      BY DEF Keeps, prepareVoters
    <2>3. prepareVoters(M, liars, k, L[s][k].val) \in SUBSET Replicas
      BY VotersAreReplicas
    <2>4. Majority(prepareVoters(L, liars, k, L[s][k].val))
      BY <1>1 DEF Backed
    <2> QED BY <2>1, <2>2, <2>3, <2>4, MajorityGrows
  <1>2. CASE ~(L[s][k].status \in Certified)
    BY <1>2 DEF Certifies
  <1> QED BY <1>1, <1>2

CEntry == [status : Statuses, val : Commands \cup {Nil}]
OEntry == [status : Statuses, val : Seq(InstanceIDs) \cup {Nil}]

\* A log M of r that holds C up to committed entries that have been executed.
Holds(M, C, keys) ==
    \A k \in keys : /\ M[k].val = C[k].val
                    /\ \/ M[k].status = C[k].status
                       \/ C[k].status = "Committed" /\ M[k].status = "Executed"

\* store and exec leave the logs of r as they are given, up to marking entries as
\* executed, and touch nobody else's.
LEMMA StoreEffect ==
  ASSUME TypeOK, NEW r \in Correct, NEW status,
         NEW C \in [InstanceIDs -> CEntry], NEW O \in [OIndices -> OEntry],
         store(r, C, O, status)
  PROVE  /\ log' \in [Correct -> [InstanceIDs -> CEntry]]
         /\ olog' \in [Correct -> [OIndices -> OEntry]]
         /\ \A s \in Correct \ {r} : log'[s] = log[s] /\ olog'[s] = olog[s]
         /\ Holds(log'[r], C, InstanceIDs) /\ Holds(olog'[r], O, OIndices)
  <1> USE DEF TypeOK, CEntry, OEntry
  <1>1. CASE status # "Committed"
    BY <1>1 DEF store, Holds
  <1>2. CASE status = "Committed"
    <2>1. PICK next \in nextODeliverIndex[r] .. MaxOIndex :
             /\ deliverable(C, O, nextODeliverIndex[r], next)
             /\ log' = [log EXCEPT ![r] = [id \in InstanceIDs |->
                   IF id \in Range(named(O, nextODeliverIndex[r], next))
                   THEN [C[id] EXCEPT !.status = "Executed"] ELSE C[id]]]
             /\ olog' = [olog EXCEPT ![r] = [i \in OIndices |->
                   IF i \in nextODeliverIndex[r] .. next - 1
                   THEN [O[i] EXCEPT !.status = "Executed"] ELSE O[i]]]
      BY <1>2 DEF store, exec
    <2> DEFINE ids == named(O, nextODeliverIndex[r], next)
    <2>2. \A id \in Range(ids) : C[id].status = "Committed"
      BY <2>1 DEF deliverable, Range
    <2>3. \A i \in nextODeliverIndex[r] .. next - 1 : O[i].status = "Committed"
      BY <2>1 DEF deliverable
    <2> HIDE DEF ids
    <2>4. log' = [log EXCEPT ![r] = [id \in InstanceIDs |->
                   IF id \in Range(ids) THEN [C[id] EXCEPT !.status = "Executed"] ELSE C[id]]]
      BY <2>1 DEF ids
    <2>5. \A id \in InstanceIDs : [C[id] EXCEPT !.status = "Executed"] \in CEntry
      BY DEF Statuses
    <2>6. \A i \in OIndices : [O[i] EXCEPT !.status = "Executed"] \in OEntry
      BY DEF Statuses
    <2>7. /\ log' \in [Correct -> [InstanceIDs -> CEntry]]
          /\ \A s \in Correct \ {r} : log'[s] = log[s]
          /\ \A id \in InstanceIDs : log'[r][id] = IF id \in Range(ids)
                 THEN [C[id] EXCEPT !.status = "Executed"] ELSE C[id]
      BY <2>4, <2>5
    <2>8. /\ olog' \in [Correct -> [OIndices -> OEntry]]
          /\ \A s \in Correct \ {r} : olog'[s] = olog[s]
          /\ \A i \in OIndices : olog'[r][i] = IF i \in nextODeliverIndex[r] .. next - 1
                 THEN [O[i] EXCEPT !.status = "Executed"] ELSE O[i]
      BY <2>1, <2>6
    <2>9. Holds(log'[r], C, InstanceIDs)
      BY <2>2, <2>7 DEF Holds
    <2>10. Holds(olog'[r], O, OIndices)
      BY <2>3, <2>8 DEF Holds
    <2> QED BY <2>7, <2>8, <2>9, <2>10
  <1> QED BY <1>1, <1>2

\* A handler that gives entry k of r a value it may have, and a status it has
\* the votes for, keeps the log backed.
LEMMA EntryStep ==
  ASSUME NEW L, NEW M, NEW C, NEW liars \in SUBSET Faulty, NEW keys,
         Backed(L, liars, keys), NEW r \in Correct, NEW k \in keys,
         \A s \in Correct \ {r} : M[s] = L[s],
         \A j \in keys \ {k} : C[j] = L[r][j],
         Holds(M[r], C, keys),
         C[k].status # "Absent", C[k].val # Nil,
         L[r][k].status # "Absent" => C[k].val = L[r][k].val,
         C[k].status \in Certified =>
             \/ L[r][k].status \in Certified
             \/ \E P \in SUBSET (prepareVoters(L, liars, k, C[k].val) \cup {r}) : Majority(P)
  PROVE  Backed(M, liars, keys)
  <1>1. Keeps(L, M, keys)
    BY DEF Keeps, Holds, Certified
  <1>2. \A s \in Correct : \A j \in keys : M[s][j].status = "Absent" <=> M[s][j].val = Nil
    BY DEF Backed, Holds
  <1>3. ASSUME NEW P \in SUBSET (prepareVoters(L, liars, k, C[k].val) \cup {r}), Majority(P)
        PROVE  Majority(prepareVoters(M, liars, k, M[r][k].val))
    <2>1. M[r][k].val = C[k].val /\ M[r][k].status # "Absent"
      BY DEF Holds
    <2>2. P \subseteq prepareVoters(M, liars, k, M[r][k].val)
      BY <1>1, <2>1 DEF Keeps, prepareVoters
    <2>3. prepareVoters(M, liars, k, M[r][k].val) \in SUBSET Replicas
      BY VotersAreReplicas
    <2> QED BY <1>3, <2>2, <2>3, MajorityGrows
  <1>4. Certifies(L, M, liars, keys)
    <2> SUFFICES ASSUME NEW s \in Correct, NEW j \in keys, M[s][j].status \in Certified,
                        ~(L[s][j].status \in Certified)
                 PROVE  Majority(prepareVoters(M, liars, j, M[s][j].val))
      BY DEF Certifies
    <2>1. s = r /\ j = k
      BY DEF Holds, Certified
    <2>2. C[k].status \in Certified
      BY <2>1 DEF Holds, Certified
    <2> QED BY <1>3, <2>1, <2>2
  <1> QED BY <1>1, <1>2, <1>4, StaysBacked

\* A step that at most marks entries of r as executed.
LEMMA ExecStep ==
  ASSUME NEW L, NEW M, NEW liars \in SUBSET Faulty, NEW keys,
         Backed(L, liars, keys), NEW r \in Correct,
         \A s \in Correct \ {r} : M[s] = L[s], Holds(M[r], L[r], keys)
  PROVE  Backed(M, liars, keys)
  <1>1. Keeps(L, M, keys)
    BY DEF Keeps, Holds, Certified
  <1>2. \A s \in Correct : \A j \in keys : M[s][j].status = "Absent" <=> M[s][j].val = Nil
    BY DEF Backed, Holds
  <1>3. Certifies(L, M, liars, keys)
    BY DEF Certifies, Holds, Certified
  <1> QED BY <1>1, <1>2, <1>3, StaysBacked

\* The certificates that statuses counts are made of votes that were sent.
LEMMA StatusHasVotes ==
  ASSUME NEW L, NEW liars, NEW r, NEW k, NEW v, NEW from,
         from \in prepareVoters(L, liars, k, v) \cup {r},
         NEW status \in statuses(L, liars, r, k, v, from)
  PROVE  /\ status \in {"PrePrepared", "Prepared", "Committed"}
         /\ status # "PrePrepared" =>
               \E P \in SUBSET (prepareVoters(L, liars, k, v) \cup {r}) : Majority(P)
  <1>1. PICK p \in SUBSET prepareVoters(L, liars, k, v), c \in SUBSET commitVoters(L, liars, k, v) :
           status = IF ~Majority(p \cup {from, r}) THEN "PrePrepared"
                    ELSE IF ~Majority(c \cup {r}) THEN "Prepared" ELSE "Committed"
    BY DEF statuses
  <1>2. p \cup {from, r} \in SUBSET (prepareVoters(L, liars, k, v) \cup {r})
    OBVIOUS
  <1> QED BY <1>1, <1>2

-----------------------------------------------------------------------------
(* The O log at the primary *)

\* LeaderID is a replica, and the primary of the view of that number.
LEMMA PrimaryIsLeader ==
  ASSUME TypeOK, NEW r \in Replicas, isPrimaryAtView(r, oview)
  PROVE  r = oview
  <1>1. oview \in 0 .. N - 1 /\ N \in Nat \ {0}
    BY DqAssumption DEF TypeOK, Scenario, Replicas, oview
  <1>2. oview % N = oview
    <2> DEFINE v == oview
    <2> HIDE DEF v
    <2>1. v \in 0 .. N - 1 => v % N = v
      BY <1>1
    <2> QED BY <1>1, <2>1 DEF v
  <1> QED BY <1>2 DEF isPrimaryAtView

\* Ordering one more batch, or none, keeps the O log backed and the entries from
\* oindex on unused.
LEMMA OrderStep ==
  ASSUME LogsInv, NEW r \in Correct, NEW ids \in Seq(InstanceIDs), NEW O,
         \/ O = olog[r] /\ oindex' = oindex
         \/ /\ isPrimaryAtView(r, oview) /\ oindex[r] < cfg.batches
            /\ O = withBatch(r, ids) /\ oindex' = [oindex EXCEPT ![r] = @ + 1],
         \A s \in Correct \ {r} : olog'[s] = olog[s], Holds(olog'[r], O, OIndices)
  PROVE  /\ Backed(olog', Liars("O"), OIndices)
         /\ oindex' \in [Correct -> Nat]
         /\ \A k \in OIndices : oview \in Correct /\ k >= oindex'[oview] => olog'[oview][k].status = "Absent"
  <1>0. Liars("O") \in SUBSET Faulty /\ Backed(olog, Liars("O"), OIndices) /\ TypeOK /\ Fresh
    BY DEF Liars, LogsInv
  <1>1. CASE O = olog[r] /\ oindex' = oindex
    <2>1. Backed(olog', Liars("O"), OIndices)
      BY <1>0, <1>1, ExecStep
    <2>2. ASSUME NEW k \in OIndices, oview \in Correct, k >= oindex[oview]
          PROVE  olog'[oview][k].status = "Absent"
      <3>1. olog[oview][k].status = "Absent"
        BY <1>0, <2>2 DEF Fresh
      <3>2. CASE oview = r
        BY <1>1, <3>1, <3>2 DEF Holds
      <3>3. CASE oview # r
        BY <2>2, <3>1, <3>3
      <3> QED BY <3>2, <3>3
    <2> QED BY <1>0, <1>1, <2>1, <2>2 DEF TypeOK
  <1>2. CASE /\ isPrimaryAtView(r, oview) /\ oindex[r] < cfg.batches
             /\ O = withBatch(r, ids) /\ oindex' = [oindex EXCEPT ![r] = @ + 1]
    <2>1. r = oview /\ oindex[r] \in Nat
      BY <1>0, <1>2, PrimaryIsLeader DEF Correct, TypeOK
    <2>2. oindex[r] \in OIndices
      BY <1>0, <1>2, <2>1, DqAssumption DEF OIndices, Scenario, TypeOK
    <2>3. olog[r][oindex[r]].status = "Absent"
      BY <1>0, <2>1, <2>2 DEF Fresh, TypeOK
    <2>4. /\ O[oindex[r]].status = "PrePrepared" /\ O[oindex[r]].val = ids
          /\ \A j \in OIndices \ {oindex[r]} : O[j] = olog[r][j]
      BY <1>0, <1>2, <2>2 DEF withBatch, instance, TypeOK
    <2>5. ids # Nil
      BY DqAssumption
    <2>6. Backed(olog', Liars("O"), OIndices)
      <3> DEFINE k == oindex[r]
      <3>1. k \in OIndices /\ \A j \in OIndices \ {k} : O[j] = olog[r][j]
        BY <2>2, <2>4
      <3>2. O[k].status # "Absent" /\ O[k].val # Nil /\ ~(olog[r][k].status # "Absent")
        BY <2>3, <2>4, <2>5
      <3>3. ~(O[k].status \in Certified)
        BY <2>4 DEF Certified
      <3> HIDE DEF k
      <3> QED BY <1>0, <3>1, <3>2, <3>3, EntryStep
    <2>7. oindex' \in [Correct -> Nat] /\ oindex'[oview] = oindex[oview] + 1
      BY <1>0, <1>2, <2>1 DEF TypeOK
    <2>8. \A k \in OIndices : k >= oindex'[oview] => olog'[oview][k].status = "Absent"
      <3> SUFFICES ASSUME NEW k \in OIndices, k >= oindex'[oview]
                   PROVE  olog'[oview][k].status = "Absent"
        OBVIOUS
      <3>1. k # oindex[r] /\ k >= oindex[oview]
        BY <2>1, <2>7 DEF OIndices
      <3>2. olog[oview][k].status = "Absent"
        BY <1>0, <2>1, <3>1 DEF Fresh
      <3> QED BY <2>1, <2>4, <3>1, <3>2 DEF Holds
    <2> QED BY <2>6, <2>7, <2>8
  <1> QED BY <1>1, <1>2

\* onCRequest buffers the instance, or orders the buffer with it, or does nothing.
LEMMA CRequestEffect ==
  ASSUME TypeOK, NEW r \in Correct, NEW id \in InstanceIDs, onCRequest(r, id)
  PROVE  /\ cReqBuffer' \in [Correct -> Seq(InstanceIDs)]
         /\ Append(cReqBuffer[r], id) \in Seq(InstanceIDs)
         /\ ologAfter(r, id) \in [OIndices -> OEntry]
         /\ \/ ologAfter(r, id) = olog[r] /\ oindex' = oindex
            \/ /\ isPrimaryAtView(r, oview) /\ oindex[r] < cfg.batches
               /\ ologAfter(r, id) = withBatch(r, Append(cReqBuffer[r], id))
               /\ oindex' = [oindex EXCEPT ![r] = @ + 1]
  <1>1. cReqBuffer[r] \in Seq(InstanceIDs) /\ Append(cReqBuffer[r], id) \in Seq(InstanceIDs)
    BY DEF TypeOK
  <1>2. olog[r] \in [OIndices -> OEntry]
    BY DEF TypeOK, OEntry
  <1>3. instance("PrePrepared", Append(cReqBuffer[r], id)) \in OEntry
    BY <1>1 DEF instance, OEntry, Statuses
  <1>4. CASE fillsBatch(r)
    <2>1. << >> \in Seq(InstanceIDs)
      OBVIOUS
    <2>2. withBatch(r, Append(cReqBuffer[r], id)) \in [OIndices -> OEntry]
      BY <1>2, <1>3 DEF withBatch
    <2> QED BY <1>1, <1>4, <2>1, <2>2 DEF onCRequest, sendCRequest, ologAfter, fillsBatch, TypeOK
  <1>5. CASE ~fillsBatch(r)
    BY <1>1, <1>2, <1>5 DEF onCRequest, ologAfter, TypeOK
  <1> QED BY <1>4, <1>5

-----------------------------------------------------------------------------
(* The steps of Next *)

FreshC(M, ix) ==
  cfg.attack # "C" =>
    \A s \in Correct : \A id \in InstanceIDs : id[1] = s /\ id[2] >= ix[s] => M[s][id].status = "Absent"

\* The parts of the invariant after a step.
LEMMA Together ==
  ASSUME LogsInv, cfg' = cfg, requested' \subseteq Commands,
         index' \in [Correct -> Nat], oindex' \in [Correct -> Nat],
         log' \in [Correct -> [InstanceIDs -> CEntry]],
         olog' \in [Correct -> [OIndices -> OEntry]],
         cReqBuffer' \in [Correct -> Seq(InstanceIDs)], overwritten' \subseteq InstanceIDs,
         Backed(log', Liars("C"), InstanceIDs), Backed(olog', Liars("O"), OIndices),
         FreshC(log', index'),
         \A k \in OIndices : oview \in Correct /\ k >= oindex'[oview] => olog'[oview][k].status = "Absent"
  PROVE  LogsInv'
  <1>1. TypeOK'
    BY DEF LogsInv, TypeOK, CEntry, OEntry
  <1>2. oview' = oview /\ Liars("C")' = Liars("C") /\ Liars("O")' = Liars("O")
    BY DEF oview, Liars
  <1>3. Fresh'
    BY <1>2 DEF Fresh, FreshC
  <1>4. Backed(log, Liars("C"), InstanceIDs)' /\ Backed(olog, Liars("O"), OIndices)'
    BY <1>2 DEF Backed, prepareVoters
  <1> QED BY <1>1, <1>3, <1>4 DEF LogsInv

\* A handler that writes entry id of r in the C log.
LEMMA CStep ==
  ASSUME LogsInv, NEW r \in Correct, NEW id \in InstanceIDs, NEW C,
         \A s \in Correct \ {r} : log'[s] = log[s],
         \A j \in InstanceIDs \ {id} : C[j] = log[r][j],
         Holds(log'[r], C, InstanceIDs),
         C[id].status # "Absent", C[id].val # Nil,
         log[r][id].status # "Absent" => C[id].val = log[r][id].val,
         C[id].status \in Certified =>
             \/ log[r][id].status \in Certified
             \/ \E P \in SUBSET (prepareVoters(log, Liars("C"), id, C[id].val) \cup {r}) : Majority(P),
         index' \in [Correct -> Nat], \A s \in Correct : index'[s] >= index[s],
         cfg.attack # "C" /\ id[1] = r => log[r][id].status # "Absent" \/ id[2] < index'[r]
  PROVE  Backed(log', Liars("C"), InstanceIDs) /\ FreshC(log', index')
  <1>0. /\ Liars("C") \in SUBSET Faulty /\ Backed(log, Liars("C"), InstanceIDs) /\ TypeOK
        /\ FreshC(log, index)
    BY DEF Liars, LogsInv, Fresh, FreshC
  <1>1. Backed(log', Liars("C"), InstanceIDs)
    BY <1>0, EntryStep
  <1>2. ASSUME cfg.attack # "C", NEW s \in Correct, NEW j \in InstanceIDs, j[1] = s, j[2] >= index'[s]
        PROVE  log'[s][j].status = "Absent"
    <2>1. j[2] \in Int /\ index[s] \in Nat /\ index'[s] \in Nat
      BY <1>0, DqAssumption DEF InstanceIDs, TypeOK
    <2>2. j[2] >= index[s]
      BY <1>2, <2>1
    <2>3. log[s][j].status = "Absent"
      BY <1>0, <1>2, <2>2 DEF FreshC
    <2>4. CASE s # r
      BY <2>3, <2>4
    <2>5. CASE s = r /\ j # id
      BY <2>3, <2>5 DEF Holds
    <2>6. CASE s = r /\ j = id
      <3>1. id[2] < index'[r]
        BY <1>2, <2>3, <2>6
      <3> QED BY <1>2, <2>1, <2>6, <3>1
    <2> QED BY <2>4, <2>5, <2>6
  <1> QED BY <1>1, <1>2 DEF FreshC

\* A handler that leaves the C log of r alone, up to execution.
LEMMA CSame ==
  ASSUME LogsInv, NEW r \in Correct, \A s \in Correct \ {r} : log'[s] = log[s],
         Holds(log'[r], log[r], InstanceIDs), index' = index
  PROVE  Backed(log', Liars("C"), InstanceIDs) /\ FreshC(log', index')
  <1>0. /\ Liars("C") \in SUBSET Faulty /\ Backed(log, Liars("C"), InstanceIDs)
        /\ FreshC(log, index)
    BY DEF Liars, LogsInv, Fresh, FreshC
  <1>1. Backed(log', Liars("C"), InstanceIDs)
    BY <1>0, ExecStep
  <1>2. FreshC(log', index')
    <2> SUFFICES ASSUME cfg.attack # "C", NEW s \in Correct, NEW j \in InstanceIDs,
                        j[1] = s, j[2] >= index[s]
                 PROVE  log'[s][j].status = "Absent"
      BY DEF FreshC
    <2>1. log[s][j].status = "Absent"
      BY <1>0 DEF FreshC
    <2>2. CASE s = r
      BY <2>1, <2>2 DEF Holds
    <2>3. CASE s # r
      BY <2>1, <2>3
    <2> QED BY <2>2, <2>3
  <1> QED BY <1>1, <1>2

\* A handler that writes entry k of r in the O log.
LEMMA OStep ==
  ASSUME LogsInv, NEW r \in Correct, NEW k \in OIndices, NEW O,
         \A s \in Correct \ {r} : olog'[s] = olog[s],
         \A j \in OIndices \ {k} : O[j] = olog[r][j],
         Holds(olog'[r], O, OIndices),
         O[k].status # "Absent", O[k].val # Nil,
         olog[r][k].status # "Absent" => O[k].val = olog[r][k].val,
         O[k].status \in Certified =>
             \/ olog[r][k].status \in Certified
             \/ \E P \in SUBSET (prepareVoters(olog, Liars("O"), k, O[k].val) \cup {r}) : Majority(P),
         oindex' = oindex, r = oview => olog[r][k].status # "Absent"
  PROVE  /\ Backed(olog', Liars("O"), OIndices)
         /\ \A j \in OIndices : oview \in Correct /\ j >= oindex'[oview] => olog'[oview][j].status = "Absent"
  <1>0. Liars("O") \in SUBSET Faulty /\ Backed(olog, Liars("O"), OIndices) /\ Fresh
    BY DEF Liars, LogsInv
  <1>1. Backed(olog', Liars("O"), OIndices)
    BY <1>0, EntryStep
  <1>2. ASSUME NEW j \in OIndices, oview \in Correct, j >= oindex[oview]
        PROVE  olog'[oview][j].status = "Absent"
    <2>1. olog[oview][j].status = "Absent"
      BY <1>0, <1>2 DEF Fresh
    <2>2. CASE oview = r
      BY <2>1, <2>2 DEF Holds
    <2>3. CASE oview # r
      BY <1>2, <2>1, <2>3
    <2> QED BY <2>2, <2>3
  <1> QED BY <1>1, <1>2

\* NewDQPBFT starts with empty logs.
LEMMA InitInv == Init => LogsInv
  <1> SUFFICES ASSUME Init PROVE LogsInv
    OBVIOUS
  <1>1. TypeOK
    BY DqAssumption DEF Init, TypeOK, NoInstance, Statuses
  <1>2. Fresh
    BY DEF Init, Fresh, NoInstance
  <1>3. /\ \A r \in Correct : \A k \in InstanceIDs : log[r][k] = NoInstance
        /\ \A r \in Correct : \A k \in OIndices : olog[r][k] = NoInstance
    BY DEF Init
  <1>4. NoInstance.status = "Absent" /\ NoInstance.val = Nil /\ "Absent" \notin Certified
    BY DEF NoInstance, Certified
  <1>5. Backed(log, Liars("C"), InstanceIDs) /\ Backed(olog, Liars("O"), OIndices)
    BY <1>3, <1>4 DEF Backed
  <1> QED BY <1>1, <1>2, <1>5 DEF LogsInv

\* onRequest opens an instance that its owner has not voted in.
LEMMA RequestStep ==
  ASSUME LogsInv, NoneOverwritten', NEW r \in Correct, NEW c \in Commands, onRequest(r, c)
  PROVE  LogsInv'
  <1> DEFINE id == <<r, index[r]>>
             C == [log[r] EXCEPT ![id] = instance("PrePrepared", c)]
  <1>0. TypeOK /\ Fresh
    BY DEF LogsInv
  <1>1. id \in InstanceIDs /\ id[1] = r /\ id[2] = index[r] /\ index[r] \in Nat
    BY <1>0, DqAssumption DEF onRequest, TypeOK, InstanceIDs, Correct
  <1>2. log[r][id].status = "Absent" /\ overwritten' \subseteq InstanceIDs
    BY DEF onRequest, NoneOverwritten
  <1>3. /\ cfg' = cfg /\ requested' = requested \cup {c}
        /\ index' = [index EXCEPT ![r] = @ + 1] /\ log' = [log EXCEPT ![r] = C]
        /\ olog' = [olog EXCEPT ![r] = ologAfter(r, id)] /\ onCRequest(r, id)
    BY <1>0 DEF onRequest, TypeOK
  <1>4. /\ log[r] \in [InstanceIDs -> CEntry] /\ instance("PrePrepared", c) \in CEntry
        /\ C \in [InstanceIDs -> CEntry] /\ C[id] = instance("PrePrepared", c)
        /\ \A j \in InstanceIDs \ {id} : C[j] = log[r][j]
    BY <1>0, <1>1 DEF TypeOK, CEntry, instance, Statuses
  <1> HIDE DEF id, C
  <1>5. /\ log' \in [Correct -> [InstanceIDs -> CEntry]] /\ log'[r] = C
        /\ \A s \in Correct \ {r} : log'[s] = log[s]
    BY <1>0, <1>3, <1>4 DEF TypeOK, CEntry
  <1>6. /\ index' \in [Correct -> Nat] /\ id[2] < index'[r]
        /\ \A s \in Correct : index'[s] >= index[s]
    BY <1>0, <1>1, <1>3 DEF TypeOK
  <1>7. C[id].status = "PrePrepared" /\ C[id].val # Nil /\ ~(C[id].status \in Certified)
    BY <1>4, DqAssumption DEF instance, Certified
  <1>8. Holds(log'[r], C, InstanceIDs)
    BY <1>5 DEF Holds
  <1>9. Backed(log', Liars("C"), InstanceIDs) /\ FreshC(log', index')
    BY <1>1, <1>2, <1>4, <1>5, <1>6, <1>7, <1>8, CStep
  <1> DEFINE O == ologAfter(r, id)
             ids == Append(cReqBuffer[r], id)
  <1>10. /\ cReqBuffer' \in [Correct -> Seq(InstanceIDs)] /\ ids \in Seq(InstanceIDs)
         /\ O \in [OIndices -> OEntry]
         /\ \/ O = olog[r] /\ oindex' = oindex
            \/ /\ isPrimaryAtView(r, oview) /\ oindex[r] < cfg.batches
               /\ O = withBatch(r, ids) /\ oindex' = [oindex EXCEPT ![r] = @ + 1]
    BY <1>0, <1>1, <1>3, CRequestEffect
  <1> HIDE DEF O, ids
  <1>11. /\ olog' \in [Correct -> [OIndices -> OEntry]] /\ olog'[r] = O
         /\ \A s \in Correct \ {r} : olog'[s] = olog[s]
    BY <1>0, <1>3, <1>10 DEF TypeOK, OEntry, O
  <1>12. Holds(olog'[r], O, OIndices)
    BY <1>11 DEF Holds
  <1>13. /\ Backed(olog', Liars("O"), OIndices) /\ oindex' \in [Correct -> Nat]
         /\ \A k \in OIndices : oview \in Correct /\ k >= oindex'[oview] => olog'[oview][k].status = "Absent"
    BY <1>10, <1>11, <1>12, OrderStep
  <1>14. requested' \subseteq Commands
    BY <1>0, <1>3 DEF TypeOK
  <1> QED BY <1>2, <1>3, <1>5, <1>6, <1>9, <1>10, <1>11, <1>13, <1>14, Together

\* The batch timer of the primary opens an entry of the O log.
LEMMA TimeoutStep ==
  ASSUME LogsInv, NEW r \in Correct, Timeout(r)
  PROVE  LogsInv'
  <1> DEFINE ids == cReqBuffer[r]
             O == withBatch(r, ids)
  <1>0. TypeOK
    BY DEF LogsInv
  <1>1. /\ cfg' = cfg /\ requested' = requested /\ index' = index /\ log' = log
        /\ olog' = [olog EXCEPT ![r] = O] /\ oindex' = [oindex EXCEPT ![r] = @ + 1]
        /\ cReqBuffer' = [cReqBuffer EXCEPT ![r] = << >>]
        /\ isPrimaryAtView(r, oview) /\ oindex[r] < cfg.batches
    BY DEF Timeout, sendCRequest
  <1>2. ids \in Seq(InstanceIDs) /\ << >> \in Seq(InstanceIDs)
    BY <1>0 DEF TypeOK
  <1>3. O \in [OIndices -> OEntry]
    BY <1>0, <1>2 DEF withBatch, instance, TypeOK, OEntry, Statuses
  <1>4. O = withBatch(r, ids)
    OBVIOUS
  <1> HIDE DEF O, ids
  <1>5. /\ olog' \in [Correct -> [OIndices -> OEntry]] /\ olog'[r] = O
        /\ \A s \in Correct \ {r} : olog'[s] = olog[s]
    BY <1>0, <1>1, <1>3 DEF TypeOK, OEntry
  <1>6. Holds(olog'[r], O, OIndices) /\ Holds(log'[r], log[r], InstanceIDs)
    BY <1>1, <1>5 DEF Holds
  <1>7. /\ Backed(olog', Liars("O"), OIndices) /\ oindex' \in [Correct -> Nat]
        /\ \A k \in OIndices : oview \in Correct /\ k >= oindex'[oview] => olog'[oview][k].status = "Absent"
    BY <1>1, <1>2, <1>4, <1>5, <1>6, OrderStep
  <1>8. Backed(log', Liars("C"), InstanceIDs) /\ FreshC(log', index')
    BY <1>1, <1>6, CSame
  <1>9. /\ log' \in [Correct -> [InstanceIDs -> CEntry]] /\ index' \in [Correct -> Nat]
        /\ requested' \subseteq Commands /\ cReqBuffer' \in [Correct -> Seq(InstanceIDs)]
        /\ overwritten' \subseteq InstanceIDs
    BY <1>0, <1>1, <1>2 DEF TypeOK, CEntry, Timeout
  <1> QED BY <1>1, <1>5, <1>7, <1>8, <1>9, Together

\* onPrePrepare votes for the proposal of an instance it has not voted for.
LEMMA PrePrepareStep ==
  ASSUME LogsInv, NEW r \in Correct, NEW from \in Replicas, NEW id \in InstanceIDs,
         NEW c \in Commands, onPrePrepare(r, from, id, c)
  PROVE  LogsInv'
  <1> DEFINE O == ologAfter(r, id)
             ids == Append(cReqBuffer[r], id)
  <1>0. TypeOK /\ Fresh /\ Backed(log, Liars("C"), InstanceIDs)
    BY DEF LogsInv
  <1>1. PICK status \in statuses(log, Liars("C"), r, id, c, from) :
           store(r, [log[r] EXCEPT ![id] = instance(status, c)], O, status)
    BY DEF onPrePrepare, storeC
  <1> DEFINE C == [log[r] EXCEPT ![id] = instance(status, c)]
  <1>2. /\ cfg' = cfg /\ requested' = requested /\ index' = index /\ onCRequest(r, id)
        /\ log[r][id].status = "Absent" /\ overwritten' = overwritten
        /\ \/ from = id[1] /\ from \in Correct /\ log[from][id].val = c
           \/ from \in Liars("C")
    BY DEF onPrePrepare
  <1>3. c # Nil
    BY DqAssumption
  <1>4. /\ from \in prepareVoters(log, Liars("C"), id, c) \cup {r}
        /\ cfg.attack # "C" => id[1] # r
    BY <1>0, <1>2, <1>3 DEF prepareVoters, Backed, Liars
  <1>5. /\ status \in {"PrePrepared", "Prepared", "Committed"}
        /\ status # "PrePrepared" =>
              \E P \in SUBSET (prepareVoters(log, Liars("C"), id, c) \cup {r}) : Majority(P)
    BY <1>1, <1>4, StatusHasVotes
  <1>6. /\ C \in [InstanceIDs -> CEntry] /\ C[id].status = status /\ C[id].val = c
        /\ \A j \in InstanceIDs \ {id} : C[j] = log[r][j]
    BY <1>0, <1>5 DEF TypeOK, CEntry, instance, Statuses
  <1>7. /\ cReqBuffer' \in [Correct -> Seq(InstanceIDs)] /\ ids \in Seq(InstanceIDs)
        /\ O \in [OIndices -> OEntry]
        /\ \/ O = olog[r] /\ oindex' = oindex
           \/ /\ isPrimaryAtView(r, oview) /\ oindex[r] < cfg.batches
              /\ O = withBatch(r, ids) /\ oindex' = [oindex EXCEPT ![r] = @ + 1]
    BY <1>0, <1>2, CRequestEffect
  <1>8. store(r, C, O, status)
    BY <1>1
  <1> HIDE DEF C, O, ids
  <1>9. /\ log' \in [Correct -> [InstanceIDs -> CEntry]]
        /\ olog' \in [Correct -> [OIndices -> OEntry]]
        /\ \A s \in Correct \ {r} : log'[s] = log[s] /\ olog'[s] = olog[s]
        /\ Holds(log'[r], C, InstanceIDs) /\ Holds(olog'[r], O, OIndices)
    BY <1>0, <1>6, <1>7, <1>8, StoreEffect
  <1>10. /\ index' \in [Correct -> Nat] /\ \A s \in Correct : index'[s] >= index[s]
         /\ requested' \subseteq Commands /\ overwritten' \subseteq InstanceIDs
    BY <1>0, <1>2 DEF TypeOK
  <1>11. Backed(log', Liars("C"), InstanceIDs) /\ FreshC(log', index')
    <2>1. C[id].status # "Absent" /\ C[id].val # Nil
      BY <1>3, <1>5, <1>6
    <2>2. C[id].status \in Certified =>
             \E P \in SUBSET (prepareVoters(log, Liars("C"), id, C[id].val) \cup {r}) : Majority(P)
      BY <1>5, <1>6 DEF Certified
    <2>3. /\ log[r][id].status # "Absent" => C[id].val = log[r][id].val
          /\ cfg.attack # "C" /\ id[1] = r => log[r][id].status # "Absent" \/ id[2] < index'[r]
          /\ \A j \in InstanceIDs \ {id} : C[j] = log[r][j]
          /\ \A s \in Correct \ {r} : log'[s] = log[s]
          /\ Holds(log'[r], C, InstanceIDs)
      BY <1>2, <1>4, <1>6, <1>9
    <2> QED BY <1>2, <1>10, <2>1, <2>2, <2>3, CStep
  <1>12. /\ Backed(olog', Liars("O"), OIndices) /\ oindex' \in [Correct -> Nat]
         /\ \A k \in OIndices : oview \in Correct /\ k >= oindex'[oview] => olog'[oview][k].status = "Absent"
    BY <1>7, <1>9, OrderStep
  <1> QED BY <1>2, <1>7, <1>9, <1>10, <1>11, <1>12, Together

\* Raising the status of an entry of the C log that has the votes for it: the
\* common part of onPrepare and onCommit.
LEMMA RaiseC ==
  ASSUME LogsInv, NEW r \in Correct, NEW id \in InstanceIDs,
         NEW status \in {"Prepared", "Committed"},
         log[r][id].status # "Absent",
         \/ log[r][id].status \in Certified
         \/ \E P \in SUBSET (prepareVoters(log, Liars("C"), id, log[r][id].val) \cup {r}) : Majority(P),
         store(r, [log[r] EXCEPT ![id].status = status], olog[r], status),
         UNCHANGED <<cfg, requested, index, oindex, cReqBuffer, overwritten>>
  PROVE  LogsInv'
  <1> DEFINE C == [log[r] EXCEPT ![id].status = status]
             O == olog[r]
  <1>0. TypeOK /\ Fresh /\ Backed(log, Liars("C"), InstanceIDs)
    BY DEF LogsInv
  <1>1. /\ C \in [InstanceIDs -> CEntry] /\ C[id].status = status /\ C[id].val = log[r][id].val
        /\ \A j \in InstanceIDs \ {id} : C[j] = log[r][j]
    <2> DEFINE e == log[r][id]
               f == [e EXCEPT !.status = status]
    <2>1. e \in CEntry /\ log[r] \in [InstanceIDs -> CEntry]
      BY <1>0 DEF TypeOK, CEntry
    <2>2. status \in Statuses
      BY DEF Statuses
    <2>3. f \in CEntry /\ f.status = status /\ f.val = e.val
      <3> HIDE DEF e
      <3> QED BY <2>1, <2>2 DEF CEntry
    <2>4. C = [log[r] EXCEPT ![id] = f]
      OBVIOUS
    <2> HIDE DEF f, C
    <2> QED BY <2>1, <2>3, <2>4
  <1>2. O \in [OIndices -> OEntry] /\ << >> \in Seq(InstanceIDs)
    BY <1>0 DEF TypeOK, OEntry
  <1>3. store(r, C, O, status) /\ O = olog[r]
    OBVIOUS
  <1> HIDE DEF C, O
  <1>4. /\ log' \in [Correct -> [InstanceIDs -> CEntry]]
        /\ olog' \in [Correct -> [OIndices -> OEntry]]
        /\ \A s \in Correct \ {r} : log'[s] = log[s] /\ olog'[s] = olog[s]
        /\ Holds(log'[r], C, InstanceIDs) /\ Holds(olog'[r], O, OIndices)
    BY <1>0, <1>1, <1>2, <1>3, StoreEffect
  <1>5. /\ index' \in [Correct -> Nat] /\ \A s \in Correct : index'[s] >= index[s]
        /\ requested' \subseteq Commands /\ cReqBuffer' \in [Correct -> Seq(InstanceIDs)]
        /\ cfg' = cfg /\ oindex' = oindex /\ overwritten' \subseteq InstanceIDs
    BY <1>0 DEF TypeOK
  <1>6. Backed(log', Liars("C"), InstanceIDs) /\ FreshC(log', index')
    <2>1. C[id].val # Nil /\ C[id].status # "Absent"
      BY <1>0, <1>1 DEF Backed
    <2>2. C[id].status \in Certified =>
             \/ log[r][id].status \in Certified
             \/ \E P \in SUBSET (prepareVoters(log, Liars("C"), id, C[id].val) \cup {r}) : Majority(P)
      BY <1>1
    <2>3. /\ log[r][id].status # "Absent" => C[id].val = log[r][id].val
          /\ id[1] = r => log[r][id].status # "Absent" \/ id[2] < index'[r]
          /\ \A j \in InstanceIDs \ {id} : C[j] = log[r][j]
          /\ \A s \in Correct \ {r} : log'[s] = log[s]
          /\ Holds(log'[r], C, InstanceIDs)
      BY <1>1, <1>4
    <2> QED BY <1>5, <2>1, <2>2, <2>3, CStep
  <1>7. /\ Backed(olog', Liars("O"), OIndices) /\ oindex' \in [Correct -> Nat]
        /\ \A k \in OIndices : oview \in Correct /\ k >= oindex'[oview] => olog'[oview][k].status = "Absent"
    BY <1>2, <1>3, <1>4, <1>5, OrderStep
  <1> QED BY <1>4, <1>5, <1>6, <1>7, Together

\* onPrepare and onCommit raise the status of an instance.
LEMMA PrepareCommitStep ==
  ASSUME LogsInv, NEW r \in Correct, NEW id \in InstanceIDs, onPrepare(r, id) \/ onCommit(r, id)
  PROVE  LogsInv'
  <1>1. CASE onPrepare(r, id)
    <2>1. PICK status \in statuses(log, Liars("C"), r, id, log[r][id].val, r) :
             /\ status # "PrePrepared"
             /\ store(r, [log[r] EXCEPT ![id].status = status], olog[r], status)
      BY <1>1 DEF onPrepare, storeC
    <2>2. /\ status \in {"Prepared", "Committed"}
          /\ \E P \in SUBSET (prepareVoters(log, Liars("C"), id, log[r][id].val) \cup {r}) : Majority(P)
      BY <2>1, StatusHasVotes
    <2>3. /\ log[r][id].status # "Absent"
          /\ UNCHANGED <<cfg, requested, index, oindex, cReqBuffer, overwritten>>
      BY <1>1 DEF onPrepare
    <2> QED BY <2>1, <2>2, <2>3, RaiseC
  <1>2. CASE onCommit(r, id)
    <2>1. /\ log[r][id].status \in Certified /\ log[r][id].status # "Absent"
          /\ store(r, [log[r] EXCEPT ![id].status = "Committed"], olog[r], "Committed")
          /\ UNCHANGED <<cfg, requested, index, oindex, cReqBuffer, overwritten>>
      BY <1>2 DEF onCommit, storeC, Certified
    <2> QED BY <2>1, RaiseC
  <1> QED BY <1>1, <1>2

\* A batch is a sequence of instances.
LEMMA BatchesAreSequences ==
  ASSUME NEW ids \in Batches
  PROVE  ids \in Seq(InstanceIDs) /\ ids # Nil
  <1> DEFINE S == {id \in InstanceIDs : id[1] \in cfg.clients}
  <1>1. S \subseteq InstanceIDs
    OBVIOUS
  <1>2. ids \in {<<a>> : a \in S} \cup {p \in S \X S : p[1] # p[2] /\ cfg.oBatchSize > 1}
    BY DEF Batches
  <1> HIDE DEF S
  <1>3. ids \in Seq(InstanceIDs)
    <2>1. CASE ids \in {<<a>> : a \in S}
      <3>1. PICK a \in S : ids = <<a>>
        BY <2>1
      <3>2. a \in InstanceIDs
        BY <1>1
      <3> HIDE DEF S
      <3> QED BY <3>1, <3>2
    <2>2. CASE ids \in S \X S
      <3>1. PICK a \in S, b \in S : ids = <<a, b>>
        BY <2>2
      <3> QED BY <1>1, <3>1
    <2> QED BY <1>2, <2>1, <2>2
  <1> QED BY <1>3, DqAssumption

\* A handler of the O log that writes entry k of r and leaves the C log alone, up
\* to execution.
LEMMA OHandler ==
  ASSUME LogsInv, NEW r \in Correct, NEW k \in OIndices, NEW status,
         NEW O \in [OIndices -> OEntry], store(r, log[r], O, status),
         UNCHANGED <<cfg, requested, index, oindex, cReqBuffer, overwritten>>,
         \A j \in OIndices \ {k} : O[j] = olog[r][j],
         O[k].status # "Absent", O[k].val # Nil,
         olog[r][k].status # "Absent" => O[k].val = olog[r][k].val,
         O[k].status \in Certified =>
             \/ olog[r][k].status \in Certified
             \/ \E P \in SUBSET (prepareVoters(olog, Liars("O"), k, O[k].val) \cup {r}) : Majority(P),
         r = oview => olog[r][k].status # "Absent"
  PROVE  LogsInv'
  <1>0. TypeOK /\ log[r] \in [InstanceIDs -> CEntry]
    BY DEF LogsInv, TypeOK, CEntry
  <1>1. /\ log' \in [Correct -> [InstanceIDs -> CEntry]]
        /\ olog' \in [Correct -> [OIndices -> OEntry]]
        /\ \A s \in Correct \ {r} : log'[s] = log[s]
        /\ \A s \in Correct \ {r} : olog'[s] = olog[s]
        /\ Holds(log'[r], log[r], InstanceIDs) /\ Holds(olog'[r], O, OIndices)
    <2> DEFINE C == log[r]
    <2>1. C \in [InstanceIDs -> CEntry] /\ store(r, C, O, status)
      BY <1>0
    <2> HIDE DEF C
    <2>2. /\ log' \in [Correct -> [InstanceIDs -> CEntry]]
          /\ olog' \in [Correct -> [OIndices -> OEntry]]
          /\ \A s \in Correct \ {r} : log'[s] = log[s] /\ olog'[s] = olog[s]
          /\ Holds(log'[r], C, InstanceIDs) /\ Holds(olog'[r], O, OIndices)
      BY <1>0, <2>1, StoreEffect
    <2> QED BY <2>2 DEF C
  <1>2. /\ cfg' = cfg /\ index' = index /\ oindex' = oindex
        /\ index' \in [Correct -> Nat] /\ oindex' \in [Correct -> Nat]
        /\ requested' \subseteq Commands /\ cReqBuffer' \in [Correct -> Seq(InstanceIDs)]
        /\ overwritten' \subseteq InstanceIDs
    BY <1>0 DEF TypeOK
  <1>3. Backed(log', Liars("C"), InstanceIDs) /\ FreshC(log', index')
    BY <1>1, <1>2, CSame
  <1>4. /\ Backed(olog', Liars("O"), OIndices)
        /\ \A j \in OIndices : oview \in Correct /\ j >= oindex'[oview] => olog'[oview][j].status = "Absent"
    BY <1>1, <1>2, OStep
  <1> QED BY <1>1, <1>2, <1>3, <1>4, Together

\* onOPrePrepare votes for the batch of an index it has not voted for.
LEMMA OPrePrepareStep ==
  ASSUME LogsInv, NEW r \in Correct, NEW k \in OIndices, NEW ids \in Batches,
         onOPrePrepare(r, k, ids)
  PROVE  LogsInv'
  <1>0. TypeOK /\ Backed(olog, Liars("O"), OIndices)
    BY DEF LogsInv
  <1>1. PICK status \in statuses(olog, Liars("O"), r, k, ids, oview) :
           store(r, log[r], [olog[r] EXCEPT ![k] = instance(status, ids)], status)
    BY DEF onOPrePrepare
  <1> DEFINE O == [olog[r] EXCEPT ![k] = instance(status, ids)]
  <1>2. /\ UNCHANGED <<cfg, requested, index, oindex, cReqBuffer, overwritten>>
        /\ olog[r][k].status = "Absent"
        /\ IF oview \in Correct THEN olog[oview][k].val = ids ELSE cfg.attack = "O"
    BY DEF onOPrePrepare
  <1>3. ids \in Seq(InstanceIDs) /\ ids # Nil
    BY BatchesAreSequences
  <1>4. oview \in prepareVoters(olog, Liars("O"), k, ids) \cup {r}
    <2>1. CASE oview \in Correct
      BY <1>0, <1>2, <1>3, <2>1 DEF prepareVoters, Backed
    <2>2. CASE oview \notin Correct
      <3>1. oview \in Replicas
        BY <1>0 DEF TypeOK, Scenario, oview
      <3>2. oview \in Faulty /\ Liars("O") = Faulty
        BY <1>2, <2>2, <3>1 DEF Correct, Liars
      <3> QED BY <3>2 DEF prepareVoters
    <2> QED BY <2>1, <2>2
  <1>5. r # oview
    BY <1>0, <1>2, <1>3 DEF Backed
  <1>6. /\ status \in {"PrePrepared", "Prepared", "Committed"}
        /\ status # "PrePrepared" =>
              \E P \in SUBSET (prepareVoters(olog, Liars("O"), k, ids) \cup {r}) : Majority(P)
    BY <1>1, <1>4, StatusHasVotes
  <1>7. /\ O \in [OIndices -> OEntry] /\ O[k].status = status /\ O[k].val = ids
        /\ \A j \in OIndices \ {k} : O[j] = olog[r][j]
    BY <1>0, <1>3, <1>6 DEF TypeOK, OEntry, instance, Statuses
  <1>8. store(r, log[r], O, status)
    BY <1>1
  <1> HIDE DEF O
  <1>9. /\ O[k].status # "Absent" /\ O[k].val # Nil
        /\ O[k].status \in Certified =>
              \E P \in SUBSET (prepareVoters(olog, Liars("O"), k, O[k].val) \cup {r}) : Majority(P)
    BY <1>3, <1>6, <1>7 DEF Certified
  <1> QED BY <1>2, <1>5, <1>7, <1>8, <1>9, OHandler

\* Raising the status of an entry of the O log that has the votes for it.
LEMMA RaiseO ==
  ASSUME LogsInv, NEW r \in Correct, NEW k \in OIndices,
         NEW status \in {"Prepared", "Committed"},
         olog[r][k].status # "Absent",
         \/ olog[r][k].status \in Certified
         \/ \E P \in SUBSET (prepareVoters(olog, Liars("O"), k, olog[r][k].val) \cup {r}) : Majority(P),
         store(r, log[r], [olog[r] EXCEPT ![k].status = status], status),
         UNCHANGED <<cfg, requested, index, oindex, cReqBuffer, overwritten>>
  PROVE  LogsInv'
  <1> DEFINE O == [olog[r] EXCEPT ![k].status = status]
  <1>0. TypeOK /\ Backed(olog, Liars("O"), OIndices)
    BY DEF LogsInv
  <1>1. /\ O \in [OIndices -> OEntry] /\ O[k].status = status /\ O[k].val = olog[r][k].val
        /\ \A j \in OIndices \ {k} : O[j] = olog[r][j]
    <2> DEFINE e == olog[r][k]
               f == [e EXCEPT !.status = status]
    <2>1. e \in OEntry /\ olog[r] \in [OIndices -> OEntry]
      BY <1>0 DEF TypeOK, OEntry
    <2>2. status \in Statuses
      BY DEF Statuses
    <2>3. f \in OEntry /\ f.status = status /\ f.val = e.val
      <3> HIDE DEF e
      <3> QED BY <2>1, <2>2 DEF OEntry
    <2>4. O = [olog[r] EXCEPT ![k] = f]
      OBVIOUS
    <2> HIDE DEF f, O
    <2> QED BY <2>1, <2>3, <2>4
  <1>2. store(r, log[r], O, status)
    OBVIOUS
  <1> HIDE DEF O
  <1>3. O[k].val # Nil /\ O[k].status # "Absent"
    BY <1>0, <1>1 DEF Backed
  <1>4. O[k].status \in Certified =>
           \/ olog[r][k].status \in Certified
           \/ \E P \in SUBSET (prepareVoters(olog, Liars("O"), k, O[k].val) \cup {r}) : Majority(P)
    BY <1>1
  <1>5. olog[r][k].status # "Absent" => O[k].val = olog[r][k].val
    BY <1>1
  <1> QED BY <1>1, <1>2, <1>3, <1>4, <1>5, OHandler

\* onOPrepare and onOCommit raise the status of a batch.
LEMMA OPrepareCommitStep ==
  ASSUME LogsInv, NEW r \in Correct, NEW k \in OIndices, onOPrepare(r, k) \/ onOCommit(r, k)
  PROVE  LogsInv'
  <1>1. CASE onOPrepare(r, k)
    <2>1. PICK status \in statuses(olog, Liars("O"), r, k, olog[r][k].val, r) :
             /\ status # "PrePrepared"
             /\ store(r, log[r], [olog[r] EXCEPT ![k].status = status], status)
      BY <1>1 DEF onOPrepare
    <2>2. /\ status \in {"Prepared", "Committed"}
          /\ \E P \in SUBSET (prepareVoters(olog, Liars("O"), k, olog[r][k].val) \cup {r}) : Majority(P)
      BY <2>1, StatusHasVotes
    <2>3. /\ olog[r][k].status # "Absent"
          /\ UNCHANGED <<cfg, requested, index, oindex, cReqBuffer, overwritten>>
      BY <1>1 DEF onOPrepare
    <2> QED BY <2>1, <2>2, <2>3, RaiseO
  <1>2. CASE onOCommit(r, k)
    <2>1. /\ olog[r][k].status \in Certified /\ olog[r][k].status # "Absent"
          /\ store(r, log[r], [olog[r] EXCEPT ![k].status = "Committed"], "Committed")
          /\ UNCHANGED <<cfg, requested, index, oindex, cReqBuffer, overwritten>>
      BY <1>2 DEF onOCommit, Certified
    <2> QED BY <2>1, RaiseO
  <1> QED BY <1>1, <1>2

-----------------------------------------------------------------------------
(* The theorems *)

\* Every message, timer tick and client request keeps the logs backed, but for an
\* onRequest that overwrites a vote.
LEMMA NextLogsInv == LogsInv /\ NoneOverwritten' /\ [Next]_vars => LogsInv'
  <1> SUFFICES ASSUME LogsInv, NoneOverwritten', [Next]_vars PROVE LogsInv'
    OBVIOUS
  <1>1. CASE Next
    <2>1. PICK r \in Correct : Step(r) \/ \E c \in Commands : onRequest(r, c)
      BY <1>1 DEF Next
    <2>2. CASE \E c \in Commands : onRequest(r, c)
      BY <2>2, RequestStep
    <2>3. CASE Timeout(r)
      BY <2>3, TimeoutStep
    <2>4. CASE \E id \in InstanceIDs : \/ \E from \in Replicas, c \in Commands : onPrePrepare(r, from, id, c)
                                       \/ onPrepare(r, id)
                                       \/ onCommit(r, id)
      BY <2>4, PrePrepareStep, PrepareCommitStep
    <2>5. CASE \E k \in OIndices : \/ \E ids \in Batches : onOPrePrepare(r, k, ids)
                                   \/ onOPrepare(r, k)
                                   \/ onOCommit(r, k)
      BY <2>5, OPrePrepareStep, OPrepareCommitStep
    <2> QED BY <2>1, <2>2, <2>3, <2>4, <2>5 DEF Step
  <1>2. CASE UNCHANGED vars
    <2>1. /\ cfg' = cfg /\ requested' = requested /\ index' = index /\ log' = log
          /\ oindex' = oindex /\ olog' = olog /\ cReqBuffer' = cReqBuffer /\ overwritten' = overwritten
      BY <1>2 DEF vars
    <2>2. TypeOK'
      BY <2>1 DEF LogsInv, TypeOK
    <2>3. Fresh'
      BY <2>1 DEF LogsInv, Fresh, oview
    <2>4. Liars("C")' = Liars("C") /\ Liars("O")' = Liars("O")
      BY <2>1 DEF Liars
    <2>5. Backed(log, Liars("C"), InstanceIDs)' /\ Backed(olog, Liars("O"), OIndices)'
      BY <2>1, <2>4 DEF LogsInv, Backed, prepareVoters
    <2> QED BY <2>2, <2>3, <2>5 DEF LogsInv
  <1> QED BY <1>1, <1>2

\* What has been overwritten stays so; only onRequest overwrites, and nothing when no
\* proposer of the C log attacks.
LEMMA OverwrittenStep ==
  ASSUME LogsInv, NoneOverwritten, [Next]_vars
  PROVE  cfg' = cfg /\ (cfg.attack # "C" => NoneOverwritten')
  <1>1. CASE \E r \in Correct, c \in Commands : onRequest(r, c)
    <2>1. PICK r \in Correct, c \in Commands : onRequest(r, c)
      BY <1>1
    <2> DEFINE id == <<r, index[r]>>
    <2>2. id \in InstanceIDs /\ id[1] = r /\ id[2] >= index[r]
      BY <2>1, DqAssumption DEF LogsInv, onRequest, TypeOK, InstanceIDs, Correct
    <2>3. cfg.attack # "C" => log[r][id].status = "Absent"
      BY <2>2 DEF LogsInv, Fresh
    <2> QED BY <2>1, <2>3 DEF onRequest, NoneOverwritten
  <1>2. CASE \E r \in Correct : Step(r)
    <2>1. PICK r \in Correct : Step(r)
      BY <1>2
    <2>2. CASE Timeout(r)
      BY <2>2 DEF Timeout, NoneOverwritten
    <2>3. CASE \E id \in InstanceIDs : \/ \E from \in Replicas, c \in Commands : onPrePrepare(r, from, id, c)
                                       \/ onPrepare(r, id)
                                       \/ onCommit(r, id)
      <3>1. cfg' = cfg /\ overwritten' = overwritten
        BY <2>3 DEF onPrePrepare, onPrepare, onCommit
      <3> QED BY <3>1 DEF NoneOverwritten
    <2>4. CASE \E k \in OIndices : \/ \E ids \in Batches : onOPrePrepare(r, k, ids)
                                   \/ onOPrepare(r, k)
                                   \/ onOCommit(r, k)
      <3>1. cfg' = cfg /\ overwritten' = overwritten
        BY <2>4 DEF onOPrePrepare, onOPrepare, onOCommit
      <3> QED BY <3>1 DEF NoneOverwritten
    <2> QED BY <2>1, <2>2, <2>3, <2>4 DEF Step
  <1>3. CASE UNCHANGED vars
    BY <1>3 DEF vars, NoneOverwritten
  <1> QED BY <1>1, <1>2, <1>3 DEF Next

\* Once a vote is overwritten the model stops.
LEMMA OverwrittenStops == ~NoneOverwritten /\ [Next]_vars => UNCHANGED vars
  BY DEF Next

\* The inductive step of the conditional invariant.
LEMMA NextInv == DqInv /\ [Next]_vars => DqInv'
  <1> SUFFICES ASSUME DqInv, [Next]_vars PROVE DqInv'
    OBVIOUS
  <1>1. CASE NoneOverwritten
    <2>1. LogsInv
      BY <1>1 DEF DqInv
    <2>2. NoneOverwritten' => LogsInv'
      BY <2>1, NextLogsInv
    <2>3. cfg' = cfg /\ (cfg.attack # "C" => NoneOverwritten')
      BY <1>1, <2>1, OverwrittenStep
    <2> QED BY <2>2, <2>3 DEF DqInv
  <1>2. CASE ~NoneOverwritten
    BY <1>2, OverwrittenStops DEF DqInv, vars, NoneOverwritten
  <1> QED BY <1>1, <1>2

\* Until an owner's onRequest overwrites a vote of its own, the handlers of dqpbft mark
\* no instance of either log as prepared without a quorum of replicas behind its value;
\* and no owner does so unless a faulty replica attacks the C log.
THEOREM DqInvariant == Spec => []DqInv
  <1>1. Init => DqInv
    BY InitInv DEF DqInv, Init, NoneOverwritten
  <1> QED BY <1>1, NextInv, PTL DEF Spec

\* Until then correct replicas agree on the value of every prepared entry of both logs,
\* whatever at most F faulty replicas propose, in whosever instance, and vote.
THEOREM DqSafety == Spec => []LogsAgree
  <1>1. DqInv => LogsAgree
    <2> SUFFICES ASSUME LogsInv PROVE LogsAgree
      BY DEF DqInv, LogsAgree
    <2>1. Liars("C") \in SUBSET Faulty /\ Liars("O") \in SUBSET Faulty
      BY DEF Liars
    <2>2. Agrees(log, InstanceIDs)
      BY <2>1, BackedAgrees DEF LogsInv
    <2>3. Agrees(olog, OIndices)
      BY <2>1, BackedAgrees DEF LogsInv
    <2> QED BY <2>2, <2>3 DEF LogsAgree
  <1> QED BY <1>1, DqInvariant, PTL

-----------------------------------------------------------------------------
(* The instances that the batches of the O log name *)

\* The batches a .. b - 1 of O are sequences of instances.
BatchesIn(O, a, b) ==
    /\ a \in Nat /\ b \in Nat /\ a <= b
    /\ \A k \in a .. b - 1 : O[k].val \in Seq(InstanceIDs)

\* The batches a .. b - 1 as a sequence.
batches(O, a, b) == [i \in 1 .. b - a |-> O[a + i - 1].val]

LEMMA BatchesSeq ==
  ASSUME NEW O, NEW a, NEW b, BatchesIn(O, a, b)
  PROVE  /\ batches(O, a, b) \in Seq(Seq(InstanceIDs)) /\ Len(batches(O, a, b)) = b - a
         /\ named(O, a, b) = FlattenSeq(batches(O, a, b))
         /\ named(O, a, b) \in Seq(InstanceIDs)
  <1> DEFINE S == Seq(InstanceIDs)
             s == batches(O, a, b)
             n == b - a
  <1>1. n \in Nat /\ a \in Nat /\ b \in Nat
    BY DEF BatchesIn
  <1>2. \A i \in 1 .. n : a + i - 1 \in a .. b - 1
    BY <1>1
  <1>3. \A i \in 1 .. n : O[a + i - 1].val \in S
    BY <1>2 DEF BatchesIn
  <1>4. s = [i \in 1 .. n |-> O[a + i - 1].val]
    BY DEF batches
  <1>5. named(O, a, b) = FlattenSeq(s)
    BY DEF named, batches
  <1> HIDE DEF S, s, n
  <1>6. s \in [1 .. n -> S]
    BY <1>3, <1>4
  <1>7. s \in Seq(S) /\ Len(s) = n
    BY <1>1, <1>6, FunctionIsSequence
  <1>8. FlattenSeq(s) \in Seq(InstanceIDs)
    BY <1>7, FlattenType DEF S
  <1> QED BY <1>5, <1>7, <1>8 DEF S, s, n

LEMMA NamedNext ==
  ASSUME NEW O, NEW a, NEW b \in Nat, NEW c, c = b + 1, BatchesIn(O, a, c), a <= b
  PROVE  named(O, a, c) = named(O, a, b) \o O[b].val /\ BatchesIn(O, a, b)
  <1> DEFINE s == batches(O, a, b)
             t == batches(O, a, c)
             S == Seq(InstanceIDs)
             x == O[b].val
  <1>1. a \in Nat /\ b \in Nat /\ b - a \in Nat /\ c \in Nat
    BY DEF BatchesIn
  <1>2. BatchesIn(O, a, b) /\ x \in S
    BY <1>1 DEF BatchesIn
  <1>3. /\ s \in Seq(S) /\ Len(s) = b - a /\ named(O, a, b) = FlattenSeq(s)
        /\ t \in Seq(S) /\ Len(t) = c - a /\ named(O, a, c) = FlattenSeq(t)
    BY <1>2, BatchesSeq
  <1>4. \A i \in 1 .. b - a : s[i] = t[i]
    BY <1>1 DEF batches
  <1>5. t[b - a + 1] = x
    BY <1>1 DEF batches
  <1> HIDE DEF s, t, S, x
  <1>6. /\ Append(s, x) \in Seq(S) /\ Len(Append(s, x)) = b - a + 1
        /\ \A i \in 1 .. b - a : Append(s, x)[i] = s[i]
        /\ Append(s, x)[b - a + 1] = x
    BY <1>1, <1>2, <1>3, AppendIdx
  <1>7. t = Append(s, x)
    <2>1. Len(t) = Len(Append(s, x)) /\ Len(t) = b - a + 1
      BY <1>1, <1>3, <1>6
    <2>2. \A i \in 1 .. Len(t) : t[i] = Append(s, x)[i]
      <3>1. \A i \in 1 .. b - a + 1 : i \in 1 .. b - a \/ i = b - a + 1
        BY <1>1
      <3> QED BY <1>4, <1>5, <1>6, <2>1, <3>1
    <2> QED BY <1>3, <1>6, <2>1, <2>2, SeqEqual
  <1>8. FlattenSeq(Append(s, x)) = FlattenSeq(s) \o x
    BY <1>2, <1>3, FlattenAppend DEF S
  <1> QED BY <1>2, <1>3, <1>7, <1>8 DEF x

LEMMA NamedSplit ==
  ASSUME NEW O, NEW a \in Nat, NEW b \in Nat, NEW c \in Nat, a <= b, b <= c, BatchesIn(O, a, c)
  PROVE  named(O, a, c) = named(O, a, b) \o named(O, b, c)
  <1> DEFINE Bad == {k \in b .. c : named(O, a, k) # named(O, a, b) \o named(O, b, k)}
  <1>1. SUFFICES ASSUME Bad # {} PROVE FALSE
    OBVIOUS
  <1>2. PICK k \in Bad : \A m \in Bad : k <= m
    <2>1. Bad \in SUBSET Nat
      OBVIOUS
    <2> QED BY <1>1, <2>1, LeastNumber
  <1>3. \A e \in b .. c : BatchesIn(O, a, e) /\ BatchesIn(O, b, e)
    BY DEF BatchesIn
  <1>4. CASE k = b
    <2>1. named(O, b, b) = << >>
      <3>1. batches(O, b, b) = << >>
        BY DEF batches
      <3>2. named(O, b, b) = FlattenSeq(<< >>)
        BY <1>3, <3>1, BatchesSeq
      <3> QED BY <3>2, EmptySeq DEF FlattenSeq
    <2>2. named(O, a, b) \in Seq(InstanceIDs)
      BY <1>3, BatchesSeq
    <2> QED BY <1>2, <1>4, <2>1, <2>2, ConcatEmptySeq
  <1>5. CASE k # b
    <2> DEFINE j == k - 1
    <2>1. j \in b .. c /\ j \in Nat /\ a <= j /\ b <= j /\ k = j + 1 /\ j < k
      BY <1>2, <1>5
    <2>2. named(O, a, j) = named(O, a, b) \o named(O, b, j)
      BY <1>2, <2>1
    <2> HIDE DEF j
    <2>3. k \in b .. c
      BY <1>2
    <2>4. BatchesIn(O, a, k) /\ BatchesIn(O, b, k)
      BY <1>3, <2>3
    <2>5. named(O, a, k) = named(O, a, j) \o O[j].val /\ named(O, b, k) = named(O, b, j) \o O[j].val
      BY <2>1, <2>3, <2>4, NamedNext
    <2>6. named(O, a, b) \in Seq(InstanceIDs) /\ named(O, b, j) \in Seq(InstanceIDs)
      BY <1>3, <2>1, BatchesSeq
    <2>7. O[j].val \in Seq(InstanceIDs)
      BY <2>1, <2>4 DEF BatchesIn
    <2>8. named(O, a, k) = named(O, a, b) \o named(O, b, k)
      <3> DEFINE x == named(O, a, b)
                 y == named(O, b, j)
                 z == O[j].val
      <3>1. x \in Seq(InstanceIDs) /\ y \in Seq(InstanceIDs) /\ z \in Seq(InstanceIDs)
        BY <2>6, <2>7
      <3> HIDE DEF x, y, z, Bad
      <3>2. (x \o y) \o z = x \o (y \o z)
        BY <3>1, ConcatAssoc, SMTT(30)
      <3>3. named(O, a, k) = (x \o y) \o z
        BY <2>2, <2>5 DEF x, y, z
      <3>4. named(O, b, k) = y \o z
        BY <2>5 DEF y, z
      <3> QED BY <3>2, <3>3, <3>4 DEF x
    <2> QED BY <1>2, <2>8
  <1> QED BY <1>4, <1>5

LEMMA NamedSame ==
  ASSUME NEW O, NEW P, NEW a \in Nat, NEW b \in Nat, \A k \in a .. b - 1 : O[k].val = P[k].val
  PROVE  named(O, a, b) = named(P, a, b)
  <1>1. \A i \in 1 .. b - a : a + i - 1 \in a .. b - 1
    OBVIOUS
  <1>2. [i \in 1 .. b - a |-> O[a + i - 1].val] = [i \in 1 .. b - a |-> P[a + i - 1].val]
    BY <1>1
  <1> QED BY <1>2 DEF named

-----------------------------------------------------------------------------
(* What has been executed *)

\* Executed entries of L are the same in M.
Unmoved(M, L, keys) == \A k \in keys : L[k].status = "Executed" => M[k] = L[k]

\* An entry that is there has a value.
Valued(L, keys) == \A k \in keys : L[k].status # "Absent" => L[k].val # Nil

\* Committed and executed batches name instances.
LEMMA BatchesNamed ==
  ASSUME NEW O \in [OIndices -> OEntry], Valued(O, OIndices), NEW a \in Nat, NEW b \in 0 .. MaxOIndex,
         a <= b, \A k \in a .. b - 1 : O[k].status \in {"Committed", "Executed"}
  PROVE  BatchesIn(O, a, b) /\ named(O, a, b) \in Seq(InstanceIDs)
  <1>1. MaxOIndex \in Nat
    BY DqAssumption
  <1>2. \A k \in a .. b - 1 : k \in OIndices
    BY <1>1 DEF OIndices
  <1>3. \A k \in a .. b - 1 : O[k].val \in Seq(InstanceIDs)
    BY <1>2 DEF Valued, OEntry
  <1>4. BatchesIn(O, a, b)
    BY <1>1, <1>3 DEF BatchesIn
  <1> QED BY <1>4, BatchesSeq

\* What has been executed does not depend on the entries that have not been.
LEMMA StaysExecuted ==
  ASSUME NEW C, NEW O \in [OIndices -> OEntry], Valued(O, OIndices),
         NEW D, NEW P, NEW n \in 0 .. MaxOIndex, NEW e, ExecutedFrom(C, O, n, e),
         Unmoved(D, C, InstanceIDs), Unmoved(P, O, OIndices)
  PROVE  ExecutedFrom(D, P, n, e)
  <1> DEFINE ids == named(O, 0, n)
  <1>1. /\ \A k \in 0 .. n - 1 : O[k].status = "Executed"
        /\ \A i \in DOMAIN ids : C[ids[i]].status = "Executed"
        /\ \A i, j \in DOMAIN ids : ids[i] = ids[j] => i = j
        /\ e = [i \in DOMAIN ids |-> C[ids[i]].val]
    BY DEF ExecutedFrom
  <1>2. n \in Nat /\ \A k \in 0 .. n - 1 : k \in OIndices
    BY DqAssumption DEF OIndices
  <1>3. \A k \in 0 .. n - 1 : P[k] = O[k]
    BY <1>1, <1>2 DEF Unmoved
  <1>4. named(P, 0, n) = ids
    <2> DEFINE z == 0
    <2>1. z \in Nat /\ \A k \in z .. n - 1 : P[k].val = O[k].val
      BY <1>3
    <2> HIDE DEF z
    <2>2. named(P, z, n) = named(O, z, n)
      BY <1>2, <2>1, NamedSame
    <2> QED BY <2>2 DEF z
  <1>5. ids \in Seq(InstanceIDs)
    <2> DEFINE z == 0
    <2>1. z \in Nat /\ z <= n /\ \A k \in z .. n - 1 : O[k].status \in {"Committed", "Executed"}
      BY <1>1, <1>2
    <2> HIDE DEF z
    <2>2. named(O, z, n) \in Seq(InstanceIDs)
      BY <2>1, BatchesNamed
    <2> QED BY <2>2 DEF z
  <1> HIDE DEF ids
  <1>6. \A i \in DOMAIN ids : ids[i] \in InstanceIDs
    BY <1>5
  <1>7. \A i \in DOMAIN ids : D[ids[i]] = C[ids[i]]
    BY <1>1, <1>6 DEF Unmoved
  <1>8. e = [i \in DOMAIN ids |-> D[ids[i]].val]
    BY <1>1, <1>7
  <1>9. \A k \in 0 .. n - 1 : P[k].status = "Executed"
    BY <1>1, <1>3
  <1>10. \A i \in DOMAIN ids : D[ids[i]].status = "Executed"
    BY <1>1, <1>7
  <1> QED BY <1>1, <1>4, <1>8, <1>9, <1>10 DEF ExecutedFrom

\* The logs of a replica and its executed commands after exec has passed the batches
\* n .. m - 1.
logAfter(C, ids) ==
    [id \in InstanceIDs |-> IF id \in Range(ids) THEN [C[id] EXCEPT !.status = "Executed"] ELSE C[id]]
ologAfterExec(O, n, m) ==
    [i \in OIndices |-> IF i \in n .. m - 1 THEN [O[i] EXCEPT !.status = "Executed"] ELSE O[i]]
executedAfter(C, ids, e) == e \o [i \in DOMAIN ids |-> C[ids[i]].val]

\* exec appends the commands of the batches that it passes.
LEMMA ExecAppends ==
  ASSUME NEW C \in [InstanceIDs -> CEntry], NEW O \in [OIndices -> OEntry],
         Valued(C, InstanceIDs), Valued(O, OIndices),
         NEW n \in 0 .. MaxOIndex, NEW m \in n .. MaxOIndex, NEW e \in Seq(Commands),
         ExecutedFrom(C, O, n, e), deliverable(C, O, n, m)
  PROVE  LET ids == named(O, n, m)
             f == executedAfter(C, ids, e)
         IN  /\ f \in Seq(Commands) /\ Len(e) <= Len(f) /\ Compatible(e, f)
             /\ ExecutedFrom(logAfter(C, ids), ologAfterExec(O, n, m), m, f)
  <1> DEFINE old == named(O, 0, n)
             ids == named(O, n, m)
             all == named(O, 0, m)
             D == logAfter(C, ids)
             P == ologAfterExec(O, n, m)
             new == [i \in DOMAIN ids |-> C[ids[i]].val]
             f == e \o new
  <1>1. /\ MaxOIndex \in Nat /\ n \in Nat /\ m \in Nat /\ n <= m /\ m \in 0 .. MaxOIndex /\ 0 <= n
        /\ \A k \in 0 .. m - 1 : k \in OIndices /\ (k \in 0 .. n - 1 \/ k \in n .. m - 1)
    BY DqAssumption DEF OIndices
  <1>2. /\ \A k \in 0 .. n - 1 : O[k].status = "Executed"
        /\ \A i \in DOMAIN old : C[old[i]].status = "Executed"
        /\ \A i, j \in DOMAIN old : old[i] = old[j] => i = j
        /\ e = [i \in DOMAIN old |-> C[old[i]].val]
    BY DEF ExecutedFrom
  <1>3. /\ \A k \in n .. m - 1 : O[k].status = "Committed"
        /\ \A i \in DOMAIN ids : C[ids[i]].status = "Committed" /\ \A j \in 1 .. i - 1 : ids[j] # ids[i]
    BY DEF deliverable
  <1>4. old \in Seq(InstanceIDs) /\ ids \in Seq(InstanceIDs) /\ all = old \o ids
    <2>1. \A k \in 0 .. m - 1 : O[k].status \in {"Committed", "Executed"}
      BY <1>1, <1>2, <1>3
    <2>2. BatchesIn(O, 0, m)
      BY <1>1, <2>1, BatchesNamed
    <2>3. old \in Seq(InstanceIDs)
      BY <1>1, <1>2, BatchesNamed
    <2>4. ids \in Seq(InstanceIDs)
      BY <1>1, <1>3, BatchesNamed
    <2>5. named(O, 0, m) = named(O, 0, n) \o named(O, n, m)
      <3> DEFINE z == 0
      <3>1. z \in Nat /\ z <= n /\ BatchesIn(O, z, m) /\ n \in Nat /\ m \in Nat /\ n <= m
        BY <1>1, <2>2
      <3> HIDE DEF z
      <3>2. named(O, z, m) = named(O, z, n) \o named(O, n, m)
        BY <3>1, NamedSplit
      <3> QED BY <3>2 DEF z
    <2> QED BY <2>3, <2>4, <2>5
  <1>5. /\ P \in [OIndices -> OEntry]
        /\ \A k \in 0 .. m - 1 : P[k].val = O[k].val /\ P[k].status = "Executed"
    <2>1. \A k \in OIndices : [O[k] EXCEPT !.status = "Executed"] \in OEntry
                              /\ [O[k] EXCEPT !.status = "Executed"].val = O[k].val
                              /\ [O[k] EXCEPT !.status = "Executed"].status = "Executed"
      BY DEF OEntry, Statuses
    <2>2. \A k \in OIndices : P[k] = IF k \in n .. m - 1 THEN [O[k] EXCEPT !.status = "Executed"] ELSE O[k]
      BY DEF ologAfterExec
    <2>3. P \in [OIndices -> OEntry]
      BY <2>1, <2>2 DEF ologAfterExec
    <2> HIDE DEF P
    <2>4. ASSUME NEW k \in 0 .. m - 1 PROVE P[k].val = O[k].val /\ P[k].status = "Executed"
      <3>1. k \in OIndices
        BY <1>1
      <3>2. CASE k \in n .. m - 1
        BY <2>1, <2>2, <3>1, <3>2
      <3>3. CASE k \notin n .. m - 1
        <4>1. O[k].status = "Executed"
          BY <1>1, <1>2, <3>3
        <4> QED BY <2>2, <3>1, <3>3, <4>1
      <3> QED BY <3>2, <3>3
    <2> QED BY <2>3, <2>4
  <1>6. named(P, 0, m) = all
    BY <1>1, <1>5, NamedSame
  <1>7. \A id \in InstanceIDs :
           /\ D[id].val = C[id].val
           /\ D[id].status = IF id \in Range(ids) THEN "Executed" ELSE C[id].status
    <2>1. \A id \in InstanceIDs : [C[id] EXCEPT !.status = "Executed"].val = C[id].val
                              /\ [C[id] EXCEPT !.status = "Executed"].status = "Executed"
      BY DEF CEntry
    <2> QED BY <2>1 DEF logAfter
  <1>8. f = executedAfter(C, ids, e)
    BY DEF executedAfter
  <1> HIDE DEF old, ids, all, D, P
  <1>9. /\ Len(old) \in Nat /\ Len(ids) \in Nat /\ Len(all) = Len(old) + Len(ids)
        /\ DOMAIN old = 1 .. Len(old) /\ DOMAIN ids = 1 .. Len(ids) /\ DOMAIN all = 1 .. Len(all)
        /\ all \in Seq(InstanceIDs)
        /\ \A i \in 1 .. Len(old) : all[i] = old[i]
        /\ \A i \in Len(old) + 1 .. Len(all) : i - Len(old) \in 1 .. Len(ids) /\ all[i] = ids[i - Len(old)]
    <2>1. /\ all \in Seq(InstanceIDs) /\ Len(all) = Len(old) + Len(ids)
          /\ \A i \in 1 .. Len(all) : all[i] = IF i <= Len(old) THEN old[i] ELSE ids[i - Len(old)]
      BY <1>4, ConcatProperties
    <2>2. /\ Len(old) \in Nat /\ Len(ids) \in Nat
          /\ DOMAIN old = 1 .. Len(old) /\ DOMAIN ids = 1 .. Len(ids) /\ DOMAIN all = 1 .. Len(all)
      BY <1>4, <2>1, LenProperties
    <2> QED BY <2>1, <2>2
  <1>10. \A i \in DOMAIN all :
           \/ i \in DOMAIN old /\ all[i] = old[i]
           \/ i - Len(old) \in DOMAIN ids /\ i > Len(old) /\ all[i] = ids[i - Len(old)]
    BY <1>9
  <1>11. /\ \A i \in DOMAIN all : all[i] \in InstanceIDs
         /\ \A i \in DOMAIN ids : ids[i] \in InstanceIDs /\ ids[i] \in Range(ids)
    BY <1>4, <1>9 DEF Range
  <1>12. \A i \in DOMAIN all : D[all[i]].status = "Executed" /\ D[all[i]].val = C[all[i]].val
    BY <1>2, <1>7, <1>10, <1>11
  <1>13. \A i, j \in DOMAIN all : all[i] = all[j] => i = j
    <2> SUFFICES ASSUME NEW i \in DOMAIN all, NEW j \in DOMAIN all, all[i] = all[j]
                 PROVE  i = j
      OBVIOUS
    <2>1. CASE i \in DOMAIN old /\ all[i] = old[i] /\ j \in DOMAIN old /\ all[j] = old[j]
      BY <1>2, <2>1
    <2>2. ASSUME NEW a \in DOMAIN old, NEW b \in DOMAIN ids PROVE old[a] # ids[b]
      BY <1>2, <1>3
    <2>3. \A a, b \in DOMAIN ids : ids[a] = ids[b] => a = b
      <3> SUFFICES ASSUME NEW a \in DOMAIN ids, NEW b \in DOMAIN ids, ids[a] = ids[b], a # b PROVE FALSE
        OBVIOUS
      <3>1. a \in 1 .. b - 1 \/ b \in 1 .. a - 1
        BY <1>9
      <3> QED BY <1>3, <3>1
    <2>4. CASE i - Len(old) \in DOMAIN ids /\ all[i] = ids[i - Len(old)]
               /\ j - Len(old) \in DOMAIN ids /\ all[j] = ids[j - Len(old)]
      <3>1. i - Len(old) = j - Len(old)
        BY <2>3, <2>4
      <3> QED BY <1>9, <3>1
    <2> QED BY <1>10, <2>1, <2>2, <2>4
  <1>14. new \in Seq(Commands) /\ Len(new) = Len(ids)
    <2>1. \A i \in DOMAIN ids : C[ids[i]].val \in Commands
      BY <1>3, <1>11 DEF Valued, CEntry
    <2>2. new \in [1 .. Len(ids) -> Commands]
      BY <1>9, <2>1
    <2> HIDE DEF new
    <2> QED BY <1>9, <2>2, FunctionIsSequence
  <1>15. Len(e) = Len(old) /\ \A i \in 1 .. Len(old) : e[i] = C[old[i]].val
    <2>1. DOMAIN e = 1 .. Len(old) /\ DOMAIN e = 1 .. Len(e) /\ Len(e) \in Nat
      BY <1>2, <1>9, LenProperties
    <2>2. Len(e) = Len(old)
      BY <1>9, <2>1
    <2> QED BY <1>2, <1>9, <2>2
  <1>16. \A i \in DOMAIN ids : new[i] = C[ids[i]].val
    OBVIOUS
  <1> HIDE DEF new
  <1>17. /\ f \in Seq(Commands) /\ Len(f) = Len(e) + Len(new) /\ DOMAIN f = 1 .. Len(f)
         /\ \A i \in 1 .. Len(f) : f[i] = IF i <= Len(e) THEN e[i] ELSE new[i - Len(e)]
    <2>1. /\ f \in Seq(Commands) /\ Len(f) = Len(e) + Len(new)
          /\ \A i \in 1 .. Len(f) : f[i] = IF i <= Len(e) THEN e[i] ELSE new[i - Len(e)]
      <3>1. /\ e \o new \in Seq(Commands) /\ Len(e \o new) = Len(e) + Len(new)
            /\ \A i \in 1 .. Len(e) + Len(new) :
                  (e \o new)[i] = IF i <= Len(e) THEN e[i] ELSE new[i - Len(e)]
        BY <1>14, ConcatProperties, Zenon
      <3> QED BY <3>1, Zenon
    <2> HIDE DEF f
    <2>2. DOMAIN f = 1 .. Len(f)
      BY <2>1, LenProperties
    <2> QED BY <2>1, <2>2
  <1> HIDE DEF f
  <1>18. f = [i \in DOMAIN all |-> D[all[i]].val]
    <2>1. DOMAIN f = DOMAIN all
      BY <1>9, <1>14, <1>15, <1>17
    <2>2. ASSUME NEW i \in DOMAIN all PROVE f[i] = D[all[i]].val
      <3>1. i \in 1 .. Len(f) /\ i \in Nat
        BY <1>9, <1>17, <2>1
      <3>2. CASE i \in DOMAIN old /\ all[i] = old[i]
        <4>1. i <= Len(e) /\ i \in 1 .. Len(old)
          BY <1>9, <1>15, <3>2
        <4> QED BY <1>12, <1>15, <1>17, <3>1, <3>2, <4>1
      <3>3. CASE i - Len(old) \in DOMAIN ids /\ i > Len(old) /\ all[i] = ids[i - Len(old)]
        <4>1. ~(i <= Len(e))
          BY <1>9, <1>15, <3>1, <3>3
        <4> QED BY <1>12, <1>15, <1>16, <1>17, <3>1, <3>3, <4>1
      <3> QED BY <1>10, <3>2, <3>3
    <2>3. f = [i \in DOMAIN f |-> f[i]]
      <3>1. f \in [1 .. Len(f) -> Commands]
        BY <1>17
      <3> QED BY <3>1
    <2>4. f = [i \in DOMAIN all |-> f[i]]
      BY <2>1, <2>3
    <2> QED BY <2>2, <2>4
  <1>19. Len(e) <= Len(f) /\ Compatible(e, f)
    BY <1>9, <1>14, <1>15, <1>17 DEF Compatible
  <1>20. ExecutedFrom(D, P, m, f)
    BY <1>5, <1>6, <1>12, <1>13, <1>18 DEF ExecutedFrom
  <1> QED BY <1>8, <1>17, <1>19, <1>20 DEF D, P, ids

\* At most the executed commands of r have changed, and they have grown.
GrowsAt(r) ==
    /\ \A s \in Correct \ {r} : executed'[s] = executed[s]
    /\ Len(executed[r]) <= Len(executed'[r]) /\ Compatible(executed[r], executed'[r])

\* Whatever a handler of r does before store touches neither what has been executed
\* nor a value that is there.
Prepares(r, C, O) ==
    /\ C \in [InstanceIDs -> CEntry] /\ O \in [OIndices -> OEntry]
    /\ Valued(C, InstanceIDs) /\ Valued(O, OIndices)
    /\ Unmoved(C, log[r], InstanceIDs) /\ Unmoved(O, olog[r], OIndices)

\* The values of C are those r has had, those another replica has, and that of a new
\* request in the next instance of r.
Allowed(r, C) ==
    \A a \in InstanceIDs :
        \/ C[a].val = log[r][a].val
        \/ \E s \in Correct : C[a].val = log[s][a].val
        \/ a = <<r, index[r]>> /\ C[a].val \in requested' \ requested

Handles(r) ==
    /\ cfg' = cfg /\ requested \subseteq requested'
    /\ \E status, C, O : /\ store(r, C, O, status) /\ Prepares(r, C, O)
                         /\ cfg.attack # "C" => Allowed(r, C)

\* The log of a replica has its type, and what is there has a value.
LEMMA LogsPrepared ==
  ASSUME LogsInv, NEW r \in Correct
  PROVE  Prepares(r, log[r], olog[r])
  <1>1. log[r] \in [InstanceIDs -> CEntry] /\ olog[r] \in [OIndices -> OEntry]
    BY DEF LogsInv, TypeOK, CEntry, OEntry
  <1>2. Valued(log[r], InstanceIDs) /\ Valued(olog[r], OIndices)
    BY DEF LogsInv, Backed, Valued
  <1> QED BY <1>1, <1>2 DEF Prepares, Unmoved

LEMMA StoreExecutes ==
  ASSUME LogsInv, ExecInv, NEW r \in Correct, NEW status, NEW C, NEW O,
         store(r, C, O, status), Prepares(r, C, O)
  PROVE  ExecInv' /\ GrowsAt(r)
  <1> DEFINE n == nextODeliverIndex[r]
             e == executed[r]
  <1>1. /\ executed \in [Correct -> Seq(Commands)] /\ nextODeliverIndex \in [Correct -> 0 .. MaxOIndex]
        /\ \A s \in Correct : ExecutedFrom(log[s], olog[s], nextODeliverIndex[s], executed[s])
    BY DEF ExecInv
  <1>2. log \in [Correct -> [InstanceIDs -> CEntry]] /\ olog \in [Correct -> [OIndices -> OEntry]]
    BY DEF LogsInv, TypeOK, CEntry, OEntry
  <1>3. n \in 0 .. MaxOIndex /\ e \in Seq(Commands) /\ ExecutedFrom(C, O, n, e) /\ Len(e) \in Nat
    <2>1. n \in 0 .. MaxOIndex /\ e \in Seq(Commands) /\ ExecutedFrom(log[r], olog[r], n, e)
      BY <1>1
    <2>2. olog[r] \in [OIndices -> OEntry] /\ Valued(olog[r], OIndices)
      BY LogsPrepared DEF Prepares
    <2>3. Unmoved(C, log[r], InstanceIDs) /\ Unmoved(O, olog[r], OIndices)
      BY DEF Prepares
    <2> HIDE DEF n, e
    <2>4. ExecutedFrom(C, O, n, e)
      BY <2>1, <2>2, <2>3, StaysExecuted
    <2> QED BY <2>1, <2>4, LenProperties
  <1>4. ASSUME NEW D, NEW P, NEW m \in 0 .. MaxOIndex, NEW f \in Seq(Commands),
               ExecutedFrom(D, P, m, f), Len(e) <= Len(f), Compatible(e, f),
               log' = [log EXCEPT ![r] = D], olog' = [olog EXCEPT ![r] = P],
               nextODeliverIndex' = [nextODeliverIndex EXCEPT ![r] = m],
               executed' = [executed EXCEPT ![r] = f]
        PROVE  ExecInv' /\ GrowsAt(r)
    <2>1. /\ log'[r] = D /\ olog'[r] = P /\ nextODeliverIndex'[r] = m /\ executed'[r] = f
          /\ \A s \in Correct \ {r} : /\ log'[s] = log[s] /\ olog'[s] = olog[s]
                                      /\ nextODeliverIndex'[s] = nextODeliverIndex[s]
                                      /\ executed'[s] = executed[s]
      BY <1>1, <1>2, <1>4
    <2>2. executed' \in [Correct -> Seq(Commands)] /\ nextODeliverIndex' \in [Correct -> 0 .. MaxOIndex]
      BY <1>1, <1>4
    <2>3. \A s \in Correct : ExecutedFrom(log'[s], olog'[s], nextODeliverIndex'[s], executed'[s])
      BY <1>1, <1>4, <2>1
    <2>4. ExecInv'
      BY <2>2, <2>3 DEF ExecInv
    <2>5. GrowsAt(r)
      BY <1>4, <2>1 DEF GrowsAt
    <2> QED BY <2>4, <2>5
  <1>5. CASE status # "Committed"
    <2>1. /\ log' = [log EXCEPT ![r] = C] /\ olog' = [olog EXCEPT ![r] = O]
          /\ nextODeliverIndex' = [nextODeliverIndex EXCEPT ![r] = n]
          /\ executed' = [executed EXCEPT ![r] = e]
      BY <1>1, <1>5 DEF store
    <2>2. Len(e) <= Len(e) /\ Compatible(e, e)
      BY <1>3 DEF Compatible
    <2> HIDE DEF n, e
    <2> QED BY <1>3, <1>4, <2>1, <2>2
  <1>6. CASE status = "Committed"
    <2>1. PICK m \in n .. MaxOIndex :
             /\ deliverable(C, O, n, m)
             /\ executed' = [executed EXCEPT ![r] = executedAfter(C, named(O, n, m), e)]
             /\ log' = [log EXCEPT ![r] = logAfter(C, named(O, n, m))]
             /\ olog' = [olog EXCEPT ![r] = ologAfterExec(O, n, m)]
             /\ nextODeliverIndex' = [nextODeliverIndex EXCEPT ![r] = m]
      BY <1>1, <1>6 DEF store, exec, executedAfter, logAfter, ologAfterExec
    <2> DEFINE ids == named(O, n, m)
               f == executedAfter(C, ids, e)
               D == logAfter(C, ids)
               P == ologAfterExec(O, n, m)
    <2>2. /\ executed' = [executed EXCEPT ![r] = f] /\ log' = [log EXCEPT ![r] = D]
          /\ olog' = [olog EXCEPT ![r] = P]
      BY <2>1
    <2>3. m \in 0 .. MaxOIndex
      BY <1>3, <2>1
    <2> HIDE DEF n, e
    <2>4. f \in Seq(Commands) /\ Len(e) <= Len(f) /\ Compatible(e, f) /\ ExecutedFrom(D, P, m, f)
      BY <1>3, <2>1, ExecAppends DEF Prepares
    <2> HIDE DEF ids, f, D, P
    <2> QED BY <1>4, <2>1, <2>2, <2>3, <2>4
  <1> QED BY <1>5, <1>6

LEMMA StoreOneInstance ==
  ASSUME LogsInv, OneInstance, NEW r \in Correct, Handles(r)
  PROVE  OneInstance'
  <1>1. PICK status, C, O : /\ store(r, C, O, status) /\ Prepares(r, C, O)
                            /\ cfg.attack # "C" => Allowed(r, C)
    BY DEF Handles
  <1>2. cfg' = cfg /\ requested \subseteq requested'
    BY DEF Handles
  <1>3. /\ \A s \in Correct \ {r} : log'[s] = log[s]
        /\ \A a \in InstanceIDs : log'[r][a].val = C[a].val
    <2>1. TypeOK /\ C \in [InstanceIDs -> CEntry] /\ O \in [OIndices -> OEntry]
      BY <1>1 DEF Prepares, LogsInv
    <2>2. (\A s \in Correct \ {r} : log'[s] = log[s]) /\ Holds(log'[r], C, InstanceIDs)
      BY <1>1, <2>1, StoreEffect
    <2> QED BY <2>2 DEF Holds
  <1> SUFFICES ASSUME cfg.attack # "C", NEW s \in Correct, NEW t \in Correct,
                      NEW a \in InstanceIDs, NEW b \in InstanceIDs, log'[s][a].val # Nil
               PROVE  /\ log'[s][a].val \in requested'
                      /\ log'[s][a].val = log'[t][b].val => a = b
    BY <1>2 DEF OneInstance
  <1> DEFINE v == log'[s][a].val
  <1>4. ASSUME NEW u \in Correct, NEW d \in InstanceIDs
        PROVE  \/ \E q \in Correct : log'[u][d].val = log[q][d].val
               \/ d = <<r, index[r]>> /\ log'[u][d].val \in requested' \ requested
    BY <1>1, <1>3 DEF Allowed
  <1>5. \/ (\E q \in Correct : v = log[q][a].val) /\ v \in requested
        \/ a = <<r, index[r]>> /\ v \in requested' \ requested
    BY <1>4 DEF OneInstance
  <1>6. ASSUME v = log'[t][b].val PROVE a = b
    <2>1. \/ (\E q \in Correct : v = log[q][b].val) /\ v \in requested
          \/ b = <<r, index[r]>> /\ v \in requested' \ requested
      BY <1>4, <1>6 DEF OneInstance
    <2> QED BY <1>5, <2>1 DEF OneInstance
  <1> QED BY <1>2, <1>5, <1>6

-----------------------------------------------------------------------------
(* Every action handles *)

\* A batch goes to an entry of the O log that is absent.
LEMMA BatchPrepared ==
  ASSUME LogsInv, NEW r \in Correct, isPrimaryAtView(r, oview), NEW ids \in Seq(InstanceIDs), NEW O,
         O = withBatch(r, ids)
  PROVE  O \in [OIndices -> OEntry] /\ Valued(O, OIndices) /\ Unmoved(O, olog[r], OIndices)
  <1>1. olog[r] \in [OIndices -> OEntry] /\ Valued(olog[r], OIndices)
    BY LogsPrepared DEF Prepares
  <1>2. r = oview /\ oindex[r] \in Nat
    BY PrimaryIsLeader DEF LogsInv, TypeOK, Correct
  <1>3. oindex[r] \in OIndices => olog[r][oindex[r]].status = "Absent"
    BY <1>2 DEF LogsInv, Fresh
  <1>4. /\ instance("PrePrepared", ids) \in OEntry /\ ids # Nil
        /\ instance("PrePrepared", ids).val = ids
    BY DqAssumption DEF instance, OEntry, Statuses
  <1>5. O = [olog[r] EXCEPT ![oindex[r]] = instance("PrePrepared", ids)]
    BY DEF withBatch
  <1>6. \A k \in OIndices : O[k] = IF k = oindex[r] THEN instance("PrePrepared", ids) ELSE olog[r][k]
    BY <1>1, <1>5
  <1>7. O \in [OIndices -> OEntry]
    BY <1>1, <1>4, <1>5
  <1>8. Valued(O, OIndices)
    BY <1>1, <1>4, <1>6 DEF Valued
  <1>9. Unmoved(O, olog[r], OIndices)
    BY <1>3, <1>6 DEF Unmoved
  <1> QED BY <1>7, <1>8, <1>9

\* So does onCRequest.
LEMMA OrdersPrepared ==
  ASSUME LogsInv, NEW r \in Correct, NEW id \in InstanceIDs, onCRequest(r, id)
  PROVE  /\ ologAfter(r, id) \in [OIndices -> OEntry] /\ Valued(ologAfter(r, id), OIndices)
         /\ Unmoved(ologAfter(r, id), olog[r], OIndices)
  <1> DEFINE O == ologAfter(r, id)
  <1>1. /\ Append(cReqBuffer[r], id) \in Seq(InstanceIDs)
        /\ \/ O = olog[r]
           \/ isPrimaryAtView(r, oview) /\ O = withBatch(r, Append(cReqBuffer[r], id))
    BY CRequestEffect DEF LogsInv
  <1> HIDE DEF O
  <1>2. CASE O = olog[r]
    <2>1. O \in [OIndices -> OEntry] /\ Valued(O, OIndices) /\ Unmoved(O, olog[r], OIndices)
      BY <1>2, LogsPrepared DEF Prepares
    <2> QED BY <2>1 DEF O
  <1>3. CASE isPrimaryAtView(r, oview) /\ O = withBatch(r, Append(cReqBuffer[r], id))
    <2>1. O \in [OIndices -> OEntry] /\ Valued(O, OIndices) /\ Unmoved(O, olog[r], OIndices)
      BY <1>1, <1>3, BatchPrepared
    <2> QED BY <2>1 DEF O
  <1> QED BY <1>1, <1>2, <1>3

\* C is the log of r with command c in instance id.
Puts(r, id, c, C) ==
    /\ C \in [InstanceIDs -> CEntry] /\ Valued(C, InstanceIDs)
    /\ Unmoved(C, log[r], InstanceIDs)
    /\ \A a \in InstanceIDs : C[a].val = IF a = id THEN c ELSE log[r][a].val

\* An entry that has not been executed may be set, or raised.
LEMMA CommandPrepared ==
  ASSUME LogsInv, NEW r \in Correct, NEW id \in InstanceIDs, log[r][id].status # "Executed",
         NEW c \in Commands, NEW status \in Statuses, NEW C,
         C = [log[r] EXCEPT ![id] = instance(status, c)]
  PROVE  Puts(r, id, c, C)
  <1>1. log[r] \in [InstanceIDs -> CEntry] /\ Valued(log[r], InstanceIDs)
    BY LogsPrepared DEF Prepares
  <1>2. instance(status, c) \in CEntry /\ c # Nil /\ instance(status, c).val = c
    BY DqAssumption DEF instance, CEntry
  <1>3. \A a \in InstanceIDs : C[a] = IF a = id THEN instance(status, c) ELSE log[r][a]
    BY <1>1
  <1>4. C \in [InstanceIDs -> CEntry]
    BY <1>1, <1>2
  <1>5. Valued(C, InstanceIDs)
    BY <1>1, <1>2, <1>3 DEF Valued
  <1>6. Unmoved(C, log[r], InstanceIDs)
    BY <1>3 DEF Unmoved
  <1> QED BY <1>2, <1>3, <1>4, <1>5, <1>6 DEF Puts

\* Raising the status of an entry sets it with its value.
LEMMA RaisedC ==
  ASSUME LogsInv, NEW r \in Correct, NEW id \in InstanceIDs, NEW status
  PROVE  [log[r] EXCEPT ![id].status = status] = [log[r] EXCEPT ![id] = instance(status, log[r][id].val)]
  <1>1. log[r] \in [InstanceIDs -> CEntry]
    BY LogsPrepared DEF Prepares
  <1>2. log[r][id] = [status |-> log[r][id].status, val |-> log[r][id].val]
    BY <1>1 DEF CEntry
  <1>3. [log[r][id] EXCEPT !.status = status] = instance(status, log[r][id].val)
    BY <1>2 DEF instance
  <1> QED BY <1>1, <1>3

LEMMA RaisedO ==
  ASSUME LogsInv, NEW r \in Correct, NEW k \in OIndices, NEW status
  PROVE  [olog[r] EXCEPT ![k].status = status] = [olog[r] EXCEPT ![k] = instance(status, olog[r][k].val)]
  <1>1. olog[r] \in [OIndices -> OEntry]
    BY LogsPrepared DEF Prepares
  <1>2. olog[r][k] = [status |-> olog[r][k].status, val |-> olog[r][k].val]
    BY <1>1 DEF OEntry
  <1>3. [olog[r][k] EXCEPT !.status = status] = instance(status, olog[r][k].val)
    BY <1>2 DEF instance
  <1> QED BY <1>1, <1>3

LEMMA NamesPrepared ==
  ASSUME LogsInv, NEW r \in Correct, NEW k \in OIndices, olog[r][k].status # "Executed",
         NEW ids \in Seq(InstanceIDs), NEW status \in Statuses, NEW O,
         O = [olog[r] EXCEPT ![k] = instance(status, ids)]
  PROVE  /\ O \in [OIndices -> OEntry] /\ Valued(O, OIndices) /\ Unmoved(O, olog[r], OIndices)
  <1>1. olog[r] \in [OIndices -> OEntry] /\ Valued(olog[r], OIndices)
    BY LogsPrepared DEF Prepares
  <1>2. instance(status, ids) \in OEntry /\ ids # Nil /\ instance(status, ids).val = ids
    BY DqAssumption DEF instance, OEntry
  <1>3. \A a \in OIndices : O[a] = IF a = k THEN instance(status, ids) ELSE olog[r][a]
    BY <1>1
  <1>4. O \in [OIndices -> OEntry]
    BY <1>1, <1>2
  <1>5. Valued(O, OIndices)
    BY <1>1, <1>2, <1>3 DEF Valued
  <1>6. Unmoved(O, olog[r], OIndices)
    BY <1>3 DEF Unmoved
  <1> QED BY <1>4, <1>5, <1>6

LEMMA RequestHandles ==
  ASSUME LogsInv, NoneOverwritten', NEW r \in Correct, NEW c \in Commands, onRequest(r, c)
  PROVE  Handles(r)
  <1> DEFINE id == <<r, index[r]>>
             C == [log[r] EXCEPT ![id] = instance("PrePrepared", c)]
             O == ologAfter(r, id)
  <1>1. id \in InstanceIDs /\ id[1] = r /\ id[2] = index[r] /\ index[r] \in Nat
    BY DqAssumption DEF LogsInv, onRequest, TypeOK, InstanceIDs, Correct
  <1>2. log[r][id].status = "Absent"
    BY DEF onRequest, NoneOverwritten
  <1>3. /\ cfg' = cfg /\ requested' = requested \cup {c} /\ c \notin requested
        /\ onCRequest(r, id) /\ olog' = [olog EXCEPT ![r] = O]
        /\ nextODeliverIndex' = nextODeliverIndex /\ executed' = executed
    BY DEF onRequest
  <1>4. log' = [log EXCEPT ![r] = C]
    BY DEF onRequest, LogsInv, TypeOK
  <1> HIDE DEF id
  <1>5. Puts(r, id, c, C)
    <2>1. "PrePrepared" \in Statuses /\ C = [log[r] EXCEPT ![id] = instance("PrePrepared", c)]
      BY DEF Statuses
    <2> HIDE DEF C
    <2> QED BY <1>1, <1>2, <2>1, CommandPrepared
  <1>6. O \in [OIndices -> OEntry] /\ Valued(O, OIndices) /\ Unmoved(O, olog[r], OIndices)
    BY <1>1, <1>3, OrdersPrepared
  <1> HIDE DEF C, O
  <1>7. Prepares(r, C, O)
    BY <1>5, <1>6 DEF Prepares, Puts
  <1>8. Allowed(r, C)
    BY <1>3, <1>5 DEF Allowed, Puts, id
  <1>9. store(r, C, O, "PrePrepared")
    BY <1>3, <1>4 DEF store
  <1> QED BY <1>3, <1>7, <1>8, <1>9 DEF Handles

LEMMA TimeoutHandles ==
  ASSUME LogsInv, NEW r \in Correct, Timeout(r)
  PROVE  Handles(r)
  <1> DEFINE C == log[r]
             O == withBatch(r, cReqBuffer[r])
  <1>1. /\ cfg' = cfg /\ requested' = requested /\ isPrimaryAtView(r, oview)
        /\ log' = log /\ olog' = [olog EXCEPT ![r] = O]
        /\ nextODeliverIndex' = nextODeliverIndex /\ executed' = executed
    BY DEF Timeout
  <1>2. log' = [log EXCEPT ![r] = C] /\ cReqBuffer[r] \in Seq(InstanceIDs)
    BY <1>1 DEF LogsInv, TypeOK
  <1>3. O \in [OIndices -> OEntry] /\ Valued(O, OIndices) /\ Unmoved(O, olog[r], OIndices)
    BY <1>1, <1>2, BatchPrepared
  <1> HIDE DEF O
  <1>4. Prepares(r, C, O)
    BY <1>3, LogsPrepared DEF Prepares
  <1>5. Allowed(r, C)
    BY DEF Allowed
  <1> HIDE DEF C
  <1>6. store(r, C, O, "PrePrepared")
    BY <1>1, <1>2 DEF store
  <1> QED BY <1>1, <1>4, <1>5, <1>6 DEF Handles

LEMMA PrePrepareHandles ==
  ASSUME LogsInv, NEW r \in Correct, NEW from \in Replicas, NEW id \in InstanceIDs,
         NEW c \in Commands, onPrePrepare(r, from, id, c)
  PROVE  Handles(r)
  <1>1. PICK status \in statuses(log, Liars("C"), r, id, c, from) :
           store(r, [log[r] EXCEPT ![id] = instance(status, c)], ologAfter(r, id), status)
    BY DEF onPrePrepare, storeC
  <1> DEFINE C == [log[r] EXCEPT ![id] = instance(status, c)]
             O == ologAfter(r, id)
  <1>2. /\ cfg' = cfg /\ requested' = requested /\ onCRequest(r, id)
        /\ log[r][id].status = "Absent"
        /\ \/ from = id[1] /\ from \in Correct /\ log[from][id].val = c
           \/ from \in Liars("C")
    BY DEF onPrePrepare
  <1>3. status \in Statuses
    BY <1>1 DEF statuses, Statuses
  <1>4. Puts(r, id, c, C)
    <2>1. C = [log[r] EXCEPT ![id] = instance(status, c)]
      OBVIOUS
    <2> HIDE DEF C
    <2> QED BY <1>2, <1>3, <2>1, CommandPrepared
  <1>5. O \in [OIndices -> OEntry] /\ Valued(O, OIndices) /\ Unmoved(O, olog[r], OIndices)
    BY <1>2, OrdersPrepared
  <1>6. store(r, C, O, status)
    BY <1>1
  <1> HIDE DEF C, O
  <1>7. Prepares(r, C, O)
    BY <1>4, <1>5 DEF Prepares, Puts
  <1>8. cfg.attack # "C" => Allowed(r, C)
    BY <1>2, <1>4 DEF Allowed, Liars, Puts
  <1> QED BY <1>2, <1>6, <1>7, <1>8 DEF Handles

LEMMA RaiseCHandles ==
  ASSUME LogsInv, NEW r \in Correct, NEW id \in InstanceIDs, NEW status \in Statuses,
         log[r][id].status \in {"PrePrepared", "Prepared"},
         store(r, [log[r] EXCEPT ![id].status = status], olog[r], status),
         cfg' = cfg, requested' = requested
  PROVE  Handles(r)
  <1> DEFINE c == log[r][id].val
             C == [log[r] EXCEPT ![id] = instance(status, c)]
  <1>1. c \in Commands
    BY LogsPrepared DEF Prepares, Valued, CEntry
  <1>2. store(r, C, olog[r], status)
    BY RaisedC
  <1>3. Puts(r, id, c, C)
    <2>1. C = [log[r] EXCEPT ![id] = instance(status, c)] /\ log[r][id].status # "Executed"
      OBVIOUS
    <2> HIDE DEF c, C
    <2> QED BY <1>1, <2>1, CommandPrepared
  <1>4. \A a \in InstanceIDs : C[a].val = log[r][a].val
    BY <1>3 DEF Puts
  <1> HIDE DEF C
  <1>5. Prepares(r, C, olog[r])
    BY <1>3, LogsPrepared DEF Prepares, Puts
  <1>6. Allowed(r, C)
    BY <1>4 DEF Allowed
  <1> QED BY <1>2, <1>5, <1>6 DEF Handles

LEMMA OHandles ==
  ASSUME LogsInv, NEW r \in Correct, NEW k \in OIndices, NEW status \in Statuses,
         NEW ids \in Seq(InstanceIDs), olog[r][k].status # "Executed",
         store(r, log[r], [olog[r] EXCEPT ![k] = instance(status, ids)], status),
         cfg' = cfg, requested' = requested
  PROVE  Handles(r)
  <1> DEFINE O == [olog[r] EXCEPT ![k] = instance(status, ids)]
  <1>1. O \in [OIndices -> OEntry] /\ Valued(O, OIndices) /\ Unmoved(O, olog[r], OIndices)
    BY NamesPrepared
  <1>2. store(r, log[r], O, status)
    OBVIOUS
  <1> HIDE DEF O
  <1>3. Prepares(r, log[r], O)
    BY <1>1, LogsPrepared DEF Prepares
  <1>4. Allowed(r, log[r])
    BY DEF Allowed
  <1> QED BY <1>2, <1>3, <1>4 DEF Handles

LEMMA RaiseOHandles ==
  ASSUME LogsInv, NEW r \in Correct, NEW k \in OIndices, NEW status \in Statuses,
         olog[r][k].status \in {"PrePrepared", "Prepared"},
         store(r, log[r], [olog[r] EXCEPT ![k].status = status], status),
         cfg' = cfg, requested' = requested
  PROVE  Handles(r)
  <1> DEFINE ids == olog[r][k].val
  <1>1. ids \in Seq(InstanceIDs)
    BY LogsPrepared DEF Prepares, Valued, OEntry
  <1>2. store(r, log[r], [olog[r] EXCEPT ![k] = instance(status, ids)], status)
    BY RaisedO
  <1> HIDE DEF ids
  <1> QED BY <1>1, <1>2, OHandles

LEMMA NextHandles ==
  ASSUME LogsInv, NoneOverwritten', Next
  PROVE  \E r \in Correct : Handles(r)
  <1>1. PICK r \in Correct : Step(r) \/ \E c \in Commands : onRequest(r, c)
    BY DEF Next
  <1>2. CASE \E c \in Commands : onRequest(r, c)
    BY <1>2, RequestHandles
  <1>3. CASE Timeout(r)
    BY <1>3, TimeoutHandles
  <1>4. ASSUME NEW from \in Replicas, NEW id \in InstanceIDs, NEW c \in Commands,
               onPrePrepare(r, from, id, c)
        PROVE  Handles(r)
    BY <1>4, PrePrepareHandles
  <1>5. ASSUME NEW id \in InstanceIDs, onPrepare(r, id) PROVE Handles(r)
    <2>1. PICK status \in statuses(log, Liars("C"), r, id, log[r][id].val, r) :
             store(r, [log[r] EXCEPT ![id].status = status], olog[r], status)
      BY <1>5 DEF onPrepare, storeC
    <2>2. status \in Statuses
      BY <2>1 DEF statuses, Statuses
    <2>3. log[r][id].status = "PrePrepared" /\ cfg' = cfg /\ requested' = requested
      BY <1>5 DEF onPrepare
    <2> QED BY <2>1, <2>2, <2>3, RaiseCHandles
  <1>6. ASSUME NEW id \in InstanceIDs, onCommit(r, id) PROVE Handles(r)
    <2>1. /\ store(r, [log[r] EXCEPT ![id].status = "Committed"], olog[r], "Committed")
          /\ log[r][id].status = "Prepared" /\ cfg' = cfg /\ requested' = requested
      BY <1>6 DEF onCommit, storeC
    <2>2. "Committed" \in Statuses
      BY DEF Statuses
    <2> QED BY <2>1, <2>2, RaiseCHandles
  <1>7. ASSUME NEW k \in OIndices, NEW ids \in Batches, onOPrePrepare(r, k, ids) PROVE Handles(r)
    <2>1. PICK status \in statuses(olog, Liars("O"), r, k, ids, oview) :
             store(r, log[r], [olog[r] EXCEPT ![k] = instance(status, ids)], status)
      BY <1>7 DEF onOPrePrepare
    <2>2. status \in Statuses
      BY <2>1 DEF statuses, Statuses
    <2>3. olog[r][k].status = "Absent" /\ cfg' = cfg /\ requested' = requested
      BY <1>7 DEF onOPrePrepare
    <2>4. ids \in Seq(InstanceIDs)
      BY BatchesAreSequences
    <2> QED BY <2>1, <2>2, <2>3, <2>4, OHandles
  <1>8. ASSUME NEW k \in OIndices, onOPrepare(r, k) PROVE Handles(r)
    <2>1. PICK status \in statuses(olog, Liars("O"), r, k, olog[r][k].val, r) :
             store(r, log[r], [olog[r] EXCEPT ![k].status = status], status)
      BY <1>8 DEF onOPrepare
    <2>2. status \in Statuses
      BY <2>1 DEF statuses, Statuses
    <2>3. olog[r][k].status = "PrePrepared" /\ cfg' = cfg /\ requested' = requested
      BY <1>8 DEF onOPrepare
    <2> QED BY <2>1, <2>2, <2>3, RaiseOHandles
  <1>9. ASSUME NEW k \in OIndices, onOCommit(r, k) PROVE Handles(r)
    <2>1. /\ store(r, log[r], [olog[r] EXCEPT ![k].status = "Committed"], "Committed")
          /\ olog[r][k].status = "Prepared" /\ cfg' = cfg /\ requested' = requested
      BY <1>9 DEF onOCommit
    <2>2. "Committed" \in Statuses
      BY DEF Statuses
    <2> QED BY <2>1, <2>2, RaiseOHandles
  <1> QED BY <1>1, <1>2, <1>3, <1>4, <1>5, <1>6, <1>7, <1>8, <1>9 DEF Step

-----------------------------------------------------------------------------
(* Order *)

LEMMA OrderInit == Init => LogsOrderInv
  <1> SUFFICES ASSUME Init PROVE LogsOrderInv
    OBVIOUS
  <1>1. LogsInv
    BY InitInv
  <1>2. OneInstance
    BY DEF Init, OneInstance, NoInstance
  <1>3. /\ nextODeliverIndex = [r \in Correct |-> 0] /\ executed = [r \in Correct |-> << >>]
        /\ MaxOIndex \in Nat
    BY DqAssumption DEF Init
  <1>4. /\ nextODeliverIndex \in [Correct -> 0 .. MaxOIndex] /\ executed \in [Correct -> Seq(Commands)]
    BY <1>3
  <1>5. ASSUME NEW r \in Correct
        PROVE  ExecutedFrom(log[r], olog[r], nextODeliverIndex[r], executed[r])
    <2> DEFINE O == olog[r]
               ids == named(O, 0, 0)
    <2>1. ids = << >>
      <3>1. batches(O, 0, 0) = << >> /\ named(O, 0, 0) = FlattenSeq(batches(O, 0, 0))
        BY DEF batches, named
      <3> QED BY <3>1, EmptySeq DEF FlattenSeq
    <2>2. nextODeliverIndex[r] = 0 /\ executed[r] = << >>
      BY <1>3
    <2>3. DOMAIN ids = {}
      BY <2>1
    <2> HIDE DEF ids
    <2>4. << >> = [i \in DOMAIN ids |-> log[r][ids[i]].val]
      BY <2>3
    <2>5. ExecutedFrom(log[r], O, 0, << >>)
      BY <2>3, <2>4 DEF ExecutedFrom, ids
    <2> QED BY <2>2, <2>5
  <1> QED BY <1>1, <1>2, <1>4, <1>5 DEF LogsOrderInv, ExecInv

LEMMA OrderStutters ==
  ASSUME LogsOrderInv, NoneOverwritten', UNCHANGED vars
  PROVE  LogsOrderInv'
  <1>1. LogsInv'
    BY NextLogsInv DEF LogsOrderInv
  <1>2. /\ cfg' = cfg /\ requested' = requested /\ log' = log /\ olog' = olog
        /\ nextODeliverIndex' = nextODeliverIndex /\ executed' = executed
    BY DEF vars
  <1>3. ExecInv'
    BY <1>2 DEF LogsOrderInv, ExecInv
  <1>4. OneInstance'
    BY <1>2 DEF LogsOrderInv, OneInstance
  <1> QED BY <1>1, <1>3, <1>4 DEF LogsOrderInv

LEMMA OrderNext ==
  ASSUME LogsOrderInv, NoneOverwritten', Next
  PROVE  LogsOrderInv' /\ \E r \in Correct : GrowsAt(r)
  <1>1. LogsInv'
    BY NextLogsInv DEF LogsOrderInv
  <1>2. PICK r \in Correct : Handles(r)
    BY NextHandles DEF LogsOrderInv
  <1>3. ExecInv' /\ GrowsAt(r)
    BY <1>2, StoreExecutes DEF LogsOrderInv, Handles
  <1>4. OneInstance'
    BY <1>2, StoreOneInstance DEF LogsOrderInv
  <1> QED BY <1>1, <1>3, <1>4 DEF LogsOrderInv

\* A replica that has executed fewer batches has executed a prefix.
LEMMA FewerIsPrefix ==
  ASSUME LogsInv, ExecInv, NEW r \in Correct, NEW s \in Correct,
         nextODeliverIndex[r] <= nextODeliverIndex[s]
  PROVE  Len(executed[r]) <= Len(executed[s]) /\ Compatible(executed[r], executed[s])
  <1> DEFINE n == nextODeliverIndex[r]
             m == nextODeliverIndex[s]
             O == olog[r]
             P == olog[s]
             C == log[r]
             D == log[s]
             d == executed[r]
             e == executed[s]
             ids == named(O, 0, n)
             all == named(P, 0, m)
             rest == named(P, n, m)
  <1>1. /\ n \in 0 .. MaxOIndex /\ m \in 0 .. MaxOIndex /\ n <= m
        /\ ExecutedFrom(C, O, n, d) /\ ExecutedFrom(D, P, m, e)
        /\ d \in Seq(Commands) /\ e \in Seq(Commands)
    BY DEF ExecInv
  <1>2. /\ O \in [OIndices -> OEntry] /\ Valued(O, OIndices)
        /\ P \in [OIndices -> OEntry] /\ Valued(P, OIndices)
    BY LogsPrepared DEF Prepares
  <1>3. /\ \A id \in InstanceIDs : C[id].status \in Certified /\ D[id].status \in Certified => C[id].val = D[id].val
        /\ \A k \in OIndices : O[k].status \in Certified /\ P[k].status \in Certified => O[k].val = P[k].val
    <2>1. Liars("C") \in SUBSET Faulty /\ Liars("O") \in SUBSET Faulty
      BY DEF Liars
    <2>2. Agrees(log, InstanceIDs) /\ Agrees(olog, OIndices)
      BY <2>1, BackedAgrees DEF LogsInv
    <2> QED BY <2>2 DEF Agrees
  <1> HIDE DEF n, m, O, P, C, D, d, e
  <1>4. /\ MaxOIndex \in Nat /\ n \in Nat /\ m \in Nat
        /\ \A k \in 0 .. n - 1 : k \in OIndices /\ k \in 0 .. m - 1
        /\ \A k \in n .. m - 1 : k \in 0 .. m - 1
    BY <1>1, DqAssumption DEF OIndices
  <1>5. /\ \A k \in 0 .. n - 1 : O[k].status = "Executed"
        /\ \A i \in DOMAIN ids : C[ids[i]].status = "Executed"
        /\ d = [i \in DOMAIN ids |-> C[ids[i]].val]
        /\ \A k \in 0 .. m - 1 : P[k].status = "Executed"
        /\ \A i \in DOMAIN all : D[all[i]].status = "Executed"
        /\ e = [i \in DOMAIN all |-> D[all[i]].val]
    BY <1>1 DEF ExecutedFrom
  <1>6. \A k \in 0 .. n - 1 : O[k].val = P[k].val
    BY <1>3, <1>4, <1>5 DEF Certified
  <1>7. named(O, 0, n) = named(P, 0, n)
    BY <1>4, <1>6, NamedSame
  <1>8. ids \in Seq(InstanceIDs)
    <2>1. 0 \in Nat /\ 0 <= n /\ \A k \in 0 .. n - 1 : O[k].status \in {"Committed", "Executed"}
      BY <1>4, <1>5
    <2> QED BY <1>1, <1>2, <2>1, BatchesNamed
  <1>9. rest \in Seq(InstanceIDs)
    BY <1>1, <1>2, <1>4, <1>5, BatchesNamed
  <1>10. all \in Seq(InstanceIDs) /\ BatchesIn(P, 0, m)
    <2>1. 0 \in Nat /\ 0 <= m /\ \A k \in 0 .. m - 1 : P[k].status \in {"Committed", "Executed"}
      BY <1>4, <1>5
    <2> QED BY <1>1, <1>2, <2>1, BatchesNamed
  <1>11. all = ids \o rest
    <2> DEFINE z == 0
    <2>1. z \in Nat /\ z <= n /\ BatchesIn(P, z, m)
      BY <1>4, <1>10
    <2> HIDE DEF z
    <2>2. named(P, z, m) = named(P, z, n) \o named(P, n, m)
      BY <1>1, <1>4, <2>1, NamedSplit
    <2> QED BY <1>7, <2>2 DEF z
  <1> HIDE DEF ids, all, rest
  <1>12. /\ Len(ids) \in Nat /\ Len(rest) \in Nat /\ Len(all) = Len(ids) + Len(rest)
         /\ \A i \in 1 .. Len(ids) : all[i] = ids[i]
         /\ DOMAIN ids = 1 .. Len(ids) /\ DOMAIN all = 1 .. Len(all)
         /\ \A i \in 1 .. Len(ids) : ids[i] \in InstanceIDs
    BY <1>8, <1>9, <1>10, <1>11, ConcatProperties, LenProperties
  <1>13. Len(d) = Len(ids) /\ Len(e) = Len(all)
    <2>1. /\ DOMAIN d = 1 .. Len(ids) /\ DOMAIN d = 1 .. Len(d) /\ Len(d) \in Nat
          /\ DOMAIN e = 1 .. Len(all) /\ DOMAIN e = 1 .. Len(e) /\ Len(e) \in Nat
      BY <1>1, <1>5, <1>12, LenProperties
    <2> QED BY <1>12, <2>1
  <1>14. ASSUME NEW i \in 1 .. Len(d) PROVE d[i] = e[i]
    <2>1. i \in DOMAIN ids /\ i \in DOMAIN all /\ all[i] = ids[i] /\ ids[i] \in InstanceIDs
      BY <1>12, <1>13
    <2>2. C[ids[i]].val = D[ids[i]].val
      BY <1>3, <1>5, <2>1 DEF Certified
    <2> QED BY <1>5, <2>1, <2>2
  <1>15. Len(d) <= Len(e) /\ Compatible(d, e)
    BY <1>12, <1>13, <1>14 DEF Compatible
  <1> QED BY <1>15 DEF d, e

\* The executed commands of two replicas agree where both have some.
LEMMA ExecutedCompatible ==
  ASSUME LogsInv, ExecInv, NEW r \in Correct, NEW s \in Correct
  PROVE  Compatible(executed[r], executed[s])
  <1>1. nextODeliverIndex[r] \in Nat /\ nextODeliverIndex[s] \in Nat
    BY DqAssumption DEF ExecInv
  <1>2. Len(executed[r]) \in Nat /\ Len(executed[s]) \in Nat
    BY LenProperties DEF ExecInv
  <1>3. CASE nextODeliverIndex[r] <= nextODeliverIndex[s]
    BY <1>3, FewerIsPrefix
  <1>4. CASE nextODeliverIndex[s] <= nextODeliverIndex[r]
    <2>1. Len(executed[s]) <= Len(executed[r]) /\ Compatible(executed[s], executed[r])
      BY <1>4, FewerIsPrefix
    <2> QED BY <1>2, <2>1 DEF Compatible
  <1> QED BY <1>1, <1>3, <1>4

SameOrder == \A r, s \in Correct : Compatible(executed[r], executed[s])

LEMMA InvSameOrder == LogsOrderInv => SameOrder
  BY ExecutedCompatible DEF LogsOrderInv, SameOrder

\* Of the correct replicas one has executed most.
LEMMA CorrectHasLongest ==
  ASSUME Correct # {}, NEW d \in [Correct -> Seq(Commands)]
  PROVE  LET p == CHOOSE r \in Correct : \A s \in Correct : Len(d[s]) <= Len(d[r])
         IN  p \in Correct /\ Longest(d, Correct, p)
  <1>1. IsFiniteSet(Correct)
    BY ReplicasFinite, FS_Subset DEF Correct
  <1>2. \E q \in Correct : Longest(d, Correct, q)
    BY <1>1, LongestExists
  <1> QED BY <1>2 DEF Longest

\* A step of the protocol is a step of the total order or leaves it unchanged.
LEMMA NextRefines ==
  ASSUME Correct # {}, LogsOrderInv, LogsOrderInv', NoneOverwritten', [Next]_vars
  PROVE  [Abstract!Next]_(Abstract!vars)
  <1>1. CASE executed' = executed
    BY <1>1 DEF Abstract!vars, LongestExecuted
  <1>2. CASE executed' # executed
    <2> DEFINE p == CHOOSE r \in Correct : \A s \in Correct : Len(executed[s]) <= Len(executed[r])
               q == CHOOSE r \in Correct : \A s \in Correct : Len(executed'[s]) <= Len(executed'[r])
    <2>1. executed \in [Correct -> Seq(Commands)] /\ executed' \in [Correct -> Seq(Commands)]
      BY DEF LogsOrderInv, ExecInv
    <2>2. PICK r \in Correct : GrowsAt(r)
      BY <1>2, OrderNext DEF vars
    <2>3. /\ \A s, t \in Correct : Compatible(executed[s], executed[t])
          /\ \A s, t \in Correct : Compatible(executed'[s], executed'[t])
      <3>1. SameOrder
        BY InvSameOrder
      <3>2. SameOrder'
        BY InvSameOrder, PTL
      <3> QED BY <3>1, <3>2 DEF SameOrder
    <2>4. /\ p \in Correct /\ Longest(executed, Correct, p)
          /\ q \in Correct /\ Longest(executed', Correct, q)
      BY <2>1, CorrectHasLongest
    <2>5. LongestExecuted = executed[p] /\ LongestExecuted' = executed'[q]
      BY DEF LongestExecuted
    <2> HIDE DEF p, q
    <2>6. /\ Abstract!Prefix(executed'[r], executed'[q])
          /\ Abstract!Prefix(executed[p], executed'[q])
          /\ executed'[q] \in {executed[p], executed'[r]}
      BY <2>1, <2>2, <2>3, <2>4, LongestGrows DEF GrowsAt, Abstract!Prefix
    <2>7. /\ Abstract!Prefix(executed[r], executed'[r])
          /\ \A s \in Correct \ {r} : executed'[s] = executed[s]
      <3>1. Len(executed[r]) \in Nat /\ Len(executed'[r]) \in Nat
        BY <2>1, LenProperties
      <3> QED BY <2>2, <3>1 DEF GrowsAt, Abstract!Prefix, Compatible
    <2>8. executed'[r] \in Seq(Commands) \ {executed[r]}
      BY <1>2, <2>1, <2>7
    <2>9. Abstract!Deliver(r)
      BY <2>5, <2>6, <2>7, <2>8 DEF Abstract!Deliver
    <2> QED BY <2>9 DEF Abstract!Next
  <1> QED BY <1>1, <1>2

\* Until an owner's onRequest overwrites a vote of its own, what is executed is what the
\* executed batches name; and without a faulty proposer a command is proposed in one
\* instance.
THEOREM DqOrderInvariant == Spec => []OrderInv
  <1>1. Init => OrderInv
    BY OrderInit, InitInv DEF OrderInv, DqInv, Init, NoneOverwritten
  <1>2. ASSUME OrderInv, [Next]_vars PROVE OrderInv'
    <2>1. DqInv'
      BY <1>2, NextInv DEF OrderInv
    <2>2. ASSUME NoneOverwritten' PROVE LogsOrderInv'
      <3>1. CASE NoneOverwritten
        BY <1>2, <2>2, <3>1, OrderNext, OrderStutters DEF OrderInv
      <3>2. CASE ~NoneOverwritten
        BY <1>2, <2>2, <3>2, OverwrittenStops DEF vars, NoneOverwritten
      <3> QED BY <3>1, <3>2
    <2> QED BY <2>1, <2>2 DEF OrderInv
  <1> QED BY <1>1, <1>2, PTL DEF Spec

\* DQPBFT implements TotalOrder, whichever of its two logs the faulty replicas attack and
\* in whosever instance they propose, in every behaviour in which no owner's onRequest
\* overwrites a vote of its own: exec delivers more of the one order at one replica.
THEOREM DqRefinement == Correct # {} => (Spec /\ []NoneOverwritten => ImplementsTotalOrder)
  <1> SUFFICES ASSUME Correct # {} PROVE Spec /\ []NoneOverwritten => ImplementsTotalOrder
    OBVIOUS
  <1>1. Init => Abstract!Init
    <2> SUFFICES ASSUME Init PROVE Abstract!Init
      OBVIOUS
    <2>1. executed = [r \in Correct |-> << >>]
      BY DEF Init
    <2>2. executed \in [Correct -> Seq(Commands)]
      BY <2>1
    <2>3. LongestExecuted = << >>
      BY <2>1, <2>2, CorrectHasLongest DEF LongestExecuted
    <2> QED BY <2>1, <2>3 DEF Abstract!Init
  <1>2. OrderInv /\ OrderInv' /\ NoneOverwritten /\ NoneOverwritten' /\ [Next]_vars
          => [Abstract!Next]_(Abstract!vars)
    BY NextRefines DEF OrderInv
  <1> QED BY <1>1, <1>2, DqOrderInvariant, PTL DEF Spec, ImplementsTotalOrder, Abstract!Spec

\* When no replica attacks, every command is executed once at every replica, however its
\* instance came into a batch.
THEOREM DqExecutesOnce == Spec => []ExecutedOnce
  <1>1. OrderInv => ExecutedOnce
    <2> SUFFICES ASSUME LogsOrderInv, cfg.attack = "None", NEW r \in Correct,
                        NEW i \in DOMAIN executed[r], NEW j \in DOMAIN executed[r],
                        executed[r][i] = executed[r][j]
                 PROVE  i = j
      BY DEF ExecutedOnce, OrderInv, DqInv
    <2> DEFINE ids == named(olog[r], 0, nextODeliverIndex[r])
    <2>1. /\ \A k \in 0 .. nextODeliverIndex[r] - 1 : olog[r][k].status = "Executed"
          /\ \A k \in DOMAIN ids : log[r][ids[k]].status = "Executed"
          /\ \A k, l \in DOMAIN ids : ids[k] = ids[l] => k = l
          /\ executed[r] = [k \in DOMAIN ids |-> log[r][ids[k]].val]
      BY DEF LogsOrderInv, ExecInv, ExecutedFrom
    <2>2. olog[r] \in [OIndices -> OEntry] /\ Valued(olog[r], OIndices) /\ Valued(log[r], InstanceIDs)
      BY LogsPrepared DEF LogsOrderInv, Prepares
    <2>3. nextODeliverIndex[r] \in 0 .. MaxOIndex /\ nextODeliverIndex[r] >= 0
      BY DqAssumption DEF LogsOrderInv, ExecInv
    <2>4. ids \in Seq(InstanceIDs)
      BY <2>1, <2>2, <2>3, BatchesNamed
    <2> HIDE DEF ids
    <2>5. i \in DOMAIN ids /\ j \in DOMAIN ids /\ ids[i] \in InstanceIDs /\ ids[j] \in InstanceIDs
      BY <2>1, <2>4
    <2>6. log[r][ids[i]].val = log[r][ids[j]].val /\ log[r][ids[i]].val # Nil
      BY <2>1, <2>2, <2>5 DEF Valued
    <2>7. ids[i] = ids[j]
      BY <2>5, <2>6 DEF LogsOrderInv, OneInstance
    <2> QED BY <2>1, <2>5, <2>7
  <1> QED BY <1>1, DqOrderInvariant, PTL
=============================================================================
