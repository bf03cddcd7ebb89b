----------------------------- MODULE PbftProofs -----------------------------
(***************************************************************************)
(* Agreement and the common order of execution of Pbft, for any number of  *)
(* peers, commands and indices and whatever agreement messages the faulty  *)
(* replicas send, up to the first NewView of a faulty replica that is      *)
(* applied.                                                                *)
(***************************************************************************)
EXTENDS Pbft, LogLemmas

-----------------------------------------------------------------------------
(* Sequences *)

\* The second sequence follows the first one.
LEMMA ConcatIdx ==
  ASSUME NEW C, NEW s \in Seq(C), NEW t \in Seq(C), NEW j \in Len(s) + 1 .. Len(s) + Len(t)
  PROVE  (s \o t)[j] = t[j - Len(s)]
  <1>1. Len(s) \in Nat /\ Len(t) \in Nat
    BY LenProperties
  <1>2. j \in 1 .. Len(s) + Len(t) /\ ~(j <= Len(s))
    BY <1>1
  <1>3. (s \o t)[j] = IF j <= Len(s) THEN s[j] ELSE t[j - Len(s)]
    BY <1>2, ConcatProperties
  <1> QED BY <1>2, <1>3

-----------------------------------------------------------------------------
(* Quorums *)

\* There are N peers.
LEMMA ReplicasFinite == IsFiniteSet(Replicas) /\ Cardinality(Replicas) = N
  <1>1. N \in Nat /\ N > 0 /\ 0 \in Int /\ N - 1 \in Int
    BY ConfigAssumption
  <1>2. /\ IsFiniteSet(0 .. N - 1)
        /\ Cardinality(0 .. N - 1) = IF 0 > N - 1 THEN 0 ELSE N - 1 - 0 + 1
    <2> DEFINE b == N - 1
    <2> HIDE DEF b
    <2>1. b \in Int
      BY <1>1 DEF b
    <2>2. IsFiniteSet(0 .. b) /\ Cardinality(0 .. b) = IF 0 > b THEN 0 ELSE b - 0 + 1
      BY <2>1, FS_Interval
    <2> QED BY <2>2 DEF b
  <1> QED BY <1>1, <1>2 DEF Replicas

\* Two vote quorums of more than 2f peers share a correct one: the counting
\* argument behind Quorum.Majority.
LEMMA QuorumsMeet ==
  ASSUME NEW P \in SUBSET Replicas, NEW Q \in SUBSET Replicas,
         Cardinality(P) > 2 * F, Cardinality(Q) > 2 * F
  PROVE  \E s \in Correct : s \in P /\ s \in Q
  <1>1. IsFiniteSet(Replicas) /\ Cardinality(Replicas) = N
    BY ReplicasFinite
  <1>2. IsFiniteSet(P) /\ IsFiniteSet(Q) /\ IsFiniteSet(P \cap Q) /\ IsFiniteSet(Faulty)
    <2>1. P \cap Q \in SUBSET Replicas /\ Faulty \in SUBSET Replicas
      BY ConfigAssumption
    <2> QED BY <1>1, <2>1, FS_Subset
  <1>3. Cardinality(P \cup Q) = Cardinality(P) + Cardinality(Q) - Cardinality(P \cap Q)
    BY <1>2, FS_Union
  <1>4. Cardinality(P \cup Q) <= N
    <2>1. P \cup Q \in SUBSET Replicas
      OBVIOUS
    <2> QED BY <1>1, <2>1, FS_Subset
  <1>5. /\ Cardinality(P) \in Nat /\ Cardinality(Q) \in Nat
        /\ Cardinality(P \cap Q) \in Nat /\ Cardinality(Faulty) \in Nat
        /\ Cardinality(P \cup Q) \in Nat
    <2>1. IsFiniteSet(P \cup Q)
      BY <1>2, FS_Union
    <2> QED BY <1>2, <2>1, FS_CardinalityType
  <1>6. Cardinality(P \cap Q) > Cardinality(Faulty)
    BY <1>3, <1>4, <1>5, ConfigAssumption
  <1>7. ~(P \cap Q \subseteq Faulty)
    <2> SUFFICES ASSUME P \cap Q \subseteq Faulty PROVE FALSE
      OBVIOUS
    <2>1. Cardinality(P \cap Q) <= Cardinality(Faulty)
      BY <1>2, FS_Subset
    <2> QED BY <2>1, <1>5, <1>6
  <1> QED BY <1>7 DEF Correct

\* A certificate keeps its majority when a vote is logged.
LEMMA MajorityGrows ==
  ASSUME NEW cert, NEW v, NEW h, NEW id, NEW w, NEW g, Majority(cert, v, h)
  PROVE  Majority(logVote(cert, id, w, g), v, h)
  <1> DEFINE P == voters(cert, v, h)
             Q == voters(logVote(cert, id, w, g), v, h)
  <1>1. IsFiniteSet(Replicas)
    BY ReplicasFinite
  <1>2. Q \in SUBSET Replicas /\ P \in SUBSET Q
    BY DEF voters, logVote
  <1>3. IsFiniteSet(Q)
    BY <1>1, <1>2, FS_Subset
  <1>4. Cardinality(P) <= Cardinality(Q)
    BY <1>2, <1>3, FS_Subset
  <1>5. Cardinality(P) \in Nat /\ Cardinality(Q) \in Nat
    BY <1>2, <1>3, FS_Subset, FS_CardinalityType
  <1> QED BY <1>4, <1>5, ConfigAssumption DEF Majority

\* Commands committed in one view agree: what the two prepare quorums share.
LEMMA CommittedAgree ==
  ASSUME FirstView, NEW r \in Correct, NEW s \in Correct, NEW i \in Indices,
         log[r][i].status = "Committed", log[s][i].status = "Committed"
  PROVE  log[r][i].hash = log[s][i].hash
  <1> DEFINE P == voters(log[r][i].pCert, LeaderID, log[r][i].hash)
             Q == voters(log[s][i].pCert, LeaderID, log[s][i].hash)
  <1>1. Cardinality(P) > 2 * F /\ Cardinality(Q) > 2 * F
    BY DEF FirstView, StatusHasVotes, HasVotes, Majority
  <1>2. P \in SUBSET Replicas /\ Q \in SUBSET Replicas
    BY DEF voters
  <1>3. PICK q \in Correct : q \in P /\ q \in Q
    <2> HIDE DEF P, Q
    <2> QED BY <1>1, <1>2, QuorumsMeet
  <1>4. log[q][i].hash = log[r][i].hash
    BY <1>3 DEF FirstView, VotesByState, voters, Vouches
  <1>5. log[q][i].hash = log[s][i].hash
    BY <1>3 DEF FirstView, VotesByState, voters, Vouches
  <1> QED BY <1>4, <1>5

\* The inductive invariant gives Agreement: two Majority tests never pass for
\* different hashes at one index.
LEMMA InvAgreement == FirstView => Agreement
  BY CommittedAgree DEF Agreement

\* It also gives PrefixOrder: exec runs committed instances by index.
LEMMA InvPrefixOrder == FirstView => PrefixOrder
  <1> SUFFICES ASSUME FirstView, NEW r \in Correct, NEW s \in Correct,
                      NEW i \in 1 .. Len(executed[r]), i <= Len(executed[s])
               PROVE  executed[r][i] = executed[s][i]
    BY DEF PrefixOrder
  <1>1. /\ execute[r] \in 1 .. MaxIndex + 1 /\ execute[s] \in 1 .. MaxIndex + 1
        /\ Len(executed[r]) = execute[r] - 1 /\ Len(executed[s]) = execute[s] - 1
    BY DEF FirstView, TypeOK, ExecutedByLog
  <1>2. i \in Indices /\ i \in 1 .. execute[r] - 1 /\ i \in 1 .. execute[s] - 1
    BY <1>1, ConfigAssumption DEF Indices
  <1>3. /\ log[r][i].status = "Committed" /\ log[r][i].hash = Hash(executed[r][i])
        /\ log[s][i].status = "Committed" /\ log[s][i].hash = Hash(executed[s][i])
    BY <1>2 DEF FirstView, ExecutedByLog
  <1>4. Hash(executed[r][i]) = Hash(executed[s][i])
    BY <1>2, <1>3, CommittedAgree
  <1> QED BY <1>4 DEF Hash

\* A commit quorum less the faulty replicas has certified the hash.
LEMMA InvCommitHasQuorum == FirstView => CommitHasQuorum
  <1> SUFFICES ASSUME FirstView, NEW r \in Correct, NEW i \in Indices,
                      log[r][i].status = "Committed"
               PROVE  Cardinality({s \in Correct :
                                     /\ log[s][i].status \in {"Prepared", "Committed"}
                                     /\ log[s][i].hash = log[r][i].hash})
                          > 2 * F - Cardinality(Faulty)
    BY DEF CommitHasQuorum
  <1> DEFINE C == {s \in Correct : /\ log[s][i].status \in {"Prepared", "Committed"}
                                   /\ log[s][i].hash = log[r][i].hash}
             V == voters(log[r][i].cCert, LeaderID, log[r][i].hash)
  <1>1. Cardinality(V) > 2 * F
    BY DEF FirstView, StatusHasVotes, HasVotes, Majority
  <1>2. V \in SUBSET (C \cup Faulty)
    BY DEF FirstView, VotesByState, Certifies, voters, Correct
  <1>3. C \in SUBSET Replicas /\ Faulty \in SUBSET Replicas
    BY ConfigAssumption DEF Correct
  <1> HIDE DEF C, V
  <1>4. IsFiniteSet(C) /\ IsFiniteSet(Faulty)
    BY <1>3, ReplicasFinite, FS_Subset
  <1>5. /\ IsFiniteSet(C \cup Faulty) /\ IsFiniteSet(C \cap Faulty)
        /\ Cardinality(C \cup Faulty) =
              Cardinality(C) + Cardinality(Faulty) - Cardinality(C \cap Faulty)
    BY <1>4, FS_Union, FS_Intersection
  <1>6. Cardinality(V) <= Cardinality(C \cup Faulty) /\ IsFiniteSet(V)
    BY <1>2, <1>5, FS_Subset
  <1>7. /\ Cardinality(V) \in Nat /\ Cardinality(C) \in Nat /\ Cardinality(Faulty) \in Nat
        /\ Cardinality(C \cap Faulty) \in Nat /\ Cardinality(C \cup Faulty) \in Nat
    BY <1>4, <1>5, <1>6, FS_CardinalityType
  <1>8. Cardinality(C) > 2 * F - Cardinality(Faulty)
    BY <1>1, <1>5, <1>6, <1>7, ConfigAssumption
  <1> QED BY <1>8 DEF C

-----------------------------------------------------------------------------
(* One instance *)

\* What an instance x that a handler is about to store for replica r at index
\* i owes the others: its votes are backed, and r takes back no vote it cast.
Grows(old, x) ==
    /\ old.status \in Voted => x.status \in Voted /\ x.hash = old.hash
    /\ old.status \in {"Prepared", "Committed"} => x.status \in {"Prepared", "Committed"}
    /\ old.status = "Committed" => x.status = "Committed"

Backed(r, i, x) ==
    /\ \A e \in x.pCert : e.from \in Correct =>
          IF e.from = r THEN x.status \in Voted /\ x.hash = e.hash
          ELSE Vouches(e.from, i, e.hash)
    /\ \A e \in x.cCert : e.from \in Correct =>
          IF e.from = r THEN x.status \in {"Prepared", "Committed"} /\ x.hash = e.hash
          ELSE Certifies(e.from, i, e.hash)

Sound(r, i, x) ==
    /\ x \in Instance /\ x.status # "Absent" /\ x.view = LeaderID
    /\ HasVotes(r, x) /\ Backed(r, i, x) /\ Grows(log[r][i], x)

\* The commit half of the handlers keeps an instance sound.
LEMMA TryCommitSound ==
  ASSUME NEW r \in Correct, NEW i \in Indices, NEW x, Sound(r, i, x)
  PROVE  /\ Sound(r, i, tryCommit(x, LeaderID, x.hash))
         /\ tryCommit(x, LeaderID, x.hash).hash = x.hash
         /\ x.status \in Voted => tryCommit(x, LeaderID, x.hash).status \in Voted
         /\ tryCommit(x, LeaderID, x.hash).status \in Voted => x.status \in Voted
         /\ x.status = "Prepared" =>
               tryCommit(x, LeaderID, x.hash).status \in {"Prepared", "Committed"}
  <1>1. CASE Majority(x.cCert, LeaderID, x.hash) /\ x.status = "Prepared"
    <2> DEFINE y == [x EXCEPT !.status = "Committed"]
    <2>1. tryCommit(x, LeaderID, x.hash) = y
      BY <1>1 DEF tryCommit
    <2>2. /\ y \in Instance /\ y.status = "Committed" /\ y.view = x.view /\ y.cmd = x.cmd
          /\ y.hash = x.hash /\ y.pCert = x.pCert /\ y.cCert = x.cCert
      BY DEF Sound, Instance, Statuses
    <2> HIDE DEF y
    <2>3. HasVotes(r, y)
      BY <1>1, <2>2 DEF Sound, HasVotes, Voted
    <2>4. Backed(r, i, y)
      BY <1>1, <2>2 DEF Sound, Backed, Voted
    <2>5. Grows(log[r][i], y)
      BY <1>1, <2>2 DEF Sound, Grows, Voted
    <2> QED BY <1>1, <2>1, <2>2, <2>3, <2>4, <2>5 DEF Sound, Voted
  <1>2. CASE ~(Majority(x.cCert, LeaderID, x.hash) /\ x.status = "Prepared")
    BY <1>2 DEF tryCommit
  <1> QED BY <1>1, <1>2

\* So does the prepare half: the replica's own commit vote is logged with the
\* status that backs it.
LEMMA TryPrepareSound ==
  ASSUME NEW r \in Correct, NEW i \in Indices, NEW x, Sound(r, i, x)
  PROVE  LET y == tryPrepare(r, x, LeaderID, x.hash)
         IN  /\ Sound(r, i, y) /\ y.hash = x.hash
             /\ y.status \in Voted <=> x.status \in Voted
             /\ prepares(x, LeaderID, x.hash) => y.status \in {"Prepared", "Committed"}
  <1>1. CASE prepares(x, LeaderID, x.hash)
    <2> DEFINE c == logVote(x.cCert, r, LeaderID, x.hash)
               p == [x EXCEPT !.status = "Prepared", !.cCert = c]
    <2>1. tryPrepare(r, x, LeaderID, x.hash) = tryCommit(p, LeaderID, x.hash)
      BY <1>1 DEF tryPrepare
    <2>2. r \in Replicas /\ LeaderID \in Views /\ x.hash \in Hashes
      BY <1>1, ConfigAssumption DEF Sound, HasVotes, Instance, Correct
    <2>3. /\ p \in Instance /\ p.status = "Prepared" /\ p.view = x.view /\ p.cmd = x.cmd
          /\ p.hash = x.hash /\ p.pCert = x.pCert
          /\ p.cCert = x.cCert \cup {[from |-> r, view |-> LeaderID, hash |-> x.hash]}
      <3>1. c = x.cCert \cup {[from |-> r, view |-> LeaderID, hash |-> x.hash]}
        BY DEF logVote
      <3>2. c \in SUBSET Vote
        BY <3>1, <2>2 DEF Sound, Instance, Vote
      <3> HIDE DEF c
      <3> QED BY <3>1, <3>2 DEF Sound, Instance, Statuses
    <2> HIDE DEF p
    <2>4. x.status = "PrePrepared" /\ Majority(x.pCert, LeaderID, x.hash)
      BY <1>1 DEF prepares
    <2>5. HasVotes(r, p)
      BY <2>3, <2>4 DEF Sound, HasVotes, Voted
    <2>6. Backed(r, i, p)
      BY <2>3, <2>4 DEF Sound, Backed, Voted
    <2>7. Grows(log[r][i], p)
      BY <2>3, <2>4 DEF Sound, Grows, Voted
    <2>8. Sound(r, i, p)
      BY <2>3, <2>5, <2>6, <2>7 DEF Sound
    <2>9. tryCommit(p, LeaderID, p.hash).status \in {"Prepared", "Committed"}
      BY <2>3, <2>8, TryCommitSound
    <2> QED BY <2>1, <2>3, <2>4, <2>8, <2>9, TryCommitSound DEF Voted
  <1>2. CASE ~prepares(x, LeaderID, x.hash)
    BY <1>2 DEF tryPrepare
  <1> QED BY <1>1, <1>2

-----------------------------------------------------------------------------
(* The instances the handlers build *)

\* What replica r may rely on in a message m that it steps.
Genuine(r, m) ==
    /\ m \in AgreementMessage /\ m.from # r /\ m.view = LeaderID
    /\ m.from \in Correct =>
          /\ m.type # "Commit" => Vouches(m.from, m.index, m.hash)
          /\ m.type = "Commit" => Certifies(m.from, m.index, m.hash)

\* The instance a replica has for the index of a message, made or updated.
LEMMA WithHashFields ==
  ASSUME FirstView, NEW r \in Correct, NEW m, Genuine(r, m), hashAgrees(log[r][m.index], m)
  PROVE  LET old == log[r][m.index]
             x == withHash(old, m)
         IN  /\ x \in Instance /\ x.status # "Absent" /\ x.view = LeaderID
             /\ x.hash = m.hash /\ m.hash # Nil /\ m.hash \in Hashes
             /\ old.status # "Absent" =>
                   /\ x.status = old.status /\ x.hash = old.hash /\ x.cmd = old.cmd
                   /\ x.pCert = old.pCert /\ x.cCert = old.cCert
             /\ old.status = "Absent" =>
                   /\ x.status = "None" /\ x.pCert = {} /\ x.cCert = {}
  <1> DEFINE old == log[r][m.index]
  <1>1. /\ m.index \in Indices /\ m.hash \in Hashes /\ m.hash # Nil
        /\ m.cmd \in Commands \cup {Nil} /\ m.view = LeaderID /\ m.view \in Views
    BY ConfigAssumption DEF Genuine, AgreementMessage
  <1>2. old \in Instance /\ old.view = LeaderID
    BY <1>1 DEF FirstView, TypeOK, OneView
  <1>3. HasVotes(r, old) /\ hashAgrees(old, m)
    BY <1>1 DEF FirstView, StatusHasVotes
  <1> HIDE DEF old
  <1>4. CASE old.status = "Absent"
    BY <1>1, <1>2, <1>4 DEF withHash, makeInstance, Instance, Statuses, old
  <1>5. CASE old.status # "Absent"
    <2>1. old.hash = m.hash
      BY <1>3, <1>5 DEF HasVotes, hashAgrees
    <2>2. withHash(old, m) = [old EXCEPT !.hash = m.hash]
      BY <1>5 DEF withHash
    <2> QED BY <1>1, <1>2, <1>5, <2>1, <2>2 DEF Instance, old
  <1> QED BY <1>4, <1>5

\* Logging a Prepare keeps the instance sound.
LEMMA WithPrepareSound ==
  ASSUME FirstView, NEW r \in Correct, NEW m, Genuine(r, m), m.type # "Commit",
         hashAgrees(log[r][m.index], m)
  PROVE  LET x == withPrepare(log[r][m.index], m)
         IN  /\ Sound(r, m.index, x) /\ x.hash = m.hash
             /\ x.status \in Voted <=> log[r][m.index].status \in Voted
  <1> DEFINE old == log[r][m.index]
             x == withHash(old, m)
             c == logVote(x.pCert, m.from, m.view, m.hash)
             y == [x EXCEPT !.pCert = c]
  <1>1. /\ x \in Instance /\ x.status # "Absent" /\ x.view = LeaderID
        /\ x.hash = m.hash /\ m.hash # Nil /\ m.hash \in Hashes
        /\ old.status # "Absent" =>
              /\ x.status = old.status /\ x.hash = old.hash /\ x.cmd = old.cmd
              /\ x.pCert = old.pCert /\ x.cCert = old.cCert
        /\ old.status = "Absent" =>
              /\ x.status = "None" /\ x.pCert = {} /\ x.cCert = {}
    BY WithHashFields
  <1>2. m.index \in Indices /\ m.from \in Replicas /\ m.view = LeaderID /\ m.view \in Views
    BY DEF Genuine, AgreementMessage
  <1>3. HasVotes(r, old) /\ old \in Instance
    BY <1>2 DEF FirstView, StatusHasVotes, TypeOK
  <1>4. \A e \in old.pCert : e.from \in Correct => Vouches(e.from, m.index, e.hash)
    BY <1>2 DEF FirstView, VotesByState
  <1>5. \A e \in old.cCert : e.from \in Correct => Certifies(e.from, m.index, e.hash)
    BY <1>2 DEF FirstView, VotesByState
  <1>6. withPrepare(old, m) = y
    BY DEF withPrepare
  <1>7. c = x.pCert \cup {[from |-> m.from, view |-> m.view, hash |-> m.hash]}
    BY DEF logVote
  <1>8. Majority(x.pCert, LeaderID, x.hash) => Majority(c, LeaderID, x.hash)
    BY MajorityGrows
  <1>9. Vouches(r, m.index, old.hash) <=> old.status \in Voted
    BY DEF Vouches
  <1>10. /\ \A h : Vouches(r, m.index, h) => old.status \in Voted /\ old.hash = h
         /\ \A h : Certifies(r, m.index, h) =>
                old.status \in {"Prepared", "Committed"} /\ old.hash = h
    BY DEF Vouches, Certifies
  <1>11. m.from \in Correct => Vouches(m.from, m.index, m.hash)
    BY DEF Genuine
  <1>12. m.from # r
    BY DEF Genuine
  <1> HIDE DEF old, x, c
  <1>13. c \in SUBSET Vote
    BY <1>1, <1>2, <1>7 DEF Instance, Vote
  <1>14. /\ y \in Instance /\ y.status = x.status /\ y.view = x.view /\ y.cmd = x.cmd
         /\ y.hash = x.hash /\ y.pCert = c /\ y.cCert = x.cCert
    BY <1>1, <1>13 DEF Instance
  <1> HIDE DEF y
  <1>15. HasVotes(r, y)
    BY <1>1, <1>3, <1>7, <1>8, <1>14 DEF HasVotes, Voted
  <1>16. Backed(r, m.index, y)
    <2>1. ASSUME NEW e \in y.pCert, e.from \in Correct
          PROVE  IF e.from = r THEN y.status \in Voted /\ y.hash = e.hash
                 ELSE Vouches(e.from, m.index, e.hash)
      BY <1>1, <1>4, <1>7, <1>10, <1>11, <1>12, <1>14, <2>1 DEF Voted
    <2>2. ASSUME NEW e \in y.cCert, e.from \in Correct
          PROVE  IF e.from = r THEN y.status \in {"Prepared", "Committed"} /\ y.hash = e.hash
                 ELSE Certifies(e.from, m.index, e.hash)
      BY <1>1, <1>5, <1>10, <1>14, <2>2
    <2> QED BY <2>1, <2>2 DEF Backed
  <1>17. Grows(old, y)
    BY <1>1, <1>14 DEF Grows, Voted
  <1> QED BY <1>1, <1>6, <1>14, <1>15, <1>16, <1>17 DEF Sound, Voted, old

\* So does logging a Commit.
LEMMA WithCommitSound ==
  ASSUME FirstView, NEW r \in Correct, NEW m, Genuine(r, m), m.type = "Commit",
         hashAgrees(log[r][m.index], m)
  PROVE  LET x == withCommit(log[r][m.index], m)
         IN  /\ Sound(r, m.index, x) /\ x.hash = m.hash
             /\ x.status \in Voted <=> log[r][m.index].status \in Voted
  <1> DEFINE old == log[r][m.index]
             x == withHash(old, m)
             c == logVote(x.cCert, m.from, m.view, m.hash)
             y == [x EXCEPT !.cCert = c]
  <1>1. /\ x \in Instance /\ x.status # "Absent" /\ x.view = LeaderID
        /\ x.hash = m.hash /\ m.hash # Nil /\ m.hash \in Hashes
        /\ old.status # "Absent" =>
              /\ x.status = old.status /\ x.hash = old.hash /\ x.cmd = old.cmd
              /\ x.pCert = old.pCert /\ x.cCert = old.cCert
        /\ old.status = "Absent" =>
              /\ x.status = "None" /\ x.pCert = {} /\ x.cCert = {}
    BY WithHashFields
  <1>2. m.index \in Indices /\ m.from \in Replicas /\ m.view = LeaderID /\ m.view \in Views
    BY DEF Genuine, AgreementMessage
  <1>3. HasVotes(r, old) /\ old \in Instance
    BY <1>2 DEF FirstView, StatusHasVotes, TypeOK
  <1>4. \A e \in old.pCert : e.from \in Correct => Vouches(e.from, m.index, e.hash)
    BY <1>2 DEF FirstView, VotesByState
  <1>5. \A e \in old.cCert : e.from \in Correct => Certifies(e.from, m.index, e.hash)
    BY <1>2 DEF FirstView, VotesByState
  <1>6. withCommit(old, m) = y
    BY DEF withCommit
  <1>7. c = x.cCert \cup {[from |-> m.from, view |-> m.view, hash |-> m.hash]}
    BY DEF logVote
  <1>8. Majority(x.cCert, LeaderID, x.hash) => Majority(c, LeaderID, x.hash)
    BY MajorityGrows
  <1>9. /\ \A h : Vouches(r, m.index, h) => old.status \in Voted /\ old.hash = h
        /\ \A h : Certifies(r, m.index, h) =>
                old.status \in {"Prepared", "Committed"} /\ old.hash = h
    BY DEF Vouches, Certifies
  <1>10. m.from # r /\ (m.from \in Correct => Certifies(m.from, m.index, m.hash))
    BY DEF Genuine
  <1> HIDE DEF old, x, c
  <1>11. c \in SUBSET Vote
    BY <1>1, <1>2, <1>7 DEF Instance, Vote
  <1>12. /\ y \in Instance /\ y.status = x.status /\ y.view = x.view /\ y.cmd = x.cmd
         /\ y.hash = x.hash /\ y.cCert = c /\ y.pCert = x.pCert
    BY <1>1, <1>11 DEF Instance
  <1> HIDE DEF y
  <1>13. HasVotes(r, y)
    BY <1>1, <1>3, <1>7, <1>8, <1>12 DEF HasVotes, Voted
  <1>14. Backed(r, m.index, y)
    <2>1. ASSUME NEW e \in y.pCert, e.from \in Correct
          PROVE  IF e.from = r THEN y.status \in Voted /\ y.hash = e.hash
                 ELSE Vouches(e.from, m.index, e.hash)
      BY <1>1, <1>4, <1>9, <1>12, <2>1 DEF Voted
    <2>2. ASSUME NEW e \in y.cCert, e.from \in Correct
          PROVE  IF e.from = r THEN y.status \in {"Prepared", "Committed"} /\ y.hash = e.hash
                 ELSE Certifies(e.from, m.index, e.hash)
      BY <1>1, <1>5, <1>7, <1>9, <1>10, <1>12, <2>2
    <2> QED BY <2>1, <2>2 DEF Backed
  <1>15. Grows(old, y)
    BY <1>1, <1>12 DEF Grows, Voted
  <1> QED BY <1>1, <1>6, <1>12, <1>13, <1>14, <1>15 DEF Sound, Voted, old

\* A replica that has voted meets its own vote in Quorum.log: an accepted
\* PrePrepare is the first one, and its instance is sound.
LEMMA PrePreparedSound ==
  ASSUME FirstView, NEW r \in Correct, NEW m, Genuine(r, m), m.type = "PrePrepare",
         ~PrePreparePanics(r, m)
  PROVE  LET x == prePrepared(r, log[r][m.index], m)
         IN  /\ Sound(r, m.index, x) /\ x.hash = m.hash /\ x.status = "PrePrepared"
             /\ log[r][m.index].status \notin Voted
  <1> DEFINE old == log[r][m.index]
             x == withHash(old, m)
             known == [x EXCEPT !.cmd = m.cmd]
             c == logVote(logVote(x.pCert, m.from, m.view, m.hash), r, LeaderID, m.hash)
             y == [x EXCEPT !.cmd = m.cmd, !.status = "PrePrepared", !.pCert = c]
  <1>0. hashAgrees(log[r][m.index], m)
    BY DEF PrePreparePanics
  <1>1. /\ x \in Instance /\ x.status # "Absent" /\ x.view = LeaderID
        /\ x.hash = m.hash /\ m.hash # Nil /\ m.hash \in Hashes
        /\ old.status # "Absent" =>
              /\ x.status = old.status /\ x.hash = old.hash /\ x.cmd = old.cmd
              /\ x.pCert = old.pCert /\ x.cCert = old.cCert
        /\ old.status = "Absent" =>
              /\ x.status = "None" /\ x.pCert = {} /\ x.cCert = {}
    BY <1>0, WithHashFields
  <1>2. m.index \in Indices /\ m.from \in Replicas /\ m.view = LeaderID /\ m.view \in Views
    BY DEF Genuine, AgreementMessage
  <1>3. HasVotes(r, old) /\ old \in Instance
    BY <1>2 DEF FirstView, StatusHasVotes, TypeOK
  <1>4. \A e \in old.pCert : e.from \in Correct => Vouches(e.from, m.index, e.hash)
    BY <1>2 DEF FirstView, VotesByState
  <1>5. \A e \in old.cCert : e.from \in Correct => Certifies(e.from, m.index, e.hash)
    BY <1>2 DEF FirstView, VotesByState
  <1>6. /\ \A h : Vouches(r, m.index, h) => old.status \in Voted /\ old.hash = h
        /\ \A h : Certifies(r, m.index, h) =>
                old.status \in {"Prepared", "Committed"} /\ old.hash = h
    BY DEF Vouches, Certifies
  <1>7. /\ m.from # r /\ (m.from \in Correct => Vouches(m.from, m.index, m.hash))
        /\ r \in Replicas /\ m.cmd \in Commands \cup {Nil}
    BY DEF Genuine, Correct, AgreementMessage
  <1>8. m.cmd # Nil /\ m.hash = Hash(m.cmd)
    BY DEF PrePreparePanics
  <1>9. old.status \notin Voted
    <2> SUFFICES ASSUME old.status \in Voted PROVE FALSE
      OBVIOUS
    <2>1. [from |-> r, view |-> LeaderID, hash |-> old.hash] \in old.pCert
      BY <1>3 DEF HasVotes
    <2>2. old.view = LeaderID /\ old.status # "Absent"
      BY <1>2 DEF FirstView, OneView, Voted
    <2>3. canLog(logVote(old.pCert, m.from, m.view, m.hash), r, LeaderID)
      BY <2>2 DEF PrePreparePanics
    <2> QED BY <2>1, <2>3 DEF canLog, logVote
  <1>10. c = x.pCert \cup {[from |-> m.from, view |-> LeaderID, hash |-> m.hash],
                           [from |-> r, view |-> LeaderID, hash |-> m.hash]}
    BY <1>2 DEF logVote
  <1>11. prePrepared(r, old, m) = y
    <2>1. known.view = LeaderID /\ known.pCert = x.pCert
      BY <1>1 DEF Instance
    <2>2. prePrepared(r, old, m) = [known EXCEPT !.status = "PrePrepared", !.pCert = c]
      BY <2>1 DEF prePrepared
    <2> HIDE DEF x, c
    <2> QED BY <1>1, <2>2 DEF Instance
  <1> HIDE DEF old, x, c
  <1>12. c \in SUBSET Vote
    BY <1>1, <1>2, <1>7, <1>10 DEF Instance, Vote
  <1>13. /\ y \in Instance /\ y.status = "PrePrepared" /\ y.view = x.view /\ y.cmd = m.cmd
         /\ y.hash = x.hash /\ y.pCert = c /\ y.cCert = x.cCert
    BY <1>1, <1>7, <1>12 DEF Instance, Statuses
  <1> HIDE DEF y
  <1>14. HasVotes(r, y)
    BY <1>1, <1>8, <1>10, <1>13 DEF HasVotes, Voted
  <1>15. Backed(r, m.index, y)
    <2>1. ASSUME NEW e \in y.pCert, e.from \in Correct
          PROVE  IF e.from = r THEN y.status \in Voted /\ y.hash = e.hash
                 ELSE Vouches(e.from, m.index, e.hash)
      BY <1>1, <1>4, <1>6, <1>7, <1>9, <1>10, <1>13, <2>1 DEF Voted
    <2>2. ASSUME NEW e \in y.cCert, e.from \in Correct
          PROVE  IF e.from = r THEN y.status \in {"Prepared", "Committed"} /\ y.hash = e.hash
                 ELSE Certifies(e.from, m.index, e.hash)
      BY <1>1, <1>5, <1>6, <1>9, <1>13, <2>2 DEF Voted
    <2> QED BY <2>1, <2>2 DEF Backed
  <1>16. Grows(old, y)
    BY <1>9 DEF Grows, Voted
  <1> QED BY <1>1, <1>9, <1>11, <1>13, <1>14, <1>15, <1>16 DEF Sound, old

-----------------------------------------------------------------------------
(* Storing an instance and executing the committed prefix *)

\* An instance of which at most the command has been dropped, as exec does.
SameButCmd(x, y) == x = y \/ x = [y EXCEPT !.cmd = Nil]

\* Dropping the command changes none of the other fields.
LEMMA DroppedFields ==
  ASSUME NEW y \in Instance, NEW x, SameButCmd(x, y)
  PROVE  /\ x \in Instance /\ x.status = y.status /\ x.view = y.view /\ x.hash = y.hash
         /\ x.pCert = y.pCert /\ x.cCert = y.cCert /\ x.cmd \in {y.cmd, Nil}
  BY DEF SameButCmd, Instance

\* store replaces one instance, and exec drops commands and moves execute over
\* committed instances only.
LEMMA StoreEffect ==
  ASSUME FirstView, NEW r \in Correct, NEW i \in Indices, NEW x, Sound(r, i, x), store(r, i, x)
  PROVE  /\ log' \in [Correct -> [Indices -> Instance]]
         /\ \A s \in Correct \ {r} : log'[s] = log[s]
         /\ \A j \in Indices : SameButCmd(log'[r][j], IF j = i THEN x ELSE log[r][j])
         /\ execute' \in [Correct -> 1 .. MaxIndex + 1]
         /\ executed' \in [Correct -> Seq(Commands)]
         /\ ExecutedByLog'
  <1> DEFINE l == [log[r] EXCEPT ![i] = x]
             e == execute[r]
  <1>1. /\ log \in [Correct -> [Indices -> Instance]] /\ x \in Instance
        /\ execute \in [Correct -> 1 .. MaxIndex + 1]
        /\ executed \in [Correct -> Seq(Commands)] /\ MaxIndex \in Nat
    BY ConfigAssumption DEF FirstView, TypeOK, Sound
  <1>2. \A s \in Correct :
          /\ Len(executed[s]) = execute[s] - 1
          /\ \A j \in 1 .. execute[s] - 1 : /\ log[s][j].status = "Committed"
                                            /\ log[s][j].hash = Hash(executed[s][j])
    BY DEF FirstView, ExecutedByLog
  <1>3. l \in [Indices -> Instance] /\ \A j \in Indices : l[j] = IF j = i THEN x ELSE log[r][j]
    BY <1>1
  <1>4. log[r][i].status = "Committed" => x.status = "Committed" /\ x.hash = log[r][i].hash
    BY DEF Sound, Grows, Voted
  <1>5. e \in 1 .. MaxIndex + 1 /\ \A j \in 1 .. e - 1 : j \in Indices
    BY <1>1 DEF Indices
  <1>6. \A j \in 1 .. e - 1 : l[j].status = "Committed" /\ l[j].hash = Hash(executed[r][j])
    BY <1>2, <1>3, <1>4, <1>5
  <1>7. CASE ~(x.status = "Committed" /\ log[r][i].status # "Committed")
    <2>1. log' = [log EXCEPT ![r] = l] /\ execute' = execute /\ executed' = executed
      BY <1>7 DEF store, execVars
    <2>2. log'[r] = l /\ \A s \in Correct \ {r} : log'[s] = log[s]
      BY <1>1, <2>1
    <2>3. log' \in [Correct -> [Indices -> Instance]]
      BY <1>1, <1>3, <2>1
    <2> HIDE DEF l, e
    <2>4. ExecutedByLog'
      BY <1>2, <1>6, <2>1, <2>2 DEF ExecutedByLog, e
    <2> QED BY <1>1, <1>3, <2>1, <2>2, <2>3, <2>4 DEF SameButCmd
  <1>8. CASE x.status = "Committed" /\ log[r][i].status # "Committed"
    <2>1. exec(r, l)
      BY <1>8 DEF store
    <2> HIDE DEF l
    <2>2. PICK k \in e .. MaxIndex + 1 :
            /\ \A j \in e .. k - 1 : runnable(l[j])
            /\ execute' = [execute EXCEPT ![r] = k]
            /\ executed' = [executed EXCEPT ![r] =
                              @ \o [j \in 1 .. k - e |-> l[e + j - 1].cmd]]
            /\ log' = [log EXCEPT ![r] =
                         [j \in Indices |-> IF j \in e .. k - 1
                                            THEN [l[j] EXCEPT !.cmd = Nil] ELSE l[j]]]
      BY <2>1 DEF exec
    <2> DEFINE new == [j \in 1 .. k - e |-> l[e + j - 1].cmd]
    <2>3. /\ \A s \in Correct \ {r} : /\ log'[s] = log[s] /\ execute'[s] = execute[s]
                                       /\ executed'[s] = executed[s]
          /\ log'[r] = [j \in Indices |-> IF j \in e .. k - 1
                                          THEN [l[j] EXCEPT !.cmd = Nil] ELSE l[j]]
          /\ execute'[r] = k /\ executed'[r] = executed[r] \o new
      BY <1>1, <2>2
    <2>4. \A j \in Indices : SameButCmd(log'[r][j], l[j])
      BY <2>3 DEF SameButCmd
    <2>5. \A j \in Indices : /\ log'[r][j] \in Instance /\ log'[r][j].status = l[j].status
                             /\ log'[r][j].hash = l[j].hash
      BY <1>3, <2>4, DroppedFields
    <2>6. log' \in [Correct -> [Indices -> Instance]]
      <3>1. log'[r] \in [Indices -> Instance]
        BY <2>3, <2>5
      <3> QED BY <1>1, <2>2, <2>3, <3>1
    <2>7. k \in 1 .. MaxIndex + 1 /\ k - e \in Nat
      BY <1>1, <1>5, <2>2
    <2>8. execute' \in [Correct -> 1 .. MaxIndex + 1]
      BY <1>1, <2>2, <2>7
    <2>9. \A j \in e .. k - 1 : /\ j \in Indices /\ l[j] \in Instance
                                /\ l[j].status = "Committed" /\ l[j].cmd # Nil
      BY <1>1, <1>3, <1>5, <2>2, <2>7 DEF Indices, runnable
    <2>10. new \in Seq(Commands) /\ Len(new) = k - e
      <3>1. \A j \in 1 .. k - e : e + j - 1 \in e .. k - 1
        BY <1>5, <2>7
      <3>2. \A j \in 1 .. k - e : l[e + j - 1].cmd \in Commands
        BY <2>9, <3>1 DEF Instance
      <3>3. new \in [1 .. k - e -> Commands]
        BY <3>2
      <3> HIDE DEF new
      <3> QED BY <3>3, <2>7, FunctionIsSequence
    <2>11. executed' \in [Correct -> Seq(Commands)]
      <3> HIDE DEF new
      <3>1. executed[r] \o new \in Seq(Commands)
        BY <1>1, <2>10
      <3> QED BY <1>1, <2>2, <3>1 DEF new
    <2>12. Len(executed'[r]) = k - 1
      <3> HIDE DEF new
      <3>1. Len(executed[r] \o new) = Len(executed[r]) + Len(new)
        <4>1. executed[r] \in Seq(Commands)
          BY <1>1
        <4> QED BY <2>10, <4>1, ConcatProperties
      <3> QED BY <1>2, <1>5, <2>3, <2>7, <2>10, <3>1
    <2>13. ASSUME NEW j \in 1 .. k - 1
           PROVE  log'[r][j].status = "Committed" /\ log'[r][j].hash = Hash(executed'[r][j])
      <3>0. Len(executed[r]) = e - 1
        BY <1>2
      <3>1. CASE j \in 1 .. e - 1
        <4>1. executed'[r][j] = executed[r][j]
          <5> HIDE DEF new
          <5> QED BY <1>1, <2>3, <2>10, <3>0, <3>1
        <4> QED BY <1>5, <1>6, <2>5, <3>1, <4>1
      <3>2. CASE j \in e .. k - 1
        <4>1. executed'[r][j] = new[j - e + 1] /\ j - e + 1 \in 1 .. k - e
          <5> HIDE DEF new
          <5>1. /\ j - (e - 1) = j - e + 1 /\ j - e + 1 \in 1 .. k - e
                /\ j \in (e - 1) + 1 .. (e - 1) + (k - e)
            BY <1>5, <2>7, <3>2
          <5> DEFINE old == executed[r]
          <5>2. old \in Seq(Commands) /\ Len(old) = e - 1
            BY <1>1, <3>0
          <5> HIDE DEF old
          <5>3. j \in Len(old) + 1 .. Len(old) + Len(new)
            BY <2>10, <5>1, <5>2
          <5>4. (old \o new)[j] = new[j - Len(old)]
            BY <2>10, <5>2, <5>3, ConcatIdx
          <5>5. (old \o new)[j] = new[j - e + 1]
            BY <5>1, <5>2, <5>4
          <5> QED BY <2>3, <5>1, <5>5 DEF old
        <4>2. new[j - e + 1] = l[j].cmd
          BY <1>5, <2>7, <3>2, <4>1
        <4>3. l[j].hash = Hash(l[j].cmd)
          <5>1. HasVotes(r, l[j])
            BY <1>3, <2>9, <3>2 DEF FirstView, StatusHasVotes, Sound
          <5> QED BY <2>9, <3>2, <5>1 DEF HasVotes, Voted
        <4> HIDE DEF new
        <4> QED BY <2>5, <2>9, <3>2, <4>1, <4>2, <4>3
      <3> QED BY <1>5, <2>7, <3>1, <3>2
    <2>14. ExecutedByLog'
      <3>1. ASSUME NEW s \in Correct
            PROVE  /\ Len(executed'[s]) = execute'[s] - 1
                   /\ \A j \in 1 .. execute'[s] - 1 :
                         /\ log'[s][j].status = "Committed"
                         /\ log'[s][j].hash = Hash(executed'[s][j])
        <4>1. CASE s = r
          BY <2>3, <2>12, <2>13, <4>1
        <4>2. CASE s # r
          BY <1>2, <2>3, <4>2
        <4> QED BY <4>1, <4>2
      <3> QED BY <3>1 DEF ExecutedByLog
    <2> QED BY <1>3, <2>3, <2>4, <2>6, <2>8, <2>11, <2>14
  <1> QED BY <1>7, <1>8

-----------------------------------------------------------------------------
(* The inductive step *)

\* Storing a sound instance and broadcasting what it backs preserves FirstView.
LEMMA StorePreserves ==
  ASSUME FirstView, NEW r \in Correct, NEW i \in Indices, NEW x, Sound(r, i, x), store(r, i, x),
         NEW S \in SUBSET AgreementMessage, msgs' = msgs \cup S,
         \A m \in S : /\ m.from = r /\ m.index = i /\ m.hash = x.hash
                      /\ m.type # "Commit" => x.status \in Voted
                      /\ m.type = "Commit" => x.status \in {"Prepared", "Committed"},
         view' = view, viewChanging' = viewChanging,
         index' \in [Correct -> 0 .. MaxIndex],
         \A s \in Correct : index'[s] >= index[s],
         isPrimaryAtView(r, LeaderID) /\ x.status \in Voted => i <= index'[r],
         stepped' \in [Correct -> SUBSET (msgs \cup S)], panicked' \subseteq Correct,
         newViews' = newViews
  PROVE  FirstView'
  <1>1. /\ log' \in [Correct -> [Indices -> Instance]]
        /\ \A s \in Correct \ {r} : log'[s] = log[s]
        /\ \A j \in Indices : SameButCmd(log'[r][j], IF j = i THEN x ELSE log[r][j])
        /\ execute' \in [Correct -> 1 .. MaxIndex + 1]
        /\ executed' \in [Correct -> Seq(Commands)]
        /\ ExecutedByLog'
    BY StoreEffect
  <1>2. x \in Instance /\ x.view = LeaderID /\ HasVotes(r, x) /\ Backed(r, i, x)
    BY DEF Sound
  <1>3. log \in [Correct -> [Indices -> Instance]]
    BY DEF FirstView, TypeOK
  <1>4. \A j \in Indices \ {i} : SameButCmd(log'[r][j], log[r][j])
    BY <1>1
  <1>5. SameButCmd(log'[r][i], x)
    BY <1>1
  <1>6. TypeOK'
    BY <1>1 DEF FirstView, TypeOK
  <1>7. \A s \in Correct : \A j \in Indices : \A h :
          /\ Vouches(s, j, h) => Vouches(s, j, h)'
          /\ Certifies(s, j, h) => Certifies(s, j, h)'
    <2> SUFFICES ASSUME NEW s \in Correct, NEW j \in Indices, NEW h
                 PROVE  /\ Vouches(s, j, h) => Vouches(s, j, h)'
                        /\ Certifies(s, j, h) => Certifies(s, j, h)'
      OBVIOUS
    <2>1. CASE s # r
      BY <1>1, <2>1 DEF Vouches, Certifies
    <2>2. CASE s = r /\ j # i
      <3>1. log'[r][j].status = log[r][j].status /\ log'[r][j].hash = log[r][j].hash
        BY <1>3, <1>4, <2>2, DroppedFields
      <3> QED BY <2>2, <3>1 DEF Vouches, Certifies
    <2>3. CASE s = r /\ j = i
      <3>1. log'[r][i].status = x.status /\ log'[r][i].hash = x.hash
        BY <1>2, <1>5, DroppedFields
      <3>2. Grows(log[r][i], x)
        BY DEF Sound
      <3> QED BY <2>3, <3>1, <3>2 DEF Vouches, Certifies, Grows, Voted
    <2> QED BY <2>1, <2>2, <2>3
  <1>8. /\ x.status \in Voted => Vouches(r, i, x.hash)'
        /\ x.status \in {"Prepared", "Committed"} => Certifies(r, i, x.hash)'
    <2>1. log'[r][i].status = x.status /\ log'[r][i].hash = x.hash
      BY <1>2, <1>5, DroppedFields
    <2> QED BY <2>1 DEF Vouches, Certifies
  <1>9. OneView'
    <2>1. ASSUME NEW s \in Correct, NEW j \in Indices
          PROVE  log'[s][j].view = LeaderID
      <3>1. CASE s # r
        <4>1. log[s][j].view = LeaderID
          BY DEF FirstView, OneView
        <4> QED BY <1>1, <3>1, <4>1
      <3>2. CASE s = r /\ j # i
        <4>1. log[r][j].view = LeaderID
          BY DEF FirstView, OneView
        <4> QED BY <1>3, <1>4, <3>2, <4>1, DroppedFields
      <3>3. CASE s = r /\ j = i
        BY <1>2, <1>5, <3>3, DroppedFields
      <3> QED BY <3>1, <3>2, <3>3
    <2> QED BY <2>1 DEF FirstView, OneView
  <1>10. SentByState'
    <2>1. ASSUME NEW m \in msgs
          PROVE  /\ m.from \in Correct
                 /\ m.type # "Commit" => Vouches(m.from, m.index, m.hash)'
                 /\ m.type = "Commit" => Certifies(m.from, m.index, m.hash)'
      <3>1. m.index \in Indices
        BY DEF FirstView, TypeOK, AgreementMessage
      <3> QED BY <1>7, <3>1 DEF FirstView, SentByState
    <2>2. ASSUME NEW m \in S
          PROVE  /\ m.from \in Correct
                 /\ m.type # "Commit" => Vouches(m.from, m.index, m.hash)'
                 /\ m.type = "Commit" => Certifies(m.from, m.index, m.hash)'
      BY <1>8
    <2> QED BY <2>1, <2>2 DEF SentByState
  <1>11. VotesByState'
    <2>1. ASSUME NEW s \in Correct, NEW j \in Indices
          PROVE  /\ \A e \in log'[s][j].pCert : e.from \in Correct => Vouches(e.from, j, e.hash)'
                 /\ \A e \in log'[s][j].cCert : e.from \in Correct => Certifies(e.from, j, e.hash)'
      <3>1. CASE s # r \/ j # i
        <4>1. log'[s][j].pCert = log[s][j].pCert /\ log'[s][j].cCert = log[s][j].cCert
          <5>1. CASE s # r
            BY <1>1, <5>1
          <5>2. CASE s = r /\ j # i
            BY <1>3, <1>4, <5>2, DroppedFields
          <5> QED BY <3>1, <5>1, <5>2
        <4>2. /\ \A e \in log[s][j].pCert : e.from \in Correct => Vouches(e.from, j, e.hash)
              /\ \A e \in log[s][j].cCert : e.from \in Correct => Certifies(e.from, j, e.hash)
          BY DEF FirstView, VotesByState
        <4> QED BY <1>7, <4>1, <4>2
      <3>2. CASE s = r /\ j = i
        <4>1. log'[r][i].pCert = x.pCert /\ log'[r][i].cCert = x.cCert
          BY <1>2, <1>5, DroppedFields
        <4>2. /\ \A e \in x.pCert : e.from \in Correct => Vouches(e.from, i, e.hash)'
              /\ \A e \in x.cCert : e.from \in Correct => Certifies(e.from, i, e.hash)'
          BY <1>2, <1>7, <1>8 DEF Backed
        <4> QED BY <3>2, <4>1, <4>2
      <3> QED BY <3>1, <3>2
    <2> QED BY <2>1 DEF VotesByState
  <1>12. StatusHasVotes'
    <2>1. ASSUME NEW y \in Instance, NEW z, SameButCmd(z, y), HasVotes(r, y)
          PROVE  HasVotes(r, z)
      BY <2>1, DroppedFields DEF HasVotes
    <2>2. ASSUME NEW s \in Correct, NEW j \in Indices
          PROVE  HasVotes(s, log'[s][j])
      <3>1. CASE s # r
        BY <1>1, <3>1 DEF FirstView, StatusHasVotes
      <3>2. CASE s = r /\ j # i
        <4>1. HasVotes(r, log[r][j]) /\ log[r][j] \in Instance
          BY <1>3 DEF FirstView, StatusHasVotes
        <4> QED BY <1>4, <2>1, <3>2, <4>1
      <3>3. CASE s = r /\ j = i
        BY <1>2, <1>5, <2>1, <3>3
      <3> QED BY <3>1, <3>2, <3>3
    <2> QED BY <2>2 DEF StatusHasVotes, HasVotes, Majority, voters
  <1>13. ProposesAhead'
    <2> SUFFICES ASSUME NEW s \in Correct, isPrimaryAtView(s, LeaderID),
                        NEW j \in Indices, j > index'[s]
                 PROVE  log'[s][j].status \notin Voted
      BY DEF ProposesAhead
    <2>1. j > index[s]
      BY DEF FirstView, TypeOK, Indices
    <2>2. log[s][j].status \notin Voted
      BY <2>1 DEF FirstView, ProposesAhead
    <2>3. CASE s # r
      BY <1>1, <2>2, <2>3
    <2>4. CASE s = r /\ j # i
      BY <1>3, <1>4, <2>2, <2>4, DroppedFields
    <2>5. CASE s = r /\ j = i
      <3>1. x.status \notin Voted
        BY <2>5 DEF Indices
      <3> QED BY <1>2, <1>5, <2>5, <3>1, DroppedFields
    <2> QED BY <2>3, <2>4, <2>5
  <1> QED BY <1>1, <1>6, <1>9, <1>10, <1>11, <1>12, <1>13 DEF FirstView

\* The start satisfies the invariant.
LEMMA InitFirstView == Init => FirstView
  <1> SUFFICES ASSUME Init PROVE FirstView
    OBVIOUS
  <1>1. NoInstance \in Instance
    BY ConfigAssumption DEF NoInstance, Instance, Statuses
  <1>2. \A r \in Correct : \A i \in Indices :
          /\ log[r][i].status = "Absent" /\ log[r][i].view = LeaderID
          /\ log[r][i].pCert = {} /\ log[r][i].cCert = {}
    BY DEF Init, NoInstance
  <1>3. TypeOK
    BY <1>1, ConfigAssumption DEF Init, TypeOK
  <1>4. OneView /\ SentByState /\ VotesByState
    BY <1>2 DEF Init, OneView, SentByState, VotesByState
  <1>5. StatusHasVotes /\ ProposesAhead
    BY <1>2 DEF StatusHasVotes, HasVotes, ProposesAhead, Voted
  <1>6. ExecutedByLog
    BY DEF Init, ExecutedByLog
  <1> QED BY <1>3, <1>4, <1>5, <1>6 DEF FirstView

\* A replica that panics leaves everything but its own life as it was.
LEMMA PanicPreserves ==
  ASSUME FirstView, NEW r \in Correct, Panic(r), stepped' \in [Correct -> SUBSET msgs],
         newViews' = newViews
  PROVE  FirstView'
  <1>1. TypeOK'
    BY DEF FirstView, TypeOK, Panic
  <1>2. OneView' /\ SentByState' /\ VotesByState' /\ StatusHasVotes'
    BY DEF FirstView, Panic, OneView, SentByState, VotesByState, StatusHasVotes, Vouches, Certifies
  <1>3. ProposesAhead' /\ ExecutedByLog'
    BY DEF FirstView, Panic, ProposesAhead, ExecutedByLog
  <1> QED BY <1>1, <1>2, <1>3 DEF FirstView

\* A proposal of the primary: it overwrites no instance it has voted for.
LEMMA RequestPreserves ==
  ASSUME FirstView, NEW r \in Correct, NEW c \in Commands, onRequest(r, c)
  PROVE  FirstView'
  <1> DEFINE i == index[r] + 1
             x == [status |-> "PrePrepared", view |-> view[r], cmd |-> c, hash |-> Hash(c),
                   pCert |-> logVote({}, r, view[r], Hash(c)), cCert |-> {}]
             m == [type |-> "PrePrepare", from |-> r, view |-> view[r], index |-> i,
                   cmd |-> c, hash |-> Hash(c)]
             S == {m}
  <1>1. /\ isPrimaryAtView(r, LeaderID) /\ view[r] = LeaderID /\ LeaderID \in Views
        /\ index[r] < MaxIndex /\ index \in [Correct -> 0 .. MaxIndex] /\ MaxIndex \in Nat
    BY ConfigAssumption DEF onRequest, FirstView, OneView, TypeOK
  <1>2. i \in Indices /\ i > index[r]
    BY <1>1 DEF Indices
  <1>3. log[r][i].status \notin Voted
    BY <1>1, <1>2 DEF FirstView, ProposesAhead
  <1>4. Hash(c) \in Hashes /\ Hash(c) # Nil /\ r \in Replicas
    BY ConfigAssumption DEF Hashes, Correct
  <1>5. logVote({}, r, view[r], Hash(c)) = {[from |-> r, view |-> LeaderID, hash |-> Hash(c)]}
    BY <1>1 DEF logVote
  <1>6. /\ index' = [index EXCEPT ![r] = i] /\ log' = [log EXCEPT ![r][i] = x]
        /\ msgs' = msgs \cup S /\ view' = view /\ viewChanging' = viewChanging
        /\ execute' = execute /\ executed' = executed
        /\ stepped' = stepped /\ panicked' = panicked /\ newViews' = newViews
    BY DEF onRequest, broadcast, execVars
  <1>7. x \in Instance
    BY <1>1, <1>4, <1>5 DEF Instance, Statuses, Vote
  <1>8. Sound(r, i, x)
    <2>1. HasVotes(r, x)
      BY <1>4, <1>5 DEF HasVotes, Voted
    <2>2. Backed(r, i, x)
      BY <1>5 DEF Backed, Voted
    <2>3. Grows(log[r][i], x)
      BY <1>3 DEF Grows, Voted
    <2> QED BY <1>1, <1>7, <2>1, <2>2, <2>3 DEF Sound
  <1>9. store(r, i, x)
    BY <1>6 DEF store, execVars
  <1>10. S \in SUBSET AgreementMessage
    BY <1>1, <1>2, <1>4 DEF AgreementMessage
  <1>11. \A n \in S : /\ n.from = r /\ n.index = i /\ n.hash = x.hash
                      /\ n.type # "Commit" => x.status \in Voted
                      /\ n.type = "Commit" => x.status \in {"Prepared", "Committed"}
    BY DEF Voted
  <1>12. /\ index' \in [Correct -> 0 .. MaxIndex] /\ i <= index'[r]
         /\ \A s \in Correct : index'[s] >= index[s]
    BY <1>1, <1>2, <1>6
  <1>13. stepped' \in [Correct -> SUBSET (msgs \cup S)] /\ panicked' \subseteq Correct
    BY <1>6 DEF FirstView, TypeOK
  <1> HIDE DEF S, x, i
  <1>14. /\ msgs' = msgs \cup S /\ view' = view /\ viewChanging' = viewChanging
         /\ newViews' = newViews
         /\ isPrimaryAtView(r, LeaderID) /\ x.status \in Voted => i <= index'[r]
    BY <1>6, <1>12
  <1> QED BY <1>2, <1>8, <1>9, <1>10, <1>11, <1>12, <1>13, <1>14, StorePreserves

\* A handled message: the three handlers store a sound instance or panic.
LEMMA HandlePreserves ==
  ASSUME FirstView, NEW r \in Correct, NEW m, Genuine(r, m), handle(r, m),
         stepped' \in [Correct -> SUBSET msgs], newViews' = newViews
  PROVE  FirstView'
  <1> DEFINE i == m.index
             h == m.hash
  <1>1. /\ i \in Indices /\ h \in Hashes /\ r \in Replicas /\ LeaderID \in Views
        /\ m.view = LeaderID /\ view[r] = LeaderID
    BY ConfigAssumption DEF Genuine, AgreementMessage, Correct, FirstView, OneView
  <1>2. PrepareMsg(r, LeaderID, i, h) \in AgreementMessage /\ CommitMsg(r, LeaderID, i, h) \in AgreementMessage
    BY <1>1 DEF PrepareMsg, CommitMsg, AgreementMessage
  <1>3. /\ index \in [Correct -> 0 .. MaxIndex] /\ MaxIndex \in Nat
        /\ \A s \in Correct : index[s] >= index[s]
        /\ panicked \subseteq Correct
    BY ConfigAssumption DEF FirstView, TypeOK
  <1>4. \A S : stepped' \in [Correct -> SUBSET (msgs \cup S)]
    OBVIOUS
  <1>5. isPrimaryAtView(r, LeaderID) /\ log[r][i].status \in Voted => i <= index[r]
    BY <1>1, <1>3 DEF FirstView, ProposesAhead, Indices
  <1>6. CASE m.type = "PrePrepare" /\ onPrePrepare(r, m)
    <2>1. CASE PrePreparePanics(r, m)
      BY <1>6, <2>1, PanicPreserves DEF onPrePrepare
    <2>2. CASE ~PrePreparePanics(r, m)
      <3> DEFINE pp == prePrepared(r, log[r][i], m)
                 y == tryPrepare(r, pp, LeaderID, h)
                 S == {PrepareMsg(r, LeaderID, i, h)} \cup
                      (IF prepares(pp, LeaderID, h) THEN {CommitMsg(r, LeaderID, i, h)} ELSE {})
      <3>1. Sound(r, i, pp) /\ pp.hash = h /\ pp.status = "PrePrepared" /\ pp.view = LeaderID
        BY <1>6, <2>2, PrePreparedSound DEF Sound
      <3>2. /\ Sound(r, i, y) /\ y.hash = h /\ y.status \in Voted
            /\ prepares(pp, LeaderID, h) => y.status \in {"Prepared", "Committed"}
        <4> HIDE DEF pp
        <4> QED BY <1>1, <3>1, TryPrepareSound DEF Voted
      <3>3. store(r, i, y) /\ msgs' = msgs \cup S
        BY <1>6, <2>2, <3>1 DEF onPrePrepare, broadcast
      <3>4. /\ view' = view /\ viewChanging' = viewChanging /\ index' = index
            /\ panicked' = panicked
        BY <1>6, <2>2 DEF onPrePrepare, viewVars
      <3>5. ~isPrimaryAtView(r, LeaderID)
        BY <1>1, <1>6 DEF onPrePrepare, isPrimaryAtView, Genuine
      <3>6. S \in SUBSET AgreementMessage
        BY <1>2
      <3>7. \A n \in S : /\ n.from = r /\ n.index = i /\ n.hash = y.hash
                         /\ n.type # "Commit" => y.status \in Voted
                         /\ n.type = "Commit" => y.status \in {"Prepared", "Committed"}
        BY <3>2 DEF PrepareMsg, CommitMsg
      <3> HIDE DEF S, y, i
      <3> QED BY <1>1, <1>3, <1>4, <3>2, <3>3, <3>4, <3>5, <3>6, <3>7, StorePreserves
    <2> QED BY <2>1, <2>2
  <1>7. CASE m.type = "Prepare" /\ onPrepare(r, m)
    <2>1. CASE PreparePanics(r, m)
      BY <1>7, <2>1, PanicPreserves DEF onPrepare
    <2>2. CASE ~PreparePanics(r, m)
      <3> DEFINE x == withPrepare(log[r][i], m)
                 y == tryPrepare(r, x, LeaderID, h)
                 S == IF prepares(x, LeaderID, h) THEN {CommitMsg(r, LeaderID, i, h)} ELSE {}
      <3>0. hashAgrees(log[r][i], m)
        BY <2>2 DEF PreparePanics
      <3>1. Sound(r, i, x) /\ x.hash = h /\ (x.status \in Voted <=> log[r][i].status \in Voted)
        BY <1>7, <3>0, WithPrepareSound
      <3>2. /\ Sound(r, i, y) /\ y.hash = h /\ (y.status \in Voted <=> x.status \in Voted)
            /\ prepares(x, LeaderID, h) => y.status \in {"Prepared", "Committed"}
        <4> HIDE DEF x
        <4> QED BY <1>1, <3>1, TryPrepareSound
      <3>3. store(r, i, y) /\ msgs' = msgs \cup S
        BY <1>1, <1>7, <2>2 DEF onPrepare, broadcast
      <3>4. /\ view' = view /\ viewChanging' = viewChanging /\ index' = index
            /\ panicked' = panicked
        BY <1>7, <2>2 DEF onPrepare, viewVars
      <3>5. isPrimaryAtView(r, LeaderID) /\ y.status \in Voted => i <= index'[r]
        BY <1>5, <3>1, <3>2, <3>4
      <3>6. S \in SUBSET AgreementMessage
        BY <1>2
      <3>7. \A n \in S : /\ n.from = r /\ n.index = i /\ n.hash = y.hash
                         /\ n.type # "Commit" => y.status \in Voted
                         /\ n.type = "Commit" => y.status \in {"Prepared", "Committed"}
        BY <3>2 DEF CommitMsg
      <3> HIDE DEF S, y, i
      <3> QED BY <1>1, <1>3, <1>4, <3>2, <3>3, <3>4, <3>5, <3>6, <3>7, StorePreserves
    <2> QED BY <2>1, <2>2
  <1>8. CASE m.type = "Commit" /\ onCommit(r, m)
    <2>1. CASE ~hashAgrees(log[r][i], m) \/ ~canLog(log[r][i].cCert, m.from, m.view)
      BY <1>8, <2>1, PanicPreserves DEF onCommit
    <2>2. CASE ~(~hashAgrees(log[r][i], m) \/ ~canLog(log[r][i].cCert, m.from, m.view))
      <3> DEFINE x == withCommit(log[r][i], m)
                 y == tryCommit(x, LeaderID, h)
      <3>1. Sound(r, i, x) /\ x.hash = h /\ (x.status \in Voted <=> log[r][i].status \in Voted)
        BY <1>8, <2>2, WithCommitSound
      <3>2. Sound(r, i, y) /\ y.hash = h /\ (y.status \in Voted => x.status \in Voted)
        <4> HIDE DEF x
        <4> QED BY <1>1, <3>1, TryCommitSound
      <3>3. /\ store(r, i, y) /\ msgs' = msgs \cup {}
            /\ view' = view /\ viewChanging' = viewChanging /\ index' = index
            /\ panicked' = panicked
        BY <1>1, <1>8, <2>2 DEF onCommit, viewVars
      <3>4. isPrimaryAtView(r, LeaderID) /\ y.status \in Voted => i <= index'[r]
        BY <1>5, <3>1, <3>2, <3>3
      <3>5. \A n \in {} : /\ n.from = r /\ n.index = i /\ n.hash = y.hash
                          /\ n.type # "Commit" => y.status \in Voted
                          /\ n.type = "Commit" => y.status \in {"Prepared", "Committed"}
        OBVIOUS
      <3> HIDE DEF y, i
      <3>6. {} \in SUBSET AgreementMessage
        OBVIOUS
      <3> QED BY <1>1, <1>3, <1>4, <3>2, <3>3, <3>4, <3>5, <3>6, StorePreserves
    <2> QED BY <2>1, <2>2
  <1> QED BY <1>6, <1>7, <1>8 DEF handle

\* Every step of every replica preserves FirstView, but for a NewView.
LEMMA NextFirstView == FirstView /\ NoNewView' /\ [Next]_vars => FirstView'
  <1> SUFFICES ASSUME FirstView, NoNewView', [Next]_vars PROVE FirstView'
    OBVIOUS
  <1>1. CASE UNCHANGED vars
    <2>1. TypeOK'
      BY <1>1 DEF FirstView, TypeOK, vars
    <2>2. OneView' /\ SentByState' /\ VotesByState' /\ StatusHasVotes'
      BY <1>1 DEF FirstView, vars, OneView, SentByState, VotesByState, StatusHasVotes,
                  Vouches, Certifies
    <2>3. ProposesAhead' /\ ExecutedByLog'
      BY <1>1 DEF FirstView, vars, ProposesAhead, ExecutedByLog
    <2> QED BY <2>1, <2>2, <2>3 DEF FirstView
  <1>2. ASSUME NEW r \in Correct, NEW c \in Commands, onRequest(r, c)
        PROVE  FirstView'
    BY <1>2, RequestPreserves
  <1>3. ASSUME NEW r \in Correct, StepMessage(r)
        PROVE  FirstView'
    <2>1. PICK m \in msgs : /\ m.from # r /\ accepts(r, m) /\ handle(r, m)
                            /\ stepped' = [stepped EXCEPT ![r] = @ \cup {m}]
                            /\ newViews' = newViews
      BY <1>3 DEF StepMessage
    <2>2. Genuine(r, m)
      BY <2>1 DEF FirstView, TypeOK, SentByState, OneView, accepts, Genuine
    <2>3. stepped' \in [Correct -> SUBSET msgs]
      BY <2>1 DEF FirstView, TypeOK
    <2> QED BY <2>1, <2>2, <2>3, HandlePreserves
  <1>4. ASSUME NEW r \in Correct, StepFaulty(r)
        PROVE  FirstView'
    <2>1. PICK m \in AgreementMessage : /\ m.from \in Faulty /\ accepts(r, m) /\ handle(r, m)
                               /\ stepped' = stepped /\ newViews' = newViews
      BY <1>4 DEF StepFaulty
    <2>2. Genuine(r, m)
      BY <2>1 DEF FirstView, OneView, accepts, Genuine, Correct
    <2>3. stepped' \in [Correct -> SUBSET msgs]
      BY <2>1 DEF FirstView, TypeOK
    <2> QED BY <2>1, <2>2, <2>3, HandlePreserves
  <1>5. ASSUME NEW r \in Correct, StepNewView(r)
        PROVE  FirstView'
    BY <1>5 DEF StepNewView, NoNewView
  <1>6. ASSUME NEW r \in Correct, StepViewChange(r)
        PROVE  FirstView'
    BY <1>6, PanicPreserves DEF StepViewChange, FirstView, TypeOK
  <1> QED BY <1>1, <1>2, <1>3, <1>4, <1>5, <1>6 DEF Next

\* A replica that has applied a NewView stays one that has.
LEMMA NewViewsStay == [Next]_vars => newViews \subseteq newViews'
  BY DEF Next, vars, onRequest, StepMessage, StepFaulty, StepNewView, StepViewChange

\* The inductive step of the conditional invariant.
LEMMA NextInv == Inv /\ [Next]_vars => Inv'
  <1> SUFFICES ASSUME Inv, [Next]_vars, NoNewView' PROVE FirstView'
    BY DEF Inv
  <1>1. NoNewView
    BY NewViewsStay DEF NoNewView
  <1>2. FirstView
    BY <1>1 DEF Inv
  <1> QED BY <1>2, NextFirstView


-----------------------------------------------------------------------------
(* Theorems *)

\* Until a NewView of a faulty replica is applied, the messages and votes of
\* every correct replica agree with its instances, and every status with the
\* quorum it stands for, in every reachable state of the handlers.
THEOREM Invariant == Spec => []Inv
  <1>1. Init => Inv
    BY InitFirstView DEF Inv
  <1>2. Inv /\ [Next]_vars => Inv'
    BY NextInv
  <1> QED BY <1>1, <1>2, PTL DEF Spec

\* No two correct replicas commit different commands at one index, for any
\* number of peers with at most F faulty ones and N <= 3F+1, until one of them
\* applies a NewView of a faulty replica.
THEOREM Safety == Spec => []Agreement
  <1>1. Inv => Agreement
    BY InvAgreement DEF Inv, Agreement
  <1> QED BY <1>1, Invariant, PTL

\* Until then exec hands all correct replicas' appliers the same commands in the
\* same order.
THEOREM SameOrder == Spec => []PrefixOrder
  <1>1. Inv => PrefixOrder
    BY InvPrefixOrder DEF Inv, PrefixOrder
  <1> QED BY <1>1, Invariant, PTL

\* Until then, whatever a replica has committed, more than 2F - |Faulty| correct
\* replicas hold as prepared: enough for a view change to find it.
THEOREM CommitsSurvive == Spec => []CommitHasQuorum
  <1>1. Inv => CommitHasQuorum
    BY InvCommitHasQuorum DEF Inv, CommitHasQuorum
  <1> QED BY <1>1, Invariant, PTL

-----------------------------------------------------------------------------
(* Types, also after a NewView *)

\* A vote of a replica leaves a certificate one.
LEMMA LogVoteType ==
  ASSUME NEW C \in SUBSET Vote, NEW id \in Replicas, NEW v \in Views, NEW h \in Hashes
  PROVE  logVote(C, id, v, h) \in SUBSET Vote
  BY DEF logVote, Vote

\* The two halves of the handlers make an instance of an instance.
LEMMA TryType ==
  ASSUME NEW r \in Correct, NEW x \in Instance, x.hash \in Hashes, NEW v \in Views, NEW h
  PROVE  tryCommit(x, v, h) \in Instance /\ tryPrepare(r, x, v, h) \in Instance
  <1>1. \A y \in Instance : \A w, g : tryCommit(y, w, g) \in Instance
    BY DEF tryCommit, Instance, Statuses
  <1> DEFINE c == logVote(x.cCert, r, v, x.hash)
             p == [x EXCEPT !.status = "Prepared", !.cCert = c]
  <1>2. c \in SUBSET Vote
    BY LogVoteType DEF Instance, Correct
  <1>3. p \in Instance
    <2> HIDE DEF c
    <2> QED BY <1>2 DEF Instance, Statuses
  <1>4. tryPrepare(r, x, v, h) \in {x, tryCommit(p, v, x.hash)}
    BY DEF tryPrepare
  <1> HIDE DEF p
  <1> QED BY <1>1, <1>3, <1>4

\* So does what a message writes into one.
LEMMA WithType ==
  ASSUME NEW r \in Correct, NEW x \in Instance, NEW m \in AgreementMessage
  PROVE  /\ withPrepare(x, m) \in Instance /\ withPrepare(x, m).hash = m.hash
         /\ withCommit(x, m) \in Instance /\ withCommit(x, m).hash = m.hash
         /\ prePrepared(r, x, m) \in Instance /\ prePrepared(r, x, m).hash = m.hash
  <1> DEFINE y == withHash(x, m)
             p == logVote(y.pCert, m.from, m.view, m.hash)
             c == logVote(y.cCert, m.from, m.view, m.hash)
             q == logVote(p, r, y.view, m.hash)
  <1>1. /\ m.from \in Replicas /\ m.view \in Views /\ m.hash \in Hashes /\ r \in Replicas
        /\ m.cmd \in Commands \cup {Nil}
    BY DEF AgreementMessage, Correct
  <1>2. y \in Instance /\ y.hash = m.hash
    BY <1>1 DEF withHash, makeInstance, Instance, Statuses
  <1>3. /\ withPrepare(x, m) = [y EXCEPT !.pCert = p]
        /\ withCommit(x, m) = [y EXCEPT !.cCert = c]
    BY DEF withPrepare, withCommit
  <1>4. prePrepared(r, x, m) = [[y EXCEPT !.cmd = m.cmd] EXCEPT !.status = "PrePrepared", !.pCert = q]
    <2>1. y = [status |-> y.status, view |-> y.view, cmd |-> y.cmd, hash |-> y.hash,
               pCert |-> y.pCert, cCert |-> y.cCert]
      <3> HIDE DEF y
      <3> QED BY <1>2 DEF Instance
    <2> HIDE DEF y
    <2> QED BY <2>1 DEF prePrepared, y
  <1> HIDE DEF y
  <1>5. p \in SUBSET Vote /\ c \in SUBSET Vote
    BY <1>1, <1>2, LogVoteType DEF Instance
  <1>6. q \in SUBSET Vote
    <2> HIDE DEF p
    <2> QED BY <1>1, <1>2, <1>5, LogVoteType DEF Instance
  <1> HIDE DEF p, c, q
  <1> QED BY <1>1, <1>2, <1>3, <1>4, <1>5, <1>6 DEF Instance, Statuses

\* Storing an instance, and what exec does then, keeps the types.
LEMMA StoreType ==
  ASSUME TypeOK, NEW r \in Correct, NEW i \in Indices, NEW x \in Instance, store(r, i, x)
  PROVE  /\ log' \in [Correct -> [Indices -> Instance]]
         /\ execute' \in [Correct -> 1 .. MaxIndex + 1]
         /\ executed' \in [Correct -> Seq(Commands)]
  <1> DEFINE l == [log[r] EXCEPT ![i] = x]
             e == execute[r]
  <1>1. /\ log \in [Correct -> [Indices -> Instance]]
        /\ execute \in [Correct -> 1 .. MaxIndex + 1]
        /\ executed \in [Correct -> Seq(Commands)] /\ MaxIndex \in Nat
    BY ConfigAssumption DEF TypeOK
  <1>2. l \in [Indices -> Instance] /\ e \in 1 .. MaxIndex + 1
    BY <1>1
  <1>3. CASE log' = [log EXCEPT ![r][i] = x] /\ UNCHANGED execVars
    BY <1>1, <1>3 DEF execVars
  <1>4. CASE exec(r, l)
    <2> HIDE DEF l
    <2>1. PICK k \in e .. MaxIndex + 1 :
            /\ \A j \in e .. k - 1 : runnable(l[j])
            /\ execute' = [execute EXCEPT ![r] = k]
            /\ executed' = [executed EXCEPT ![r] =
                              @ \o [j \in 1 .. k - e |-> l[e + j - 1].cmd]]
            /\ log' = [log EXCEPT ![r] =
                         [j \in Indices |-> IF j \in e .. k - 1
                                            THEN [l[j] EXCEPT !.cmd = Nil] ELSE l[j]]]
      BY <1>4 DEF exec
    <2> DEFINE new == [j \in 1 .. k - e |-> l[e + j - 1].cmd]
               rest == [j \in Indices |-> IF j \in e .. k - 1
                                          THEN [l[j] EXCEPT !.cmd = Nil] ELSE l[j]]
    <2>2. k \in 1 .. MaxIndex + 1 /\ k - e \in Nat
      BY <1>1, <1>2, <2>1
    <2>3. rest \in [Indices -> Instance]
      BY <1>2 DEF Instance
    <2>4. \A j \in e .. k - 1 : j \in Indices /\ l[j].cmd \in Commands
      BY <1>1, <1>2, <2>1, <2>2 DEF Indices, runnable, Instance
    <2>5. new \in Seq(Commands)
      <3>1. \A j \in 1 .. k - e : e + j - 1 \in e .. k - 1
        BY <1>2, <2>2
      <3>2. new \in [1 .. k - e -> Commands]
        BY <2>4, <3>1
      <3> HIDE DEF new
      <3> QED BY <2>2, <3>2, FunctionIsSequence
    <2> HIDE DEF new, rest
    <2>6. executed[r] \o new \in Seq(Commands)
      BY <1>1, <2>5
    <2> QED BY <1>1, <2>1, <2>2, <2>3, <2>6 DEF new, rest
  <1> QED BY <1>3, <1>4 DEF store

\* So does every handler.
LEMMA HandleType ==
  ASSUME TypeOK, NEW r \in Correct, NEW m \in AgreementMessage, handle(r, m),
         stepped' \in [Correct -> SUBSET msgs], newViews' = newViews
  PROVE  TypeOK'
  <1> DEFINE i == m.index
             old == log[r][i]
  <1>1. /\ i \in Indices /\ m.hash \in Hashes /\ m.view \in Views /\ old \in Instance
        /\ r \in Replicas
    BY DEF AgreementMessage, TypeOK, Correct
  <1>2. \A v \in Views : PrepareMsg(r, v, i, m.hash) \in AgreementMessage
                         /\ CommitMsg(r, v, i, m.hash) \in AgreementMessage
    BY <1>1 DEF PrepareMsg, CommitMsg, AgreementMessage
  <1>3. CASE Panic(r)
    BY <1>3 DEF Panic, TypeOK
  <1>4. CASE ~Panic(r)
    <2>1. PICK x \in Instance, S \in SUBSET AgreementMessage :
            /\ store(r, i, x) /\ msgs' = msgs \cup S
            /\ view' = view /\ viewChanging' = viewChanging /\ index' = index
            /\ panicked' = panicked
      <3>1. CASE onPrePrepare(r, m)
        <4> DEFINE pp == prePrepared(r, old, m)
                   y == tryPrepare(r, pp, pp.view, m.hash)
                   S == {PrepareMsg(r, pp.view, i, m.hash)} \cup
                        (IF prepares(pp, pp.view, m.hash)
                         THEN {CommitMsg(r, pp.view, i, m.hash)} ELSE {})
        <4>1. /\ store(r, i, y) /\ msgs' = msgs \cup S
              /\ view' = view /\ viewChanging' = viewChanging /\ index' = index
              /\ panicked' = panicked
          BY <1>4, <3>1 DEF onPrePrepare, broadcast, viewVars
        <4>2. pp \in Instance /\ pp.hash = m.hash
          BY <1>1, WithType
        <4> HIDE DEF pp, old
        <4>3. y \in Instance /\ pp.view \in Views
          BY <1>1, <4>2, TryType DEF Instance
        <4>4. S \in SUBSET AgreementMessage
          BY <1>2, <4>3
        <4> HIDE DEF y, S
        <4> QED BY <4>1, <4>3, <4>4
      <3>2. CASE onPrepare(r, m)
        <4> DEFINE x == withPrepare(old, m)
                   y == tryPrepare(r, x, m.view, m.hash)
                   S == IF prepares(x, m.view, m.hash)
                        THEN {CommitMsg(r, m.view, i, m.hash)} ELSE {}
        <4>1. /\ store(r, i, y) /\ msgs' = msgs \cup S
              /\ view' = view /\ viewChanging' = viewChanging /\ index' = index
              /\ panicked' = panicked
          BY <1>4, <3>2 DEF onPrepare, broadcast, viewVars
        <4>2. x \in Instance /\ x.hash = m.hash
          BY <1>1, WithType
        <4> HIDE DEF x, old
        <4>3. y \in Instance
          BY <1>1, <4>2, TryType
        <4>4. S \in SUBSET AgreementMessage
          BY <1>1, <1>2
        <4> HIDE DEF y, S
        <4> QED BY <4>1, <4>3, <4>4
      <3>3. CASE onCommit(r, m)
        <4> DEFINE x == withCommit(old, m)
                   y == tryCommit(x, m.view, m.hash)
        <4>1. /\ store(r, i, y) /\ msgs' = msgs \cup {}
              /\ view' = view /\ viewChanging' = viewChanging /\ index' = index
              /\ panicked' = panicked
          BY <1>4, <3>3 DEF onCommit, viewVars
        <4>2. x \in Instance /\ x.hash = m.hash
          BY <1>1, WithType
        <4> HIDE DEF x, old
        <4>3. y \in Instance
          BY <1>1, <4>2, TryType
        <4>4. {} \in SUBSET AgreementMessage
          OBVIOUS
        <4> HIDE DEF y
        <4> QED BY <4>1, <4>3, <4>4
      <3> QED BY <3>1, <3>2, <3>3 DEF handle
    <2>2. /\ log' \in [Correct -> [Indices -> Instance]]
          /\ execute' \in [Correct -> 1 .. MaxIndex + 1]
          /\ executed' \in [Correct -> Seq(Commands)]
      BY <1>1, <2>1, StoreType
    <2> QED BY <2>1, <2>2 DEF TypeOK
  <1> QED BY <1>3, <1>4

\* A NewView writes instances and prepare votes of its view.
LEMMA NewViewType ==
  ASSUME TypeOK, NEW r \in Correct, StepNewView(r)
  PROVE  TypeOK'
  <1>1. PICK from \in Faulty, v \in Views, cmds \in [Indices -> Commands \cup {Nil}] :
          LET ppm(i) == [type |-> "PrePrepare", from |-> from, view |-> v, index |-> i,
                         cmd |-> cmds[i], hash |-> Hash(cmds[i])]
          IN  /\ view' = [view EXCEPT ![r] = v]
              /\ viewChanging' = [viewChanging EXCEPT ![r] = FALSE]
              /\ log' = [log EXCEPT ![r] =
                            [i \in Indices |-> IF cmds[i] = Nil THEN log[r][i]
                                               ELSE prePrepared(r, makeInstance(ppm(i)), ppm(i))]]
              /\ msgs' = msgs \cup {PrepareMsg(r, v, i, Hash(cmds[i])) :
                                      i \in {j \in Indices : cmds[j] # Nil}}
    BY DEF StepNewView, broadcast
  <1> DEFINE ppm(i) == [type |-> "PrePrepare", from |-> from, view |-> v, index |-> i,
                        cmd |-> cmds[i], hash |-> Hash(cmds[i])]
             new == [i \in Indices |-> IF cmds[i] = Nil THEN log[r][i]
                                       ELSE prePrepared(r, makeInstance(ppm(i)), ppm(i))]
             S == {PrepareMsg(r, v, i, Hash(cmds[i])) : i \in {j \in Indices : cmds[j] # Nil}}
  <1>2. /\ newViews' = newViews \cup {r} /\ index' = index /\ execute' = execute
        /\ executed' = executed /\ stepped' = stepped /\ panicked' = panicked
    BY DEF StepNewView, execVars
  <1>3. from \in Replicas /\ r \in Replicas
    BY ConfigAssumption DEF Correct
  <1>4. \A i \in Indices : cmds[i] # Nil =>
          /\ cmds[i] \in Commands /\ Hash(cmds[i]) \in Hashes
          /\ ppm(i) \in AgreementMessage /\ makeInstance(ppm(i)) \in Instance
    BY <1>3 DEF Hashes, AgreementMessage, makeInstance, Instance, Statuses
  <1>5. new \in [Indices -> Instance]
    <2> SUFFICES ASSUME NEW i \in Indices PROVE new[i] \in Instance
      OBVIOUS
    <2>1. CASE cmds[i] = Nil
      BY <2>1 DEF TypeOK
    <2>2. CASE cmds[i] # Nil
      <3>1. ppm(i) \in AgreementMessage /\ makeInstance(ppm(i)) \in Instance
        BY <1>4, <2>2
      <3>2. new[i] = prePrepared(r, makeInstance(ppm(i)), ppm(i))
        BY <2>2
      <3> HIDE DEF ppm, new
      <3> QED BY <3>1, <3>2, WithType
    <2> QED BY <2>1, <2>2
  <1>6. S \subseteq AgreementMessage
    <2>1. \A h \in Hashes, i \in Indices : PrepareMsg(r, v, i, h) \in AgreementMessage
      BY <1>3 DEF PrepareMsg, AgreementMessage
    <2> QED BY <1>4, <2>1
  <1>7. log' = [log EXCEPT ![r] = new] /\ msgs' = msgs \cup S
    BY <1>1
  <1> HIDE DEF new, S
  <1>8. log' \in [Correct -> [Indices -> Instance]] /\ msgs' \subseteq AgreementMessage
    BY <1>5, <1>6, <1>7 DEF TypeOK
  <1>9. view' \in [Correct -> Views] /\ viewChanging' \in [Correct -> BOOLEAN]
    BY <1>1 DEF TypeOK
  <1> QED BY <1>2, <1>7, <1>8, <1>9 DEF TypeOK

\* Every step keeps the types.
LEMMA NextType == TypeOK /\ [Next]_vars => TypeOK'
  <1> SUFFICES ASSUME TypeOK, [Next]_vars PROVE TypeOK'
    OBVIOUS
  <1>1. CASE UNCHANGED vars
    BY <1>1 DEF TypeOK, vars
  <1>2. ASSUME NEW r \in Correct, NEW c \in Commands, onRequest(r, c)
        PROVE  TypeOK'
    <2> DEFINE i == index[r] + 1
               x == [status |-> "PrePrepared", view |-> view[r], cmd |-> c, hash |-> Hash(c),
                     pCert |-> logVote({}, r, view[r], Hash(c)), cCert |-> {}]
               m == [type |-> "PrePrepare", from |-> r, view |-> view[r], index |-> i,
                     cmd |-> c, hash |-> Hash(c)]
    <2>1. /\ i \in Indices /\ i \in 0 .. MaxIndex /\ view[r] \in Views
          /\ r \in Replicas /\ Hash(c) \in Hashes
      BY <1>2, ConfigAssumption DEF onRequest, TypeOK, Indices, Correct, Hashes
    <2>2. x \in Instance
      BY <2>1 DEF logVote, Vote, Instance, Statuses
    <2>3. m \in AgreementMessage
      BY <2>1 DEF AgreementMessage
    <2>4. /\ index' = [index EXCEPT ![r] = i] /\ log' = [log EXCEPT ![r][i] = x]
          /\ msgs' = msgs \cup {m} /\ view' = view /\ viewChanging' = viewChanging
          /\ execute' = execute /\ executed' = executed
          /\ stepped' = stepped /\ panicked' = panicked /\ newViews' = newViews
      BY <1>2 DEF onRequest, broadcast, execVars
    <2> HIDE DEF x, m, i
    <2> QED BY <2>1, <2>2, <2>3, <2>4 DEF TypeOK
  <1>3. ASSUME NEW r \in Correct, StepMessage(r)
        PROVE  TypeOK'
    <2>1. PICK m \in msgs : /\ handle(r, m) /\ newViews' = newViews
                            /\ stepped' = [stepped EXCEPT ![r] = @ \cup {m}]
      BY <1>3 DEF StepMessage
    <2>2. m \in AgreementMessage /\ stepped' \in [Correct -> SUBSET msgs]
      BY <2>1 DEF TypeOK
    <2> QED BY <2>1, <2>2, HandleType
  <1>4. ASSUME NEW r \in Correct, StepFaulty(r)
        PROVE  TypeOK'
    <2>1. PICK m \in AgreementMessage : handle(r, m) /\ newViews' = newViews /\ stepped' = stepped
      BY <1>4 DEF StepFaulty
    <2>2. stepped' \in [Correct -> SUBSET msgs]
      BY <2>1 DEF TypeOK
    <2> QED BY <2>1, <2>2, HandleType
  <1>5. ASSUME NEW r \in Correct, StepNewView(r)
        PROVE  TypeOK'
    BY <1>5, NewViewType
  <1>6. ASSUME NEW r \in Correct, StepViewChange(r)
        PROVE  TypeOK'
    BY <1>6 DEF StepViewChange, Panic, TypeOK
  <1> QED BY <1>1, <1>2, <1>3, <1>4, <1>5, <1>6 DEF Next

\* The variables of PBFT keep their types, certificates included, also after the
\* NewView of a faulty replica.
THEOREM TypeCorrect == Spec => []TypeOK
  <1>1. Init => TypeOK
    BY InitFirstView DEF FirstView
  <1>2. TypeOK /\ [Next]_vars => TypeOK'
    BY NextType
  <1> QED BY <1>1, <1>2, PTL DEF Spec

-----------------------------------------------------------------------------
(* Refinement of TotalOrder *)

\* At most the log of r has changed, and it has grown.
GrowsAt(r) ==
    /\ \A s \in Correct \ {r} : executed'[s] = executed[s]
    /\ Len(executed[r]) <= Len(executed'[r]) /\ Compatible(executed[r], executed'[r])

\* A replica that runs nothing keeps its executed commands.
LEMMA SameGrows ==
  ASSUME FirstView, NEW r \in Correct, executed' = executed
  PROVE  GrowsAt(r)
  <1>1. Len(executed[r]) \in Nat
    BY LenProperties DEF FirstView, TypeOK
  <1> QED BY <1>1 DEF GrowsAt, Compatible

\* exec appends to the executed commands of the replica that runs it.
LEMMA ExecGrows ==
  ASSUME FirstView, NEW r \in Correct, NEW l, exec(r, l)
  PROVE  GrowsAt(r)
  <1> DEFINE e == execute[r]
  <1>1. PICK k \in e .. MaxIndex + 1 :
          executed' = [executed EXCEPT ![r] = @ \o [j \in 1 .. k - e |-> l[e + j - 1].cmd]]
    BY DEF exec
  <1>2. executed \in [Correct -> Seq(Commands)] /\ e \in Nat /\ k - e \in Nat
    BY <1>1, ConfigAssumption DEF FirstView, TypeOK
  <1> DEFINE new == [j \in 1 .. k - e |-> l[e + j - 1].cmd]
             S == Commands \cup {l[e + j - 1].cmd : j \in 1 .. k - e}
  <1>3. new \in Seq(S) /\ Len(new) \in Nat
    <2>1. new \in [1 .. k - e -> S]
      OBVIOUS
    <2> HIDE DEF new, S
    <2> QED BY <1>2, <2>1, FunctionIsSequence
  <1>4. executed[r] \in Seq(S) /\ Len(executed[r]) \in Nat
    <2>1. executed[r] \in Seq(Commands) /\ Commands \subseteq S
      BY <1>2
    <2> HIDE DEF S
    <2> QED BY <2>1, SeqMonotonic, LenProperties
  <1>5. executed'[r] = executed[r] \o new /\ \A s \in Correct \ {r} : executed'[s] = executed[s]
    BY <1>1, <1>2
  <1> HIDE DEF new, S
  <1>6. /\ Len(executed'[r]) = Len(executed[r]) + Len(new)
        /\ \A i \in 1 .. Len(executed[r]) : executed'[r][i] = executed[r][i]
    BY <1>3, <1>4, <1>5, ConcatProperties
  <1> QED BY <1>3, <1>4, <1>5, <1>6 DEF GrowsAt, Compatible

\* store runs exec or leaves the executed commands alone.
LEMMA StoreGrows ==
  ASSUME FirstView, NEW r \in Correct, NEW i, NEW x, store(r, i, x)
  PROVE  GrowsAt(r)
  BY ExecGrows, SameGrows DEF store, execVars

\* So does every handler.
LEMMA HandleGrows ==
  ASSUME FirstView, NEW r \in Correct, NEW m, handle(r, m)
  PROVE  GrowsAt(r)
  <1>1. CASE Panic(r)
    BY <1>1, SameGrows DEF Panic
  <1>2. CASE ~Panic(r)
    <2>1. \E i, x : store(r, i, x)
      BY <1>2 DEF handle, onPrePrepare, onPrepare, onCommit
    <2> QED BY <2>1, StoreGrows
  <1> QED BY <1>1, <1>2

\* A step lets the executed commands of at most one replica grow.
LEMMA NextGrows ==
  ASSUME FirstView, Next
  PROVE  \E r \in Correct : GrowsAt(r)
  <1>1. PICK r \in Correct : \/ \E c \in Commands : onRequest(r, c)
                             \/ StepMessage(r) \/ StepFaulty(r)
                             \/ StepNewView(r) \/ StepViewChange(r)
    BY DEF Next
  <1>2. CASE \E c \in Commands : onRequest(r, c)
    BY <1>2, SameGrows DEF onRequest, execVars
  <1>3. CASE StepMessage(r)
    BY <1>3, HandleGrows DEF StepMessage
  <1>4. CASE StepFaulty(r)
    BY <1>4, HandleGrows DEF StepFaulty
  <1>5. CASE StepNewView(r) \/ StepViewChange(r)
    BY <1>5, SameGrows DEF StepNewView, StepViewChange, Panic, execVars
  <1> QED BY <1>1, <1>2, <1>3, <1>4, <1>5

\* Of the correct replicas one has executed most.
LEMMA CorrectHasLongest ==
  ASSUME Correct # {}, NEW d \in [Correct -> Seq(Commands)]
  PROVE  LET p == CHOOSE r \in Correct : \A s \in Correct : Len(d[s]) <= Len(d[r])
         IN  p \in Correct /\ Longest(d, Correct, p)
  <1>1. IsFiniteSet(Correct)
    BY ReplicasFinite, FS_Subset DEF Correct
  <1>2. \E q \in Correct : Longest(d, Correct, q)
    BY <1>1, LongestExists
  <1> QED BY <1>2 DEF Longest

\* A step of the protocol is a step of the total order or leaves it unchanged.
LEMMA NextRefines ==
  ASSUME Correct # {}, FirstView, FirstView', NoNewView, NoNewView', [Next]_vars
  PROVE  [Abstract!Next]_(Abstract!vars)
  <1>1. CASE executed' = executed
    BY <1>1 DEF Abstract!vars, LongestExecuted
  <1>2. CASE executed' # executed
    <2> DEFINE p == CHOOSE r \in Correct : \A s \in Correct : Len(executed[s]) <= Len(executed[r])
               q == CHOOSE r \in Correct : \A s \in Correct : Len(executed'[s]) <= Len(executed'[r])
    <2>1. executed \in [Correct -> Seq(Commands)] /\ executed' \in [Correct -> Seq(Commands)]
      BY DEF FirstView, TypeOK
    <2>2. PICK r \in Correct : GrowsAt(r)
      BY <1>2, NextGrows DEF vars
    <2>3. /\ \A s, t \in Correct : Compatible(executed[s], executed[t])
          /\ \A s, t \in Correct : Compatible(executed'[s], executed'[t])
      <3>1. PrefixOrder /\ PrefixOrder'
        <4>1. PrefixOrder
          BY InvPrefixOrder
        <4>2. PrefixOrder'
          BY InvPrefixOrder, PTL
        <4> QED BY <4>1, <4>2
      <3> QED BY <3>1 DEF PrefixOrder, Compatible, NoNewView
    <2>4. /\ p \in Correct /\ Longest(executed, Correct, p)
          /\ q \in Correct /\ Longest(executed', Correct, q)
      BY <2>1, CorrectHasLongest
    <2>5. LongestExecuted = executed[p] /\ LongestExecuted' = executed'[q]
      BY DEF LongestExecuted
    <2> HIDE DEF p, q
    <2>6. /\ Abstract!Prefix(executed'[r], executed'[q])
          /\ Abstract!Prefix(executed[p], executed'[q])
          /\ executed'[q] \in {executed[p], executed'[r]}
      BY <2>1, <2>2, <2>3, <2>4, LongestGrows DEF GrowsAt, Abstract!Prefix
    <2>7. /\ Abstract!Prefix(executed[r], executed'[r])
          /\ \A s \in Correct \ {r} : executed'[s] = executed[s]
      <3>1. Len(executed[r]) \in Nat /\ Len(executed'[r]) \in Nat
        BY <2>1, LenProperties
      <3> QED BY <2>2, <3>1 DEF GrowsAt, Abstract!Prefix, Compatible
    <2>8. executed'[r] \in Seq(Commands) \ {executed[r]}
      BY <1>2, <2>1, <2>7
    <2>9. Abstract!Deliver(r)
      BY <2>5, <2>6, <2>7, <2>8 DEF Abstract!Deliver
    <2> QED BY <2>9 DEF Abstract!Next
  <1> QED BY <1>1, <1>2

\* PBFT implements TotalOrder, whatever agreement messages the faulty replicas
\* send, in every behaviour in which no correct replica applies a NewView of a
\* faulty one: every step of the handlers delivers more of the one order at one
\* replica, or nothing.
THEOREM Refinement == Correct # {} => (Spec /\ []NoNewView => ImplementsTotalOrder)
  <1> SUFFICES ASSUME Correct # {} PROVE Spec /\ []NoNewView => ImplementsTotalOrder
    OBVIOUS
  <1>1. Init => Abstract!Init
    <2> SUFFICES ASSUME Init PROVE Abstract!Init
      OBVIOUS
    <2>1. executed = [r \in Correct |-> << >>]
      BY DEF Init
    <2>2. executed \in [Correct -> Seq(Commands)]
      BY <2>1
    <2>3. LongestExecuted = << >>
      BY <2>1, <2>2, CorrectHasLongest DEF LongestExecuted
    <2> QED BY <2>1, <2>3 DEF Abstract!Init
  <1>2. Inv /\ Inv' /\ NoNewView /\ NoNewView' /\ [Next]_vars
          => [Abstract!Next]_(Abstract!vars)
    BY NextRefines DEF Inv
  <1> QED BY <1>1, <1>2, Invariant, PTL DEF Spec, ImplementsTotalOrder, Abstract!Spec

\* When the faulty replicas only crash, nobody applies a NewView and PBFT
\* implements TotalOrder without a proviso.
THEOREM CrashRefinement == Correct # {} => (CrashSpec => ImplementsTotalOrder)
  <1>1. Init => NoNewView
    BY DEF Init, NoNewView
  <1>2. NoNewView /\ [CrashNext]_vars => NoNewView'
    BY DEF CrashNext, vars, NoNewView, onRequest, StepMessage
  <1>3. [CrashNext]_vars => [Next]_vars
    BY DEF CrashNext, Next
  <1>4. CrashSpec => Spec /\ []NoNewView
    BY <1>1, <1>2, <1>3, PTL DEF CrashSpec, Spec
  <1> QED BY <1>4, Refinement

-----------------------------------------------------------------------------
(* No panic when replicas only crash *)

\* What a handler of m may make of the instance r has for the index of m.
Follows(r, m, y) ==
    LET old == log[r][m.index]
    IN  /\ y.hash = m.hash
        /\ y.cmd \in {Nil, m.cmd} \/ (old.status # "Absent" /\ y.cmd = old.cmd)
        /\ y.status \in Voted => old.status \in Voted \/ m.type = "PrePrepare"
        /\ \A e \in y.pCert :
              \/ e \in old.pCert
              \/ e.view = LeaderID /\ \/ e.from = r /\ y.status \in Voted
                                      \/ e.from = m.from /\ m.type # "Commit"
        /\ \A e \in y.cCert :
              \/ e \in old.cCert
              \/ e.view = LeaderID /\ \/ e.from = r /\ y.status \in {"Prepared", "Committed"}
                                      \/ e.from = m.from /\ m.type = "Commit"

\* The messages that a handler of m may broadcast: votes r has not sent yet.
MaySend(r, m, S) ==
    /\ \A n \in S : /\ n.from = r /\ n.index = m.index /\ n.hash = m.hash
                    /\ n.cmd = Nil /\ n.view = LeaderID
                    /\ \/ /\ n.type = "Prepare" /\ ~isPrimaryAtView(r, LeaderID)
                          /\ log[r][m.index].status \notin Voted
                       \/ /\ n.type = "Commit"
                          /\ log[r][m.index].status \notin {"Prepared", "Committed"}
    /\ \A n, k \in S : n.type = k.type => n = k

\* There is one proposal for an index.
LEMMA OneProposal ==
  ASSUME CrashInv, NEW p \in msgs, NEW q \in msgs, p.type = "PrePrepare",
         q.type = "PrePrepare", p.index = q.index
  PROVE  p = q
  BY DEF CrashInv, OneOfAKind, SentAfterProposal, isPrimaryAtView

\* A handler that stores such an instance preserves the invariant.
LEMMA CrashStore ==
  ASSUME CrashInv, FirstView', NoNewView', NEW r \in Correct, NEW m \in msgs, m.from # r,
         NEW y, Sound(r, m.index, y), Follows(r, m, y), store(r, m.index, y),
         NEW S, msgs' = msgs \cup S, index' = index, panicked' = panicked,
         stepped' = [stepped EXCEPT ![r] = @ \cup {m}],
         MaySend(r, m, S)
  PROVE  CrashInv'
  <1> DEFINE i == m.index
             old == log[r][i]
  <1>1. /\ FirstView /\ i \in Indices /\ m \in AgreementMessage /\ stepped \in [Correct -> SUBSET msgs]
        /\ log \in [Correct -> [Indices -> Instance]]
    BY DEF CrashInv, FirstView, TypeOK, AgreementMessage
  <1>2. /\ \A s \in Correct \ {r} : log'[s] = log[s]
        /\ \A j \in Indices : SameButCmd(log'[r][j], IF j = i THEN y ELSE log[r][j])
    BY <1>1, StoreEffect
  <1>3. ASSUME NEW j \in Indices \ {i}
        PROVE  /\ log'[r][j].status = log[r][j].status /\ log'[r][j].hash = log[r][j].hash
               /\ log'[r][j].pCert = log[r][j].pCert /\ log'[r][j].cCert = log[r][j].cCert
               /\ log'[r][j].cmd \in {log[r][j].cmd, Nil}
    <2>1. log[r][j] \in Instance /\ SameButCmd(log'[r][j], log[r][j])
      BY <1>1, <1>2
    <2> QED BY <2>1, DroppedFields
  <1>4. /\ log'[r][i].status = y.status /\ log'[r][i].hash = y.hash
        /\ log'[r][i].pCert = y.pCert /\ log'[r][i].cCert = y.cCert
        /\ log'[r][i].cmd \in {y.cmd, Nil} /\ y.status # "Absent" /\ Grows(old, y)
    <2>1. y \in Instance /\ SameButCmd(log'[r][i], y)
      BY <1>1, <1>2 DEF Sound
    <2> QED BY <2>1, DroppedFields DEF Sound
  <1>5. stepped'[r] = stepped[r] \cup {m} /\ \A s \in Correct \ {r} : stepped'[s] = stepped[s]
    BY <1>1
  <1>6. PICK p \in msgs : Proposal(p, i, m.hash)
    BY DEF CrashInv, SentAfterProposal
  <1>7. OneOfAKind'
    <2> SUFFICES ASSUME NEW a \in msgs', NEW b \in msgs', a.type = b.type,
                        a.from = b.from, a.index = b.index
                 PROVE  a = b
      BY DEF OneOfAKind
    <2>1. ASSUME NEW n \in msgs, NEW k \in S, n.type = k.type, n.from = k.from, n.index = k.index
          PROVE  FALSE
      BY <2>1 DEF CrashInv, FirstView, SentByState, Vouches, Certifies, MaySend
    <2> QED BY <2>1 DEF CrashInv, OneOfAKind, MaySend
  <1>8. SentAfterProposal'
    <2>1. ASSUME NEW n \in msgs', n.type # "PrePrepare"
          PROVE  /\ n.type = "Prepare" => ~isPrimaryAtView(n.from, LeaderID)
                 /\ n.cmd = Nil
      BY <2>1 DEF CrashInv, SentAfterProposal, MaySend
    <2>2. ASSUME NEW n \in msgs', n.type = "PrePrepare"
          PROVE  /\ isPrimaryAtView(n.from, LeaderID) /\ n.index <= index'[n.from]
                 /\ n.cmd \in Commands /\ n.hash = Hash(n.cmd)
      BY <2>2 DEF CrashInv, SentAfterProposal, MaySend
    <2>3. \A n \in msgs' : /\ \E q \in msgs' : Proposal(q, n.index, n.hash)
                           /\ n.view = LeaderID
      BY <1>6 DEF CrashInv, SentAfterProposal, MaySend
    <2> QED BY <2>1, <2>2, <2>3 DEF SentAfterProposal
  <1>9. HoldsProposal'
    <2> SUFFICES ASSUME NEW s \in Correct, NEW j \in Indices
                 PROVE  IF log'[s][j].status = "Absent"
                        THEN log'[s][j].pCert = {} /\ log'[s][j].cCert = {}
                        ELSE \E q \in msgs' : /\ Proposal(q, j, log'[s][j].hash)
                                              /\ log'[s][j].cmd \in {Nil, q.cmd}
      BY DEF HoldsProposal
    <2>1. CASE s # r
      BY <1>2, <2>1 DEF CrashInv, HoldsProposal
    <2>2. CASE s = r /\ j # i
      BY <1>3, <2>2 DEF CrashInv, HoldsProposal
    <2>3. CASE s = r /\ j = i
      <3>1. y.cmd \in {Nil, p.cmd}
        <4>1. CASE y.cmd \in {Nil, m.cmd}
          <5>1. m.type = "PrePrepare" => m = p
            BY <1>6, OneProposal DEF Proposal
          <5>2. m.type # "PrePrepare" => m.cmd = Nil
            BY DEF CrashInv, SentAfterProposal
          <5> QED BY <4>1, <5>1, <5>2
        <4>2. CASE old.status # "Absent" /\ y.cmd = old.cmd
          <5>1. PICK q \in msgs : Proposal(q, i, old.hash) /\ old.cmd \in {Nil, q.cmd}
            BY <1>1, <4>2 DEF CrashInv, HoldsProposal
          <5>2. p = q
            BY <1>6, <5>1, OneProposal DEF Proposal
          <5> QED BY <4>2, <5>1, <5>2
        <4> QED BY <4>1, <4>2 DEF Follows
      <3>2. y.hash = m.hash
        BY DEF Follows
      <3> QED BY <1>4, <1>6, <2>3, <3>1, <3>2
    <2> QED BY <2>1, <2>2, <2>3
  <1>10. VotesStepped'
    <2> SUFFICES ASSUME NEW s \in Correct, NEW j \in Indices
                 PROVE  /\ \A e \in log'[s][j].pCert :
                              /\ e.view = LeaderID
                              /\ IF e.from = s THEN log'[s][j].status \in Voted
                                 ELSE \E n \in stepped'[s] : /\ n.type # "Commit"
                                                             /\ n.from = e.from /\ n.index = j
                        /\ \A e \in log'[s][j].cCert :
                              /\ e.view = LeaderID
                              /\ IF e.from = s
                                 THEN log'[s][j].status \in {"Prepared", "Committed"}
                                 ELSE \E n \in stepped'[s] : /\ n.type = "Commit"
                                                             /\ n.from = e.from /\ n.index = j
      BY DEF VotesStepped
    <2>1. CASE s # r
      BY <1>2, <1>5, <2>1 DEF CrashInv, VotesStepped
    <2>2. CASE s = r /\ j # i
      <3>1. stepped[r] \subseteq stepped'[r]
        BY <1>5
      <3> QED BY <1>3, <2>2, <3>1 DEF CrashInv, VotesStepped
    <2>3. CASE s = r /\ j = i
      <3>1. ASSUME NEW e \in y.pCert
            PROVE  /\ e.view = LeaderID
                   /\ IF e.from = r THEN y.status \in Voted
                      ELSE \E n \in stepped'[r] : n.type # "Commit" /\ n.from = e.from /\ n.index = i
        <4>1. CASE e \in old.pCert
          <5>1. /\ e.view = LeaderID
                /\ IF e.from = r THEN old.status \in Voted
                   ELSE \E n \in stepped[r] : n.type # "Commit" /\ n.from = e.from /\ n.index = i
            <6>1. VotesStepped /\ i \in Indices
              BY <1>1 DEF CrashInv
            <6> HIDE DEF i
            <6> QED BY <4>1, <6>1 DEF VotesStepped
          <5>2. old.status \in Voted => y.status \in Voted
            BY <1>4 DEF Grows
          <5> QED BY <1>5, <5>1, <5>2
        <4>2. CASE e \notin old.pCert
          <5>1. /\ e.view = LeaderID
                /\ \/ e.from = r /\ y.status \in Voted
                   \/ e.from = m.from /\ m.type # "Commit"
            BY <3>1, <4>2 DEF Follows
          <5> QED BY <1>5, <5>1
        <4> QED BY <4>1, <4>2
      <3>2. ASSUME NEW e \in y.cCert
            PROVE  /\ e.view = LeaderID
                   /\ IF e.from = r THEN y.status \in {"Prepared", "Committed"}
                      ELSE \E n \in stepped'[r] : n.type = "Commit" /\ n.from = e.from /\ n.index = i
        <4>1. CASE e \in old.cCert
          <5>1. /\ e.view = LeaderID
                /\ IF e.from = r THEN old.status \in {"Prepared", "Committed"}
                   ELSE \E n \in stepped[r] : n.type = "Commit" /\ n.from = e.from /\ n.index = i
            <6>1. VotesStepped /\ i \in Indices
              BY <1>1 DEF CrashInv
            <6> HIDE DEF i
            <6> QED BY <4>1, <6>1 DEF VotesStepped
          <5>2. old.status \in {"Prepared", "Committed"} => y.status \in {"Prepared", "Committed"}
            BY <1>4 DEF Grows
          <5> QED BY <1>5, <5>1, <5>2
        <4>2. CASE e \notin old.cCert
          <5>1. /\ e.view = LeaderID
                /\ \/ e.from = r /\ y.status \in {"Prepared", "Committed"}
                   \/ e.from = m.from /\ m.type = "Commit"
            BY <3>2, <4>2 DEF Follows
          <5> QED BY <1>5, <5>1
        <4> QED BY <4>1, <4>2
      <3> QED BY <1>4, <2>3, <3>1, <3>2
    <2> QED BY <2>1, <2>2, <2>3
  <1>11. VotedStepped'
    <2> SUFFICES ASSUME NEW s \in Correct, NEW j \in Indices, log'[s][j].status \in Voted,
                        ~isPrimaryAtView(s, LeaderID)
                 PROVE  \E n \in stepped'[s] : n.type = "PrePrepare" /\ n.index = j
      BY DEF VotedStepped
    <2>1. CASE s # r
      BY <1>2, <1>5, <2>1 DEF CrashInv, VotedStepped
    <2>2. CASE s = r /\ j # i
      BY <1>3, <1>5, <2>2 DEF CrashInv, VotedStepped
    <2>3. CASE s = r /\ j = i
      <3>1. old.status \in Voted \/ m.type = "PrePrepare"
        BY <1>4, <2>3 DEF Follows
      <3>2. CASE old.status \in Voted
        BY <1>1, <1>5, <2>3, <3>2 DEF CrashInv, VotedStepped
      <3>3. CASE m.type = "PrePrepare"
        BY <1>5, <2>3, <3>3
      <3> QED BY <3>1, <3>2, <3>3
    <2> QED BY <2>1, <2>2, <2>3
  <1>12. NoPanic'
    BY DEF CrashInv, NoPanic
  <1> QED BY <1>7, <1>8, <1>9, <1>10, <1>11, <1>12 DEF CrashInv

\* A message that r steps for the first time meets no vote of its sender, and
\* names the hash and the command of the instance.
LEMMA FirstStep ==
  ASSUME CrashInv, NEW r \in Correct, NEW m \in msgs, m.from # r, m \notin stepped[r]
  PROVE  /\ m.index \in Indices /\ m.view = LeaderID /\ Genuine(r, m)
         /\ hashAgrees(log[r][m.index], m)
         /\ m.type = "PrePrepare" => commandAgrees(log[r][m.index], m)
         /\ m.type # "Commit" => canLog(log[r][m.index].pCert, m.from, LeaderID)
         /\ m.type = "Commit" => canLog(log[r][m.index].cCert, m.from, LeaderID)
         /\ log[r][m.index].status \notin {"Prepared", "Committed"} =>
               canLog(log[r][m.index].cCert, r, LeaderID)
  <1> DEFINE i == m.index
             old == log[r][i]
  <1>1. /\ FirstView /\ i \in Indices /\ m \in AgreementMessage /\ stepped[r] \subseteq msgs
        /\ old \in Instance /\ LeaderID \in Int
    BY ConfigAssumption DEF CrashInv, FirstView, TypeOK, AgreementMessage, Views
  <1>2. m.from \in Correct /\ Genuine(r, m)
    <2>1. /\ m.from \in Correct
          /\ m.type # "Commit" => Vouches(m.from, m.index, m.hash)
          /\ m.type = "Commit" => Certifies(m.from, m.index, m.hash)
      BY <1>1 DEF FirstView, SentByState
    <2>2. m.view = LeaderID
      BY DEF CrashInv, SentAfterProposal
    <2> QED BY <1>1, <2>1, <2>2 DEF Genuine
  <1>3. PICK p \in msgs : Proposal(p, i, m.hash)
    BY DEF CrashInv, SentAfterProposal
  <1>4. ASSUME old.status # "Absent"
        PROVE  old.hash = m.hash /\ old.cmd \in {Nil, p.cmd}
    <2>1. PICK q \in msgs : Proposal(q, i, old.hash) /\ old.cmd \in {Nil, q.cmd}
      BY <1>1, <1>4 DEF CrashInv, HoldsProposal
    <2>2. p = q
      BY <1>3, <2>1, OneProposal DEF Proposal
    <2> QED BY <1>3, <2>1, <2>2 DEF Proposal
  <1>5. hashAgrees(old, m)
    BY <1>4 DEF hashAgrees
  <1>6. m.type = "PrePrepare" => commandAgrees(old, m)
    <2>1. m.type = "PrePrepare" => m = p
      BY <1>3, OneProposal DEF Proposal
    <2> QED BY <1>4, <2>1 DEF commandAgrees
  <1>7. /\ \A e \in old.pCert :
              /\ e.view = LeaderID
              /\ e.from # r => \E n \in stepped[r] : n.type # "Commit" /\ n.from = e.from /\ n.index = i
        /\ \A e \in old.cCert :
              /\ e.view = LeaderID
              /\ IF e.from = r THEN old.status \in {"Prepared", "Committed"}
                 ELSE \E n \in stepped[r] : n.type = "Commit" /\ n.from = e.from /\ n.index = i
    BY <1>1 DEF CrashInv, VotesStepped
  <1>8. ASSUME NEW n \in stepped[r], n.from = m.from, n.index = i,
               n.type = "Commit" <=> m.type = "Commit"
        PROVE  FALSE
    <2>1. n \in msgs /\ n.type \in {"PrePrepare", "Prepare", "Commit"}
      BY <1>1 DEF CrashInv, FirstView, TypeOK, AgreementMessage
    <2>2. m.type \in {"PrePrepare", "Prepare", "Commit"}
      BY <1>1 DEF AgreementMessage
    <2>3. n.type = m.type
      BY <1>8, <2>1, <2>2 DEF CrashInv, SentAfterProposal
    <2>4. n = m
      BY <1>8, <2>1, <2>3 DEF CrashInv, OneOfAKind
    <2> QED BY <2>4
  <1>9. m.type # "Commit" => canLog(old.pCert, m.from, LeaderID)
    BY <1>1, <1>7, <1>8 DEF canLog
  <1>10. m.type = "Commit" => canLog(old.cCert, m.from, LeaderID)
    BY <1>1, <1>7, <1>8 DEF canLog
  <1>11. old.status \notin {"Prepared", "Committed"} => canLog(old.cCert, r, LeaderID)
    BY <1>1, <1>7 DEF canLog
  <1> QED BY <1>1, <1>2, <1>5, <1>6, <1>9, <1>10, <1>11 DEF Genuine

\* The first and only proposal for an index panics nobody.
LEMMA PrePrepareRuns ==
  ASSUME CrashInv, NEW r \in Correct, NEW m \in msgs, m.from # r, m \notin stepped[r],
         m.type = "PrePrepare"
  PROVE  ~PrePreparePanics(r, m) /\ ~isPrimaryAtView(r, LeaderID)
  <1> DEFINE i == m.index
             old == log[r][i]
  <1>1. /\ i \in Indices /\ m.view = LeaderID /\ hashAgrees(old, m) /\ commandAgrees(old, m)
        /\ canLog(old.pCert, m.from, LeaderID)
        /\ old.status \notin {"Prepared", "Committed"} => canLog(old.cCert, r, LeaderID)
    BY FirstStep
  <1>2. m.cmd # Nil /\ m.hash = Hash(m.cmd) /\ isPrimaryAtView(m.from, LeaderID)
    BY ConfigAssumption DEF CrashInv, SentAfterProposal
  <1>3. ~isPrimaryAtView(r, LeaderID)
    BY <1>2 DEF isPrimaryAtView
  <1>4. old.status \notin Voted
    <2> SUFFICES ASSUME old.status \in Voted PROVE FALSE
      OBVIOUS
    <2>1. PICK n \in stepped[r] : n.type = "PrePrepare" /\ n.index = i
      BY <1>1, <1>3 DEF CrashInv, VotedStepped
    <2>2. n \in msgs
      BY <2>1 DEF CrashInv, FirstView, TypeOK
    <2>3. n = m
      BY <2>1, <2>2, OneProposal
    <2> QED BY <2>1, <2>3
  <1>5. canLog(logVote(old.pCert, m.from, m.view, m.hash), r, LeaderID)
    <2>1. \A e \in old.pCert : e.view = LeaderID /\ e.from # r
      BY <1>1, <1>4 DEF CrashInv, VotesStepped
    <2>2. LeaderID \in Int
      BY ConfigAssumption DEF Views
    <2> QED BY <1>1, <2>1, <2>2 DEF canLog, logVote
  <1>6. (IF old.status = "Absent" THEN m.view ELSE old.view) = LeaderID
    BY <1>1 DEF CrashInv, FirstView, OneView
  <1>7. canLog(old.cCert, r, LeaderID)
    BY <1>1, <1>4 DEF Voted
  <1> QED BY <1>1, <1>2, <1>3, <1>5, <1>6, <1>7 DEF PrePreparePanics

\* The fields that the prepare half of the handlers changes.
LEMMA TryPrepareFields ==
  ASSUME NEW r, NEW x \in Instance, NEW h
  PROVE  LET y == tryPrepare(r, x, LeaderID, h)
         IN  /\ y.pCert = x.pCert /\ y.cmd = x.cmd
             /\ prepares(x, LeaderID, h) => x.status = "PrePrepared"
             /\ \A e \in y.cCert :
                   \/ e \in x.cCert
                   \/ /\ e.view = LeaderID /\ e.from = r
                      /\ y.status \in {"Prepared", "Committed"}
  <1>1. CASE prepares(x, LeaderID, h)
    <2> DEFINE c == logVote(x.cCert, r, LeaderID, x.hash)
               p == [x EXCEPT !.status = "Prepared", !.cCert = c]
               y == tryPrepare(r, x, LeaderID, h)
    <2>1. y = IF Majority(p.cCert, LeaderID, x.hash) /\ p.status = "Prepared"
              THEN [p EXCEPT !.status = "Committed"] ELSE p
      BY <1>1 DEF tryPrepare, tryCommit
    <2>2. \A e \in c : e \in x.cCert \/ (e.view = LeaderID /\ e.from = r)
      BY DEF logVote
    <2> HIDE DEF c
    <2>3. /\ p.pCert = x.pCert /\ p.cmd = x.cmd /\ p.cCert = c /\ p.status = "Prepared"
          /\ [p EXCEPT !.status = "Committed"].pCert = x.pCert
          /\ [p EXCEPT !.status = "Committed"].cmd = x.cmd
          /\ [p EXCEPT !.status = "Committed"].cCert = c
          /\ [p EXCEPT !.status = "Committed"].status = "Committed"
      BY DEF Instance
    <2> HIDE DEF p, y
    <2>4. /\ y.pCert = x.pCert /\ y.cmd = x.cmd /\ y.cCert = c
          /\ y.status \in {"Prepared", "Committed"}
      BY <2>1, <2>3
    <2> QED BY <1>1, <2>2, <2>4 DEF prepares, y
  <1>2. CASE ~prepares(x, LeaderID, h)
    BY <1>2 DEF tryPrepare
  <1> QED BY <1>1, <1>2

\* The instance that the first two lines of a handler find or make.
LEMMA WithHashFollows ==
  ASSUME CrashInv, NEW r \in Correct, NEW m \in msgs, m.from # r, m \notin stepped[r]
  PROVE  LET x == withHash(log[r][m.index], m)
         IN  /\ x \in Instance /\ x.view = LeaderID
             /\ x.pCert \subseteq log[r][m.index].pCert
             /\ x.cCert \subseteq log[r][m.index].cCert
             /\ x.cmd = m.cmd \/ (log[r][m.index].status # "Absent" /\ x.cmd = log[r][m.index].cmd)
  <1> DEFINE old == log[r][m.index]
             x == withHash(old, m)
  <1>1. /\ x \in Instance /\ x.view = LeaderID
        /\ old.status # "Absent" => x.cmd = old.cmd /\ x.pCert = old.pCert /\ x.cCert = old.cCert
        /\ old.status = "Absent" => x.pCert = {} /\ x.cCert = {}
    BY FirstStep, WithHashFields DEF CrashInv
  <1>2. old.status = "Absent" => x.cmd = m.cmd
    BY DEF withHash, makeInstance
  <1> QED BY <1>1, <1>2

\* A proposal that is handled.
LEMMA CrashPrePrepare ==
  ASSUME CrashInv, NEW r \in Correct, NEW m \in msgs, m.from # r, m \notin stepped[r],
         stepped' = [stepped EXCEPT ![r] = @ \cup {m}],
         m.type = "PrePrepare", onPrePrepare(r, m), FirstView', NoNewView'
  PROVE  CrashInv'
  <1> DEFINE i == m.index
             old == log[r][i]
             x == withHash(old, m)
             pp == prePrepared(r, old, m)
             y == tryPrepare(r, pp, LeaderID, m.hash)
             S == {PrepareMsg(r, LeaderID, i, m.hash)} \cup
                  (IF prepares(pp, LeaderID, m.hash) THEN {CommitMsg(r, LeaderID, i, m.hash)} ELSE {})
  <1>1. ~PrePreparePanics(r, m) /\ ~isPrimaryAtView(r, LeaderID) /\ FirstView
    BY PrePrepareRuns DEF CrashInv
  <1>2. Genuine(r, m) /\ m.view = LeaderID /\ i \in Indices
    BY FirstStep
  <1>3. /\ Sound(r, i, pp) /\ pp.hash = m.hash /\ pp.status = "PrePrepared"
        /\ pp.view = LeaderID /\ old.status \notin Voted /\ pp \in Instance
    BY <1>1, <1>2, PrePreparedSound DEF Sound
  <1>4. /\ store(r, i, y) /\ msgs' = msgs \cup S /\ index' = index /\ panicked' = panicked
    BY <1>1, <1>3 DEF onPrePrepare, broadcast
  <1>5. /\ x \in Instance /\ x.view = LeaderID /\ x.pCert \subseteq old.pCert
        /\ x.cCert \subseteq old.cCert
    BY WithHashFollows
  <1>6. /\ pp.cmd = m.cmd /\ pp.cCert \subseteq old.cCert
        /\ \A e \in pp.pCert : \/ e \in old.pCert
                               \/ e.view = LeaderID /\ (e.from = r \/ e.from = m.from)
    <2> DEFINE k == [x EXCEPT !.cmd = m.cmd]
               c == logVote(logVote(k.pCert, m.from, m.view, m.hash), r, k.view, m.hash)
    <2>1. pp = [k EXCEPT !.status = "PrePrepared", !.pCert = c]
      BY DEF prePrepared
    <2> HIDE DEF x
    <2>2. k \in [status : Statuses, view : Views, cmd : {m.cmd}, hash : Hashes \cup {Nil},
                 pCert : SUBSET Vote, cCert : SUBSET Vote]
      BY <1>5 DEF Instance
    <2>3. k.cmd = m.cmd /\ k.pCert = x.pCert /\ k.cCert = x.cCert /\ k.view = x.view
      BY <1>5 DEF Instance
    <2>4. \A e \in c : \/ e \in k.pCert
                       \/ (e.view = m.view /\ e.from = m.from)
                       \/ (e.view = k.view /\ e.from = r)
      BY DEF logVote
    <2> HIDE DEF k, c
    <2>5. pp.cmd = k.cmd /\ pp.cCert = k.cCert /\ pp.pCert = c
      BY <2>1, <2>2
    <2> QED BY <1>2, <1>5, <2>3, <2>4, <2>5
  <1> HIDE DEF pp
  <1>7. /\ Sound(r, i, y) /\ y.hash = m.hash /\ y.status \in Voted
    BY <1>2, <1>3, TryPrepareSound DEF Voted
  <1>8. /\ y.pCert = pp.pCert /\ y.cmd = pp.cmd
        /\ \A e \in y.cCert :
              \/ e \in pp.cCert
              \/ e.view = LeaderID /\ e.from = r /\ y.status \in {"Prepared", "Committed"}
    BY <1>3, TryPrepareFields
  <1> HIDE DEF y
  <1>9. Follows(r, m, y)
    <2>1. \A e \in y.pCert : \/ e \in old.pCert
                             \/ e.view = LeaderID /\ (e.from = r \/ e.from = m.from)
      BY <1>6, <1>8
    <2>2. \A e \in y.cCert :
              \/ e \in old.cCert
              \/ e.view = LeaderID /\ e.from = r /\ y.status \in {"Prepared", "Committed"}
      BY <1>6, <1>8
    <2>3. y.cmd = m.cmd
      BY <1>6, <1>8
    <2> QED BY <1>7, <2>1, <2>2, <2>3 DEF Follows
  <1>10. old.status \notin {"Prepared", "Committed"}
    BY <1>3 DEF Voted
  <1>11. MaySend(r, m, S)
    BY <1>1, <1>3, <1>10 DEF PrepareMsg, CommitMsg, MaySend
  <1> HIDE DEF S
  <1> QED BY <1>4, <1>7, <1>9, <1>11, CrashStore

\* A Prepare that is handled.
LEMMA CrashPrepare ==
  ASSUME CrashInv, NEW r \in Correct, NEW m \in msgs, m.from # r, m \notin stepped[r],
         stepped' = [stepped EXCEPT ![r] = @ \cup {m}],
         m.type = "Prepare", onPrepare(r, m), FirstView', NoNewView'
  PROVE  CrashInv'
  <1> DEFINE i == m.index
             old == log[r][i]
             x == withHash(old, m)
             w == withPrepare(old, m)
             y == tryPrepare(r, w, LeaderID, m.hash)
             S == IF prepares(w, LeaderID, m.hash) THEN {CommitMsg(r, LeaderID, i, m.hash)} ELSE {}
  <1>1. /\ Genuine(r, m) /\ m.view = LeaderID /\ i \in Indices /\ FirstView /\ hashAgrees(old, m)
        /\ canLog(old.pCert, m.from, LeaderID)
        /\ old.status \notin {"Prepared", "Committed"} => canLog(old.cCert, r, LeaderID)
    BY FirstStep DEF CrashInv
  <1>2. /\ x \in Instance /\ x.view = LeaderID /\ x.pCert \subseteq old.pCert
        /\ x.cCert \subseteq old.cCert
        /\ x.cmd = m.cmd \/ (old.status # "Absent" /\ x.cmd = old.cmd)
        /\ x.status = "PrePrepared" => old.status = "PrePrepared"
        /\ x.status \in {"Prepared", "Committed"} <=> old.status \in {"Prepared", "Committed"}
    <2>1. /\ old.status # "Absent" => x.status = old.status
          /\ old.status = "Absent" => x.status = "None"
      BY <1>1, WithHashFields
    <2> QED BY <2>1, WithHashFollows
  <1>3. /\ Sound(r, i, w) /\ w.hash = m.hash
        /\ w.status \in Voted => old.status \in Voted
    BY <1>1, WithPrepareSound
  <1>4. /\ w \in Instance /\ w.cmd = x.cmd /\ w.cCert = x.cCert /\ w.status = x.status
        /\ \A e \in w.pCert : e \in old.pCert \/ (e.view = LeaderID /\ e.from = m.from)
    <2> DEFINE c == logVote(x.pCert, m.from, m.view, m.hash)
    <2>1. w = [x EXCEPT !.pCert = c]
      BY DEF withPrepare
    <2>2. \A e \in c : e \in x.pCert \/ (e.view = LeaderID /\ e.from = m.from)
      BY <1>1 DEF logVote
    <2> HIDE DEF x, c
    <2>3. w.cmd = x.cmd /\ w.cCert = x.cCert /\ w.status = x.status /\ w.pCert = c
      BY <1>2, <2>1 DEF Instance
    <2> QED BY <1>2, <1>3, <2>2, <2>3 DEF Sound
  <1>5. prepares(w, LeaderID, m.hash) => old.status = "PrePrepared"
    BY <1>2, <1>4 DEF prepares
  <1>6. ~PreparePanics(r, m)
    BY <1>1, <1>5 DEF PreparePanics
  <1>7. store(r, i, y) /\ msgs' = msgs \cup S /\ index' = index /\ panicked' = panicked
    BY <1>1, <1>6 DEF onPrepare, broadcast
  <1> HIDE DEF w
  <1>8. Sound(r, i, y) /\ y.hash = m.hash /\ (y.status \in Voted => w.status \in Voted)
    BY <1>1, <1>3, TryPrepareSound
  <1>9. /\ y.pCert = w.pCert /\ y.cmd = w.cmd
        /\ \A e \in y.cCert :
              \/ e \in w.cCert
              \/ e.view = LeaderID /\ e.from = r /\ y.status \in {"Prepared", "Committed"}
    BY <1>4, TryPrepareFields
  <1> HIDE DEF y, x
  <1>10. Follows(r, m, y)
    <2>1. \A e \in y.pCert : e \in old.pCert \/ (e.view = LeaderID /\ e.from = m.from)
      BY <1>4, <1>9
    <2>2. \A e \in y.cCert :
              \/ e \in old.cCert
              \/ e.view = LeaderID /\ e.from = r /\ y.status \in {"Prepared", "Committed"}
      BY <1>2, <1>4, <1>9
    <2>3. y.cmd = m.cmd \/ (old.status # "Absent" /\ y.cmd = old.cmd)
      BY <1>2, <1>4, <1>9
    <2> QED BY <1>3, <1>8, <2>1, <2>2, <2>3 DEF Follows
  <1>11. MaySend(r, m, S)
    BY <1>5 DEF CommitMsg, MaySend
  <1> HIDE DEF S
  <1> QED BY <1>7, <1>8, <1>10, <1>11, CrashStore

\* A Commit that is handled.
LEMMA CrashCommit ==
  ASSUME CrashInv, NEW r \in Correct, NEW m \in msgs, m.from # r, m \notin stepped[r],
         stepped' = [stepped EXCEPT ![r] = @ \cup {m}],
         m.type = "Commit", onCommit(r, m), FirstView', NoNewView'
  PROVE  CrashInv'
  <1> DEFINE i == m.index
             old == log[r][i]
             x == withHash(old, m)
             w == withCommit(old, m)
             y == tryCommit(w, LeaderID, m.hash)
  <1>1. /\ Genuine(r, m) /\ m.view = LeaderID /\ i \in Indices /\ FirstView /\ hashAgrees(old, m)
        /\ canLog(old.cCert, m.from, LeaderID)
    BY FirstStep DEF CrashInv
  <1>2. /\ x \in Instance /\ x.pCert \subseteq old.pCert /\ x.cCert \subseteq old.cCert
        /\ x.cmd = m.cmd \/ (old.status # "Absent" /\ x.cmd = old.cmd)
    BY WithHashFollows
  <1>3. /\ Sound(r, i, w) /\ w.hash = m.hash
        /\ w.status \in Voted => old.status \in Voted
    BY <1>1, WithCommitSound
  <1>4. /\ w \in Instance /\ w.cmd = x.cmd /\ w.pCert = x.pCert
        /\ \A e \in w.cCert : e \in old.cCert \/ (e.view = LeaderID /\ e.from = m.from)
    <2> DEFINE c == logVote(x.cCert, m.from, m.view, m.hash)
    <2>1. w = [x EXCEPT !.cCert = c]
      BY DEF withCommit
    <2>2. \A e \in c : e \in x.cCert \/ (e.view = LeaderID /\ e.from = m.from)
      BY <1>1 DEF logVote
    <2> HIDE DEF x, c
    <2>3. w.cmd = x.cmd /\ w.pCert = x.pCert /\ w.cCert = c
      BY <1>2, <2>1 DEF Instance
    <2> QED BY <1>2, <1>3, <2>2, <2>3 DEF Sound
  <1>5. store(r, i, y) /\ msgs' = msgs \cup {} /\ index' = index /\ panicked' = panicked
    BY <1>1 DEF onCommit
  <1> HIDE DEF w, x
  <1>6. Sound(r, i, y) /\ y.hash = m.hash /\ (y.status \in Voted => w.status \in Voted)
    BY <1>1, <1>3, TryCommitSound
  <1>7. y.pCert = w.pCert /\ y.cmd = w.cmd /\ y.cCert = w.cCert
    BY <1>4 DEF tryCommit, Instance
  <1> HIDE DEF y
  <1>8. Follows(r, m, y)
    BY <1>2, <1>3, <1>4, <1>6, <1>7 DEF Follows
  <1>9. MaySend(r, m, {})
    BY DEF MaySend
  <1> QED BY <1>5, <1>6, <1>8, <1>9, CrashStore

\* A proposal of the primary: nobody has heard of its index before.
LEMMA CrashRequest ==
  ASSUME CrashInv, NEW r \in Correct, NEW c \in Commands, onRequest(r, c), FirstView', NoNewView'
  PROVE  CrashInv'
  <1> DEFINE i == index[r] + 1
             x == [status |-> "PrePrepared", view |-> LeaderID, cmd |-> c, hash |-> Hash(c),
                   pCert |-> logVote({}, r, LeaderID, Hash(c)), cCert |-> {}]
             m == [type |-> "PrePrepare", from |-> r, view |-> LeaderID, index |-> i,
                   cmd |-> c, hash |-> Hash(c)]
  <1>1. /\ FirstView /\ view[r] = LeaderID /\ isPrimaryAtView(r, LeaderID) /\ index[r] < MaxIndex
        /\ index \in [Correct -> 0 .. MaxIndex] /\ MaxIndex \in Nat
        /\ log \in [Correct -> [Indices -> Instance]] /\ stepped \in [Correct -> SUBSET msgs]
    BY ConfigAssumption DEF CrashInv, FirstView, OneView, TypeOK, onRequest
  <1>2. i \in Indices /\ i > index[r] /\ i \in Nat
    BY <1>1 DEF Indices
  <1>3. /\ index' = [index EXCEPT ![r] = i] /\ log' = [log EXCEPT ![r][i] = x]
        /\ msgs' = msgs \cup {m} /\ stepped' = stepped /\ panicked' = panicked
    BY <1>1 DEF onRequest, broadcast
  <1>4. /\ x.status = "PrePrepared" /\ x.hash = Hash(c) /\ x.cmd = c /\ x.cCert = {}
        /\ x.pCert = {[from |-> r, view |-> LeaderID, hash |-> Hash(c)]}
        /\ m.type = "PrePrepare" /\ m.from = r /\ m.view = LeaderID /\ m.index = i
        /\ m.cmd = c /\ m.hash = Hash(c)
    BY DEF logVote
  <1> HIDE DEF x, m, i
  <1>5. /\ log'[r][i] = x
        /\ \A s \in Correct, j \in Indices : s # r \/ j # i => log'[s][j] = log[s][j]
    BY <1>1, <1>2, <1>3
  <1>6. ASSUME NEW p \in msgs, p.type = "PrePrepare"
        PROVE  p.from = r /\ p.index \in Nat /\ p.index < i
    <2>1. isPrimaryAtView(p.from, LeaderID) /\ p.index <= index[p.from] /\ p \in AgreementMessage
      BY <1>6 DEF CrashInv, SentAfterProposal, FirstView, TypeOK
    <2>2. p.from = r
      BY <1>1, <2>1 DEF isPrimaryAtView
    <2> QED BY <1>1, <1>2, <2>1, <2>2 DEF AgreementMessage, Indices
  <1>7. \A n \in msgs : n.index # i
    <2> SUFFICES ASSUME NEW n \in msgs PROVE n.index # i
      OBVIOUS
    <2>1. PICK p \in msgs : Proposal(p, n.index, n.hash)
      BY DEF CrashInv, SentAfterProposal
    <2> QED BY <1>2, <1>6, <2>1 DEF Proposal
  <1>8. OneOfAKind'
    BY <1>3, <1>4, <1>7 DEF CrashInv, OneOfAKind
  <1>9. SentAfterProposal'
    <2>1. \A s \in Correct : index[s] <= index'[s]
      BY <1>1, <1>2, <1>3
    <2>2. \A n \in msgs : n.from \in Correct /\ n.index \in Nat
      BY <1>1 DEF FirstView, TypeOK, SentByState, AgreementMessage, Indices
    <2>3. ASSUME NEW n \in msgs, n.type = "PrePrepare"
          PROVE  n.index <= index'[n.from]
      <3>1. n.index <= index[n.from] /\ index[n.from] \in Nat /\ index'[n.from] \in Nat
        BY <1>1, <1>2, <1>3, <2>2, <2>3 DEF CrashInv, SentAfterProposal
      <3> QED BY <2>1, <2>2, <3>1
    <2>4. i <= index'[r]
      BY <1>1, <1>2, <1>3
    <2> QED BY <1>1, <1>3, <1>4, <2>3, <2>4 DEF CrashInv, SentAfterProposal, Proposal
  <1>10. HoldsProposal'
    <2>1. ASSUME NEW s \in Correct, NEW j \in Indices
          PROVE  IF log'[s][j].status = "Absent"
                 THEN log'[s][j].pCert = {} /\ log'[s][j].cCert = {}
                 ELSE \E q \in msgs' : /\ Proposal(q, j, log'[s][j].hash)
                                       /\ log'[s][j].cmd \in {Nil, q.cmd}
      <3>1. CASE s = r /\ j = i
        BY <1>3, <1>4, <1>5, <3>1 DEF Proposal
      <3>2. CASE ~(s = r /\ j = i)
        BY <1>3, <1>5, <3>2 DEF CrashInv, HoldsProposal
      <3> QED BY <3>1, <3>2
    <2> QED BY <2>1 DEF HoldsProposal
  <1>11. VotesStepped'
    <2>1. ASSUME NEW s \in Correct, NEW j \in Indices
          PROVE  /\ \A e \in log'[s][j].pCert :
                       /\ e.view = LeaderID
                       /\ IF e.from = s THEN log'[s][j].status \in Voted
                          ELSE \E n \in stepped'[s] : /\ n.type # "Commit"
                                                      /\ n.from = e.from /\ n.index = j
                 /\ \A e \in log'[s][j].cCert :
                       /\ e.view = LeaderID
                       /\ IF e.from = s
                          THEN log'[s][j].status \in {"Prepared", "Committed"}
                          ELSE \E n \in stepped'[s] : /\ n.type = "Commit"
                                                      /\ n.from = e.from /\ n.index = j
      <3>1. CASE s = r /\ j = i
        BY <1>4, <1>5, <3>1 DEF Voted
      <3>2. CASE ~(s = r /\ j = i)
        BY <1>3, <1>5, <3>2 DEF CrashInv, VotesStepped
      <3> QED BY <3>1, <3>2
    <2> QED BY <2>1 DEF VotesStepped
  <1>12. VotedStepped'
    BY <1>1, <1>3, <1>5 DEF CrashInv, VotedStepped
  <1>13. NoPanic'
    BY <1>3 DEF CrashInv, NoPanic
  <1> QED BY <1>8, <1>9, <1>10, <1>11, <1>12, <1>13 DEF CrashInv

\* Every step of replicas that follow the code preserves the invariant.
LEMMA CrashNextInv == CrashInv /\ [CrashNext]_vars => CrashInv'
  <1> SUFFICES ASSUME CrashInv, [CrashNext]_vars PROVE CrashInv'
    OBVIOUS
  <1>0. NoNewView'
    BY DEF CrashInv, CrashNext, vars, NoNewView, onRequest, StepMessage
  <1>1. FirstView'
    BY <1>0, NextFirstView DEF CrashInv, CrashNext, Next
  <1>2. CASE UNCHANGED vars
    <2>1. OneOfAKind' /\ SentAfterProposal' /\ HoldsProposal' /\ NoPanic'
      BY <1>2 DEF vars, CrashInv, OneOfAKind, SentAfterProposal, HoldsProposal, NoPanic
    <2>2. VotesStepped' /\ VotedStepped'
      BY <1>2 DEF vars, CrashInv, VotesStepped, VotedStepped
    <2> QED BY <1>0, <1>1, <2>1, <2>2 DEF CrashInv
  <1>3. ASSUME NEW r \in Correct, NEW c \in Commands, onRequest(r, c) PROVE CrashInv'
    BY <1>0, <1>1, <1>3, CrashRequest
  <1>4. ASSUME NEW r \in Correct, StepMessage(r) PROVE CrashInv'
    <2>1. PICK m \in msgs : /\ m.from # r /\ m \notin stepped[r] /\ handle(r, m)
                            /\ stepped' = [stepped EXCEPT ![r] = @ \cup {m}]
      BY <1>4 DEF StepMessage
    <2> QED BY <1>0, <1>1, <2>1, CrashPrePrepare, CrashPrepare, CrashCommit DEF handle
  <1> QED BY <1>2, <1>3, <1>4 DEF CrashNext

\* The invariant of crash-only behaviours.
THEOREM CrashInvariant == CrashSpec => []CrashInv
  <1>1. Init => CrashInv
    <2> SUFFICES ASSUME Init PROVE CrashInv
      OBVIOUS
    <2>1. FirstView
      BY InitFirstView
    <2>2. OneOfAKind /\ SentAfterProposal /\ NoPanic /\ NoNewView
      BY DEF Init, OneOfAKind, SentAfterProposal, NoPanic, NoNewView
    <2>3. HoldsProposal /\ VotesStepped /\ VotedStepped
      BY DEF Init, NoInstance, HoldsProposal, VotesStepped, VotedStepped, Voted
    <2> QED BY <2>1, <2>2, <2>3 DEF CrashInv
  <1>2. CrashInv /\ [CrashNext]_vars => CrashInv'
    BY CrashNextInv
  <1> QED BY <1>1, <1>2, PTL DEF CrashSpec

\* When replicas only crash, no order of arrival makes Quorum.log, updateCommand
\* or updateCommandHash panic, for any number of peers and indices.
THEOREM PanicFree == CrashSpec => []NoPanic
  <1>1. CrashInv => NoPanic
    BY DEF CrashInv
  <1> QED BY <1>1, CrashInvariant, PTL
=============================================================================
