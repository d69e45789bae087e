------------------------ MODULE ReputationSBTProofs ------------------------
(***************************************************************************)
(* Theorems about the soulbound points, for every set of accounts and      *)
(* digests, every threshold and every batch size.                          *)
(***************************************************************************)
EXTENDS ReputationSBT, ContributionRegistryProofs, FiniteSetTheorems, InductionLemmas

\* Minting and honoring never write the registry: composed with the two contracts, the registry
\* still behaves as it specifies.
THEOREM RegistryUntouched == SBTSpec => Spec
<1>1. SBTInit => Init
  BY DEF SBTInit
<1>2. [SBTNext]_allVars => [Next]_vars
  BY DEF SBTNext, allVars, mint, mintBatch, autoHonor
<1> QED
  BY <1>1, <1>2, PTL DEF SBTSpec, Spec

-----------------------------------------------------------------------------
\* The points' inductive invariant.  Finiteness of minted gives the cardinalities a meaning; the
\* registry's exact enumeration keeps the records behind minted digests from changing.
SBTInv == LedgerInv /\ SBTTypeOK /\ IsFiniteSet(minted) /\ PointsAudited

\* A step of the registry changes no anchored record, so no minted digest changes hands.
LEMMA RegistryStepKeepsMinted ==
  ASSUME SBTInv, [Next]_vars, NEW h \in minted
  PROVE  records'[h] = records[h]
<1>1. h \in ContentHash /\ h \in AnyHash /\ isAnchored(h)
  BY DEF SBTInv, PointsAudited, SBTTypeOK, AnyHash
<1>2. CASE RecordWritten
  <2>1. PICK a \in Addr, g \in ContentHash, b \in BOOLEAN, p \in AnyHash : WriteRecord(g, a, b, p)
    BY <1>2 DEF RecordWritten
  <2>2. Written(g, a, b, p)
    BY <2>1, WriteFacts DEF SBTInv, LedgerInv
  <2> QED
    BY <1>1, <2>2 DEF Written
<1>3. CASE UNCHANGED registryVars
  BY <1>3 DEF registryVars
<1> QED
  BY <1>2, <1>3, StepWritesAtMostOneRecord

LEMMA RegistryStepKeepsPoints ==
  ASSUME SBTInv, [Next]_vars, UNCHANGED sbtVars
  PROVE  PointsAudited'
<1>1. minted' = minted /\ points' = points /\ totalPoints' = totalPoints
  BY DEF sbtVars
<1>2. \A h \in minted : records'[h] = records[h]
  BY RegistryStepKeepsMinted
<1>3. \A a \in Addr : MintedOf(a)' = MintedOf(a)
  BY <1>1, <1>2 DEF MintedOf, Creditee
<1>4. \A h \in minted' : isAnchored(h)' /\ records'[h].authorBound
  BY <1>1, <1>2 DEF SBTInv, PointsAudited, isAnchored
<1>5. \A a \in Addr : points'[a] = Cardinality(MintedOf(a)')
  BY <1>1, <1>3 DEF SBTInv, PointsAudited
<1> QED
  BY <1>1, <1>4, <1>5 DEF SBTInv, PointsAudited

LEMMA MintKeepsPoints ==
  ASSUME SBTInv, NEW h \in AnyHash, mint(h)
  PROVE  IsFiniteSet(minted)' /\ SBTTypeOK' /\ PointsAudited'
<1> DEFINE c == Creditee(h)
<1>1. /\ h \notin minted /\ isAnchored(h) /\ records[h].authorBound
      /\ minted' = minted \cup {h} /\ totalPoints' = totalPoints + 1
      /\ points' = [points EXCEPT ![c] = @ + 1]
      /\ UNCHANGED vars
  BY DEF mint, Mintable
<1>2. h \in ContentHash /\ c \in Addr
  <2>1. PICK i \in Indices : hashByIndex[i] = h
    BY <1>1 DEF SBTInv, LedgerInv, EnumerationExact, Anchored
  <2>2. records[h] \in Record
    BY DEF SBTInv, LedgerInv, TypeOK
  <2> QED
    BY <1>1, <2>1, <2>2 DEF SBTInv, LedgerInv, TypeOK, isAnchored, Creditee, Record, AnyAddr
<1>3. TypeOK' /\ records' = records
  BY <1>1 DEF vars, registryVars, SBTInv, LedgerInv, TypeOK, Indices
<1>4. SBTTypeOK'
  BY <1>1, <1>2, <1>3 DEF SBTInv, SBTTypeOK
<1>5. IsFiniteSet(minted') /\ Cardinality(minted') = Cardinality(minted) + 1
  BY <1>1, FS_AddElement DEF SBTInv
<1>6. ASSUME NEW a \in Addr PROVE points'[a] = Cardinality(MintedOf(a)')
  <2>1. IsFiniteSet(MintedOf(a)) /\ points[a] = Cardinality(MintedOf(a)) /\ h \notin MintedOf(a)
    BY <1>1, FS_Subset DEF MintedOf, SBTInv, PointsAudited
  <2>2. CASE a = c
    <3>1. MintedOf(a)' = MintedOf(a) \cup {h}
      BY <1>1, <1>3, <2>2 DEF MintedOf, Creditee
    <3>2. Cardinality(MintedOf(a) \cup {h}) = Cardinality(MintedOf(a)) + 1
      BY <2>1, FS_AddElement
    <3>3. points'[a] = points[a] + 1
      BY <1>1, <2>2 DEF SBTInv, SBTTypeOK
    <3> QED
      BY <2>1, <3>1, <3>2, <3>3
  <2>3. CASE a # c
    <3>1. MintedOf(a)' = MintedOf(a)
      BY <1>1, <1>3, <2>3 DEF MintedOf, Creditee
    <3>2. points'[a] = points[a]
      BY <1>1, <2>3 DEF SBTInv, SBTTypeOK
    <3> QED
      BY <2>1, <3>1, <3>2
  <2> QED
    BY <2>2, <2>3
<1>7. \A g \in minted' : isAnchored(g)' /\ records'[g].authorBound
  BY <1>1, <1>3 DEF SBTInv, PointsAudited, isAnchored
<1>8. totalPoints' = Cardinality(minted')
  BY <1>1, <1>5 DEF SBTInv, PointsAudited
<1> QED
  BY <1>4, <1>5, <1>6, <1>7, <1>8 DEF PointsAudited

\* The digests of an acceptable batch that credit an account are as many as their positions.
LEMMA BatchCounts ==
  ASSUME SBTInv, NEW batch \in Batch, BatchAcceptable(batch)
  PROVE  /\ Len(batch) \in Nat /\ DOMAIN batch = 1 .. Len(batch)
         /\ IsFiniteSet(Range(batch)) /\ Cardinality(Range(batch)) = Len(batch)
         /\ \A a \in Addr :
              LET own == {h \in Range(batch) : Creditee(h) = a}
              IN  /\ IsFiniteSet(own)
                  /\ Cardinality(own) = CreditedUpTo(batch, a, Len(batch))
<1>1. PICK n \in 0 .. MaxBatch : batch \in [1 .. n -> AnyHash]
  BY DEF Batch
<1>2. n \in Nat /\ Len(batch) = n /\ DOMAIN batch = 1 .. n
  BY <1>1, GateAssumption
<1>3. IsFiniteSet(1 .. n) /\ Cardinality(1 .. n) = n
  BY <1>2, FS_Interval
<1>4. \A i, j \in 1 .. n : batch[i] = batch[j] => i = j
  BY <1>2 DEF BatchAcceptable
<1>5. IsFiniteSet({batch[i] : i \in 1 .. n}) /\ Cardinality({batch[i] : i \in 1 .. n}) = n
  BY <1>3, <1>4, InjectiveImage
<1>6. ASSUME NEW a \in Addr
      PROVE  LET own == {h \in Range(batch) : Creditee(h) = a}
             IN  IsFiniteSet(own) /\ Cardinality(own) = CreditedUpTo(batch, a, n)
  <2> DEFINE I == {i \in 1 .. n : Creditee(batch[i]) = a}
             own == {h \in Range(batch) : Creditee(h) = a}
  <2>1. IsFiniteSet(I)
    BY <1>3, FS_Subset
  <2>2. \A i, j \in I : batch[i] = batch[j] => i = j
    BY <1>4
  <2>3. IsFiniteSet({batch[i] : i \in I}) /\ Cardinality({batch[i] : i \in I}) = Cardinality(I)
    BY <2>1, <2>2, InjectiveImage
  <2>4. own = {batch[i] : i \in I}
    BY <1>2 DEF Range
  <2> QED
    BY <2>3, <2>4 DEF CreditedUpTo
<1> QED
  BY <1>2, <1>5, <1>6 DEF Range

LEMMA MintBatchKeepsPoints ==
  ASSUME SBTInv, NEW batch \in Batch, mintBatch(batch)
  PROVE  IsFiniteSet(minted)' /\ SBTTypeOK' /\ PointsAudited'
<1> DEFINE R == Range(batch)
           own(a) == {h \in R : Creditee(h) = a}
<1>1. /\ BatchAcceptable(batch)
      /\ minted' = minted \cup R
      /\ points' = [a \in Addr |-> points[a] + CreditedUpTo(batch, a, Len(batch))]
      /\ totalPoints' = totalPoints + Len(batch)
      /\ UNCHANGED vars
  BY DEF mintBatch, BatchCredit
<1>2. /\ Len(batch) \in Nat
      /\ IsFiniteSet(R) /\ Cardinality(R) = Len(batch)
      /\ \A a \in Addr : /\ IsFiniteSet(own(a))
                          /\ Cardinality(own(a)) = CreditedUpTo(batch, a, Len(batch))
  BY <1>1, BatchCounts
<1>3. \A h \in R : h \notin minted /\ isAnchored(h) /\ records[h].authorBound
  BY <1>1 DEF BatchAcceptable, Mintable, Range
<1>4. R \subseteq ContentHash
  <2>1. R \subseteq AnyHash
    BY DEF Batch, Range
  <2>2. \A h \in AnyHash : isAnchored(h) => \E i \in Indices : hashByIndex[i] = h
    BY DEF SBTInv, LedgerInv, EnumerationExact, Anchored
  <2> QED
    BY <1>3, <2>1, <2>2 DEF SBTInv, LedgerInv, TypeOK
<1>5. TypeOK' /\ records' = records
  BY <1>1 DEF vars, registryVars, SBTInv, LedgerInv, TypeOK, Indices
<1>6. \A a \in Addr : CreditedUpTo(batch, a, Len(batch)) \in Nat
  BY <1>2, FS_CardinalityType
<1>7. SBTTypeOK'
  BY <1>1, <1>2, <1>4, <1>5, <1>6 DEF SBTInv, SBTTypeOK
<1>8. IsFiniteSet(minted') /\ Cardinality(minted') = Cardinality(minted) + Len(batch)
  <2>1. minted \cap R = {}
    BY <1>3
  <2> QED
    BY <1>1, <1>2, <2>1, DisjointUnion DEF SBTInv
<1>9. ASSUME NEW a \in Addr PROVE points'[a] = Cardinality(MintedOf(a)')
  <2>1. IsFiniteSet(MintedOf(a)) /\ points[a] = Cardinality(MintedOf(a))
    BY FS_Subset DEF MintedOf, SBTInv, PointsAudited
  <2>2. MintedOf(a)' = MintedOf(a) \cup own(a) /\ MintedOf(a) \cap own(a) = {}
    BY <1>1, <1>3, <1>5 DEF MintedOf, Creditee
  <2>3. Cardinality(MintedOf(a) \cup own(a)) = Cardinality(MintedOf(a)) + Cardinality(own(a))
    BY <1>2, <2>1, <2>2, DisjointUnion
  <2> QED
    BY <1>1, <1>2, <2>1, <2>2, <2>3
<1>10. \A g \in minted' : isAnchored(g)' /\ records'[g].authorBound
  BY <1>1, <1>3, <1>5 DEF SBTInv, PointsAudited, isAnchored
<1>11. totalPoints' = Cardinality(minted')
  BY <1>1, <1>8 DEF SBTInv, PointsAudited
<1> QED
  BY <1>7, <1>8, <1>9, <1>10, <1>11 DEF PointsAudited

LEMMA PointsInvariant == SBTSpec => []SBTInv
<1>1. SBTInit => SBTTypeOK /\ IsFiniteSet(minted) /\ PointsAudited
  <2> SUFFICES ASSUME SBTInit PROVE SBTTypeOK /\ IsFiniteSet(minted) /\ PointsAudited
    OBVIOUS
  <2>1. TypeOK
    BY DEF SBTInit, Init, TypeOK, Indices, Record, EmptyRecord, Commitment, EmptyCommitment,
           AnyHash, AnyAddr
  <2>2. IsFiniteSet({}) /\ Cardinality({}) = 0
    BY FS_EmptySet
  <2>3. \A a \in Addr : MintedOf(a) = {}
    BY DEF SBTInit, MintedOf
  <2> QED
    BY <2>1, <2>2, <2>3 DEF SBTInit, SBTTypeOK, PointsAudited
<1>2. SBTInv /\ LedgerInv' /\ [SBTNext]_allVars => SBTInv'
  <2> SUFFICES ASSUME SBTInv, LedgerInv', [SBTNext]_allVars PROVE SBTInv'
    OBVIOUS
  <2>1. ASSUME [Next]_vars, UNCHANGED sbtVars PROVE SBTInv'
    <3>1. minted' = minted /\ points' = points /\ totalPoints' = totalPoints
      BY <2>1 DEF sbtVars
    <3>2. SBTTypeOK'
      BY <3>1 DEF SBTInv, SBTTypeOK, LedgerInv
    <3> QED
      BY <2>1, <3>1, <3>2, RegistryStepKeepsPoints DEF SBTInv
  <2>2. ASSUME NEW h \in AnyHash, mint(h) PROVE SBTInv'
    BY <2>2, MintKeepsPoints DEF SBTInv
  <2>3. ASSUME NEW batch \in Batch, mintBatch(batch) PROVE SBTInv'
    BY <2>3, MintBatchKeepsPoints DEF SBTInv
  <2>4. ASSUME NEW a \in Addr, NEW r \in Ref, autoHonor(a, r) PROVE SBTInv'
    BY <2>1, <2>4 DEF autoHonor
  <2>5. CASE UNCHANGED allVars
    BY <2>1, <2>5 DEF allVars
  <2> QED
    BY <2>1, <2>2, <2>3, <2>4, <2>5 DEF SBTNext
<1>3. SBTSpec => []LedgerInv
  BY RegistryUntouched, LedgerInvariant, PTL
<1> QED
  BY <1>1, <1>2, <1>3, PTL DEF SBTSpec, SBTInv

\* Every balance is the number of minted commit-reveal records that name the account, and the
\* total is the number of minted digests, through every mix of mint, mintBatch and claims.
THEOREM Audited == SBTSpec => []PointsAudited
BY PointsInvariant, PTL DEF SBTInv

\* Points are soulbound: no transaction lowers a balance, unmints a digest or moves a point from
\* one account to another.
THEOREM NeverTaken == SBTSpec => Soulbound
<1> DEFINE Kept == /\ \A a \in Addr : points'[a] >= points[a] /\ MintedOf(a) \subseteq MintedOf(a)'
                   /\ minted \subseteq minted'
<1>1. SBTInv /\ [SBTNext]_allVars => Kept
  <2> SUFFICES ASSUME SBTInv, [SBTNext]_allVars PROVE Kept
    OBVIOUS
  <2>1. ASSUME [Next]_vars, UNCHANGED sbtVars PROVE Kept
    <3>1. \A h \in minted : records'[h] = records[h]
      BY <2>1, RegistryStepKeepsMinted
    <3> QED
      BY <2>1, <3>1 DEF sbtVars, MintedOf, Creditee, SBTInv, SBTTypeOK
  <2>2. ASSUME NEW h \in AnyHash, mint(h) PROVE Kept
    <3>1. /\ points' = [points EXCEPT ![Creditee(h)] = @ + 1]
          /\ minted' = minted \cup {h} /\ records' = records
      BY <2>2 DEF mint, vars, registryVars
    <3> QED
      BY <3>1 DEF MintedOf, Creditee, SBTInv, SBTTypeOK
  <2>3. ASSUME NEW batch \in Batch, mintBatch(batch) PROVE Kept
    <3>1. /\ points' = [a \in Addr |-> points[a] + CreditedUpTo(batch, a, Len(batch))]
          /\ minted' = minted \cup Range(batch) /\ records' = records
      BY <2>3 DEF mintBatch, BatchCredit, vars, registryVars
    <3>2. \A a \in Addr : CreditedUpTo(batch, a, Len(batch)) \in Nat
      BY <2>3, BatchCounts, FS_CardinalityType DEF mintBatch
    <3> QED
      BY <3>1, <3>2 DEF MintedOf, Creditee, SBTInv, SBTTypeOK
  <2>4. ASSUME NEW a \in Addr, NEW r \in Ref, autoHonor(a, r) PROVE Kept
    BY <2>1, <2>4 DEF autoHonor
  <2>5. CASE UNCHANGED allVars
    BY <2>1, <2>5 DEF allVars
  <2> QED
    BY <2>1, <2>2, <2>3, <2>4, <2>5 DEF SBTNext
<1>2. SBTInv /\ [SBTNext]_allVars => [Kept]_allVars
  BY <1>1
<1> QED
  BY <1>2, PointsInvariant, PTL DEF SBTSpec, Soulbound

-----------------------------------------------------------------------------
\* The log of the mints.

\* Counting the positions with some property as a loop passes them goes up by ones: at those
\* positions the counter takes each value from 1 to the final count.
LEMMA CountsUp ==
  ASSUME NEW N \in Nat, NEW P
  PROVE  LET C(n) == Cardinality({i \in 1 .. n : i \in P})
         IN  \A n \in 0 .. N : /\ C(n) \in 0 .. n
                               /\ {C(i) : i \in {j \in 1 .. n : j \in P}} = 1 .. C(n)
<1> DEFINE Upto(n) == {i \in 1 .. n : i \in P}
           C(n) == Cardinality(Upto(n))
           Up(n) == C(n) \in 0 .. n /\ {C(i) : i \in Upto(n)} = 1 .. C(n)
           T == {n \in 0 .. N : Up(n)}
<1>1. \A n \in Nat : IsFiniteSet(Upto(n))
  <2> TAKE n \in Nat
  <2>1. IsFiniteSet(1 .. n)
    BY FS_Interval
  <2> QED
    BY <2>1, FS_Subset
<1>2. 0 \in T
  <2>1. Upto(0) = {}
    OBVIOUS
  <2>2. C(0) = 0
    BY <2>1, FS_EmptySet
  <2>3. {C(i) : i \in Upto(0)} = {} /\ 1 .. C(0) = {}
    BY <2>1, <2>2
  <2>4. C(0) \in 0 .. 0
    BY <2>2
  <2> HIDE DEF C, Upto
  <2> QED
    BY <2>2, <2>3, <2>4
<1>3. ASSUME NEW n \in 1 .. N, n - 1 \in T PROVE n \in T
  <2>1. n \in Nat /\ n - 1 \in Nat /\ Up(n - 1)
    BY <1>3
  <2>2. CASE n \in P
    <3>1. Upto(n) = Upto(n - 1) \cup {n} /\ n \notin Upto(n - 1)
      BY <2>1, <2>2
    <3>2. C(n) = C(n - 1) + 1
      <4> HIDE DEF Upto
      <4> QED
        BY <1>1, <2>1, <3>1, FS_AddElement
    <3>3. {C(i) : i \in Upto(n)} = {C(i) : i \in Upto(n - 1)} \cup {C(n)}
      BY <3>1
    <3> HIDE DEF Upto, C
    <3> QED
      BY <2>1, <3>2, <3>3
  <2>3. CASE n \notin P
    <3>1. Upto(n) = Upto(n - 1)
      BY <2>1, <2>3
    <3> HIDE DEF Upto
    <3> QED
      BY <2>1, <3>1
  <2> QED
    BY <2>2, <2>3
<1>4. \A n \in 0 .. N : n \in T
  <2> HIDE DEF T
  <2> QED
    BY <1>2, <1>3, IntervalInduction
<1> QED
  BY <1>4

\* An account's counter over an acceptable batch.
LEMMA CreditsCountUp ==
  ASSUME NEW batch \in Seq(AnyHash), NEW a \in Addr
  PROVE  LET own == {i \in 1 .. Len(batch) : Creditee(batch[i]) = a}
             credited == CreditedUpTo(batch, a, Len(batch))
         IN  /\ credited \in Nat /\ \A i \in 0 .. Len(batch) : CreditedUpTo(batch, a, i) \in Nat
             /\ {CreditedUpTo(batch, a, i) : i \in own} = 1 .. credited
<1> DEFINE N == Len(batch)
           P == {i \in 1 .. N : Creditee(batch[i]) = a}
           Upto(n) == {i \in 1 .. n : i \in P}
<1>1. N \in Nat
  OBVIOUS
<1>2. \A n \in 0 .. N : CreditedUpTo(batch, a, n) = Cardinality(Upto(n))
  <2> TAKE n \in 0 .. N
  <2>1. {i \in 1 .. n : Creditee(batch[i]) = a} = Upto(n)
    BY <1>1
  <2> QED
    BY <2>1 DEF CreditedUpTo
<1>3. \A n \in 0 .. N : /\ Cardinality(Upto(n)) \in 0 .. n
                        /\ {Cardinality(Upto(i)) : i \in Upto(n)} = 1 .. Cardinality(Upto(n))
  <2> HIDE DEF P, N
  <2> QED
    BY <1>1, CountsUp
<1>4. {CreditedUpTo(batch, a, i) : i \in P} = {Cardinality(Upto(i)) : i \in P} /\ P = Upto(N)
  <2>1. P \subseteq 0 .. N /\ P = Upto(N)
    BY <1>1
  <2> HIDE DEF P, Upto, N
  <2> QED
    BY <1>2, <2>1
<1>5. Cardinality(Upto(N)) = CreditedUpTo(batch, a, N) /\ N \in 0 .. N
  BY <1>1, <1>2
<1>6. {CreditedUpTo(batch, a, i) : i \in P} = 1 .. CreditedUpTo(batch, a, N)
  <2> HIDE DEF P, N, Upto
  <2> QED
    BY <1>3, <1>4, <1>5
<1>7. \A i \in 0 .. N : CreditedUpTo(batch, a, i) \in Nat
  <2> HIDE DEF Upto, N
  <2> QED
    BY <1>1, <1>2, <1>3
<1> QED
  BY <1>1, <1>6, <1>7

\* The inductive invariant of the PointMinted log: it is finite, so that its entries can be counted.
LogsInv == IsFiniteSet(mintLog) /\ LogsRebuildBalances

OwnEvents(a) == {e \in mintLog : e.contributor = a}

\* A batch adds to the log of an account the next balances, one for each digest it credits.
LEMMA BatchKeepsLogs ==
  ASSUME SBTInv, LogsInv, NEW batch \in Seq(AnyHash), mintBatch(batch)
  PROVE  LogsInv'
<1> DEFINE N == Len(batch)
           Own(a) == {i \in 1 .. N : Creditee(batch[i]) = a}
           ev(i) == PointMintedEvent(Creditee(batch[i]), batch[i],
                      points[Creditee(batch[i])] + CreditedUpTo(batch, Creditee(batch[i]), i),
                      totalPoints + i)
           added(a) == {ev(i) : i \in Own(a)}
           credited(a) == CreditedUpTo(batch, a, N)
<1>1. /\ N \in Nat /\ DOMAIN batch = 1 .. N
      /\ BatchAcceptable(batch)
      /\ minted' = minted \cup Range(batch)
      /\ points' = BatchCredit(batch)
      /\ totalPoints' = totalPoints + N
      /\ mintLog' = mintLog \cup {ev(i) : i \in 1 .. N}
      /\ records' = records
  BY DEF mintBatch, vars, registryVars
<1>2. \A i, j \in 1 .. N : batch[i] = batch[j] => i = j
  BY <1>1 DEF BatchAcceptable
<1>3. \A i \in 1 .. N : /\ ev(i).contributor = Creditee(batch[i])
                        /\ ev(i).contentHash = batch[i]
                        /\ ev(i).newBalance = points[Creditee(batch[i])]
                                                + CreditedUpTo(batch, Creditee(batch[i]), i)
                        /\ ev(i).newTotalPoints = totalPoints + i
  BY DEF PointMintedEvent
<1>4. totalPoints \in Nat /\ points \in [Addr -> Nat]
  BY DEF SBTInv, SBTTypeOK
<1>5. \A a \in Addr : /\ credited(a) \in Nat /\ points'[a] = points[a] + credited(a)
                      /\ {CreditedUpTo(batch, a, i) : i \in Own(a)} = 1 .. credited(a)
  BY <1>1, CreditsCountUp DEF BatchCredit
<1>6. IsFiniteSet(1 .. N) /\ \A a \in Addr : IsFiniteSet(Own(a)) /\ Cardinality(Own(a)) = credited(a)
  <2>1. IsFiniteSet(1 .. N)
    BY <1>1, FS_Interval
  <2>2. \A a \in Addr : IsFiniteSet(Own(a))
    BY <2>1, FS_Subset
  <2> QED
    BY <2>1, <2>2 DEF CreditedUpTo
<1> HIDE DEF ev, N
<1>7. IsFiniteSet(mintLog')
  <2> DEFINE I == 1 .. N
             f == [i \in I |-> ev(i)]
  <2>1. {ev(i) : i \in 1 .. N} = {f[i] : i \in I} /\ \A i, j \in I : f[i] = f[j] => i = j
    BY <1>2, <1>3
  <2>2. IsFiniteSet({f[i] : i \in I})
    <3>1. IsFiniteSet(I)
      BY <1>6
    <3> HIDE DEF f, I
    <3> QED
      BY <2>1, <3>1, InjectiveImage
  <2> QED
    BY <1>1, <2>1, <2>2, FS_Union DEF LogsInv
<1>8. ASSUME NEW a \in Addr
      PROVE  /\ {e.newBalance : e \in OwnEvents(a)'} = 1 .. points'[a]
             /\ {e.contentHash : e \in OwnEvents(a)'} = MintedOf(a)'
             /\ Cardinality(OwnEvents(a)') = points'[a]
  <2>1. OwnEvents(a)' = OwnEvents(a) \cup added(a)
    BY <1>1, <1>3 DEF OwnEvents
  <2>2. /\ {e.newBalance : e \in OwnEvents(a)} = 1 .. points[a]
        /\ {e.contentHash : e \in OwnEvents(a)} = MintedOf(a)
        /\ Cardinality(OwnEvents(a)) = points[a]
    BY DEF LogsInv, LogsRebuildBalances, OwnEvents
  <2>3. {e.newBalance : e \in added(a)} = {points[a] + k : k \in 1 .. credited(a)}
    <3>1. {e.newBalance : e \in added(a)} = {points[a] + CreditedUpTo(batch, a, i) : i \in Own(a)}
      BY <1>3
    <3> QED
      BY <1>5, <3>1
  <2>4. {points[a] + k : k \in 1 .. credited(a)} = (points[a] + 1) .. (points[a] + credited(a))
    <3> SUFFICES ASSUME NEW x PROVE x \in {points[a] + k : k \in 1 .. credited(a)}
                                      <=> x \in (points[a] + 1) .. (points[a] + credited(a))
      OBVIOUS
    <3>1. points[a] \in Nat /\ credited(a) \in Nat
      BY <1>4, <1>5
    <3> HIDE DEF credited
    <3>2. ASSUME x \in (points[a] + 1) .. (points[a] + credited(a))
          PROVE  x \in {points[a] + k : k \in 1 .. credited(a)}
      <4>1. x - points[a] \in 1 .. credited(a) /\ x = points[a] + (x - points[a])
        BY <3>1, <3>2
      <4> QED
        BY <4>1
    <3> QED
      BY <3>1, <3>2
  <2>5. {e.contentHash : e \in added(a)} = {h \in Range(batch) : Creditee(h) = a}
    BY <1>1, <1>3 DEF Range
  <2>6. OwnEvents(a) \cap added(a) = {}
    <3> SUFFICES ASSUME NEW e \in OwnEvents(a), e \in added(a) PROVE FALSE
      OBVIOUS
    <3>1. e.newBalance \in 1 .. points[a]
      BY <2>2
    <3>2. e.newBalance \in (points[a] + 1) .. (points[a] + credited(a))
      BY <2>3, <2>4
    <3> QED
      BY <1>4, <3>1, <3>2
  <2>7. IsFiniteSet(added(a)) /\ Cardinality(added(a)) = credited(a)
    <3>1. \A i, j \in Own(a) : ev(i) = ev(j) => i = j
      BY <1>2, <1>3
    <3> DEFINE f == [i \in Own(a) |-> ev(i)]
    <3>2. \A i, j \in Own(a) : f[i] = f[j] => i = j
      BY <3>1
    <3>3. {f[i] : i \in Own(a)} = added(a)
      OBVIOUS
    <3>4. IsFiniteSet({f[i] : i \in Own(a)}) /\ Cardinality({f[i] : i \in Own(a)}) = Cardinality(Own(a))
      <4> HIDE DEF f, Own
      <4> QED
        BY <1>6, <3>2, InjectiveImage
    <3> QED
      BY <1>6, <3>3, <3>4
  <2>8. IsFiniteSet(OwnEvents(a))
    BY FS_Subset DEF LogsInv, OwnEvents
  <2> HIDE DEF added, credited
  <2>9. {e.newBalance : e \in OwnEvents(a)'} = 1 .. points'[a]
    <3>1. {e.newBalance : e \in OwnEvents(a)'}
             = 1 .. points[a] \cup (points[a] + 1) .. (points[a] + credited(a))
      BY <2>1, <2>2, <2>3, <2>4
    <3> QED
      BY <1>4, <1>5, <3>1
  <2>10. {e.contentHash : e \in OwnEvents(a)'} = MintedOf(a)'
    <3>1. {e.contentHash : e \in OwnEvents(a)'} = MintedOf(a) \cup {h \in Range(batch) : Creditee(h) = a}
      BY <2>1, <2>2, <2>5
    <3> QED
      BY <1>1, <3>1 DEF MintedOf, Creditee
  <2>11. Cardinality(OwnEvents(a)') = points'[a]
    <3>1. Cardinality(OwnEvents(a) \cup added(a)) = Cardinality(OwnEvents(a)) + Cardinality(added(a))
      BY <2>6, <2>7, <2>8, DisjointUnion
    <3>2. Cardinality(OwnEvents(a)) = points[a] /\ points'[a] = points[a] + credited(a)
      BY <1>5, <2>2
    <3>3. OwnEvents(a)' = OwnEvents(a) \cup added(a)
      BY <2>1
    <3> QED
      BY <2>7, <3>1, <3>2, <3>3
  <2> QED
    BY <2>9, <2>10, <2>11
<1>9. {e.newTotalPoints : e \in mintLog'} = 1 .. totalPoints'
  <2>1. {e.newTotalPoints : e \in mintLog'} = 1 .. totalPoints \cup {totalPoints + i : i \in 1 .. N}
    BY <1>1, <1>3 DEF LogsInv, LogsRebuildBalances
  <2>2. {totalPoints + i : i \in 1 .. N} = (totalPoints + 1) .. (totalPoints + N)
    <3> SUFFICES ASSUME NEW x \in (totalPoints + 1) .. (totalPoints + N)
                 PROVE  x \in {totalPoints + i : i \in 1 .. N}
      BY <1>1, <1>4
    <3>1. x - totalPoints \in 1 .. N /\ x = totalPoints + (x - totalPoints)
      BY <1>1, <1>4
    <3> QED
      BY <3>1
  <2> QED
    BY <1>1, <1>4, <2>1, <2>2
<1> QED
  BY <1>7, <1>8, <1>9 DEF LogsInv, LogsRebuildBalances, OwnEvents

\* A mint is a batch of one.
LEMMA MintIsBatchOfOne ==
  ASSUME SBTInv, NEW h \in AnyHash, mint(h)
  PROVE  <<h>> \in Seq(AnyHash) /\ mintBatch(<<h>>)
<1> DEFINE b == <<h>>
           c == Creditee(h)
<1>1. b \in Seq(AnyHash) /\ Len(b) = 1 /\ DOMAIN b = {1} /\ b[1] = h /\ Range(b) = {h}
  BY DEF Range
<1>2. BatchAcceptable(b)
  BY <1>1 DEF mint, BatchAcceptable
<1>3. \A a \in Addr : CreditedUpTo(b, a, 1) = IF a = c THEN 1 ELSE 0
  <2> TAKE a \in Addr
  <2>1. {i \in 1 .. 1 : Creditee(b[i]) = a} = IF a = c THEN {1} ELSE {}
    BY <1>1
  <2>2. Cardinality({1}) = 1 /\ Cardinality({}) = 0
    BY FS_Singleton, FS_EmptySet
  <2> QED
    BY <2>1, <2>2 DEF CreditedUpTo
<1>4. points \in [Addr -> Nat] /\ c \in Addr /\ totalPoints \in Nat
  <2>1. records[h] \in Record /\ isAnchored(h)
    BY DEF SBTInv, LedgerInv, TypeOK, mint, Mintable
  <2> QED
    BY <2>1 DEF SBTInv, SBTTypeOK, isAnchored, Creditee, Record, AnyAddr
<1>5. points' = BatchCredit(b)
  <2>1. points' = [points EXCEPT ![c] = @ + 1]
    BY DEF mint
  <2>2. BatchCredit(b) = [a \in Addr |-> points[a] + IF a = c THEN 1 ELSE 0]
    BY <1>1, <1>3 DEF BatchCredit
  <2>3. \A a \in Addr : points'[a] = points[a] + IF a = c THEN 1 ELSE 0
    BY <1>4, <2>1
  <2> HIDE DEF c
  <2> QED
    BY <1>4, <2>1, <2>2, <2>3
<1>6. mintLog' = mintLog \cup
         {LET a == Creditee(b[i])
          IN  PointMintedEvent(a, b[i], points[a] + CreditedUpTo(b, a, i), totalPoints + i) :
            i \in DOMAIN b}
  BY <1>1, <1>3, <1>4 DEF mint
<1> QED
  BY <1>1, <1>2, <1>5, <1>6 DEF mint, mintBatch

-----------------------------------------------------------------------------
\* The loop of mintBatch, unfolded round by round.

\* The next position counts for an account if its digest credits it.
LEMMA CreditStep ==
  ASSUME NEW batch \in Seq(AnyHash), NEW a \in Addr
  PROVE  /\ CreditedUpTo(batch, a, 0) = 0
         /\ \A n \in 1 .. Len(batch) :
              CreditedUpTo(batch, a, n) = CreditedUpTo(batch, a, n - 1)
                                            + IF Creditee(batch[n]) = a THEN 1 ELSE 0
<1> DEFINE Upto(n) == {i \in 1 .. n : Creditee(batch[i]) = a}
<1>1. Upto(0) = {} /\ Cardinality({}) = 0
  BY FS_EmptySet
<1>2. ASSUME NEW n \in 1 .. Len(batch)
      PROVE  Cardinality(Upto(n)) = Cardinality(Upto(n - 1)) + IF Creditee(batch[n]) = a THEN 1 ELSE 0
  <2>1. n \in Nat /\ n - 1 \in Nat
    OBVIOUS
  <2>2. IsFiniteSet(Upto(n - 1)) /\ Cardinality(Upto(n - 1)) \in Nat
    <3>1. IsFiniteSet(1 .. (n - 1))
      BY <2>1, FS_Interval
    <3>2. IsFiniteSet(Upto(n - 1))
      BY <3>1, FS_Subset
    <3> QED
      BY <3>2, FS_CardinalityType
  <2>3. CASE Creditee(batch[n]) = a
    <3>1. Upto(n) = Upto(n - 1) \cup {n} /\ n \notin Upto(n - 1)
      BY <2>1, <2>3
    <3> HIDE DEF Upto
    <3> QED
      BY <2>2, <2>3, <3>1, FS_AddElement
  <2>4. CASE Creditee(batch[n]) # a
    <3>1. Upto(n) = Upto(n - 1)
      BY <2>1, <2>4
    <3> HIDE DEF Upto
    <3> QED
      BY <2>2, <2>4, <3>1
  <2> QED
    BY <2>3, <2>4
<1> QED
  BY <1>1, <1>2 DEF CreditedUpTo

LoopState == [ok : BOOLEAN, minted : SUBSET AnyHash, points : [Addr -> Nat]]

\* One call of _mint in the loop of mintBatch, on the state the calls before it left.
LoopStep(st, h) ==
  IF ~st.ok \/ h \in st.minted \/ ~isAnchored(h) \/ ~records[h].authorBound
  THEN [st EXCEPT !.ok = FALSE]
  ELSE [ok |-> TRUE, minted |-> st.minted \cup {h},
        points |-> [st.points EXCEPT ![Creditee(h)] = @ + 1]]

LEMMA LoopStepType ==
  ASSUME SBTInv, NEW st \in LoopState, NEW h \in AnyHash
  PROVE  LoopStep(st, h) \in LoopState
<1>1. isAnchored(h) => Creditee(h) \in Addr
  BY DEF SBTInv, LedgerInv, TypeOK, Record, isAnchored, Creditee, AnyAddr
<1>2. [st EXCEPT !.ok = FALSE] \in LoopState
  BY DEF LoopState
<1>3. isAnchored(h) => [ok |-> TRUE, minted |-> st.minted \cup {h},
                        points |-> [st.points EXCEPT ![Creditee(h)] = @ + 1]] \in LoopState
  BY <1>1 DEF LoopState
<1> QED
  BY <1>2, <1>3 DEF LoopStep

\* The loop of mintBatch computes a state in every round.
LEMMA MintLoopRuns ==
  ASSUME SBTInv, NEW batch \in Seq(AnyHash)
  PROVE  \E f \in [0 .. Len(batch) -> LoopState] :
           /\ f[0] = [ok |-> TRUE, minted |-> minted, points |-> points]
           /\ \A n \in 1 .. Len(batch) : f[n] = LoopStep(f[n - 1], batch[n])
           /\ mintLoop(batch) = f[Len(batch)]
<1> DEFINE N == Len(batch)
           base == [ok |-> TRUE, minted |-> minted, points |-> points]
           step == [sn \in LoopState \X (1 .. N) |-> LoopStep(sn[1], batch[sn[2]])]
           Body(f) == [n \in 0 .. Len(batch) |-> IF n = 0 THEN base ELSE LoopStep(f[n - 1], batch[n])]
           run == CHOOSE f : f = Body(f)
<1>1. N \in Nat /\ \A n \in 1 .. N : batch[n] \in AnyHash
  OBVIOUS
<1>2. base \in LoopState
  BY DEF LoopState, SBTInv, SBTTypeOK, AnyHash
<1>3. step \in [LoopState \X (1 .. N) -> LoopState]
  BY <1>1, LoopStepType
<1>4. PICK f : IsLoop(f, N, LoopState, base, step)
  <2> HIDE DEF step, N, base
  <2> QED
    BY <1>1, <1>2, <1>3, LoopExists
<1>5. /\ f \in [0 .. N -> LoopState] /\ f[0] = base
      /\ \A n \in 1 .. N : f[n] = LoopStep(f[n - 1], batch[n])
  <2>1. f \in [0 .. N -> LoopState] /\ f[0] = base
    BY <1>4 DEF IsLoop
  <2>2. ASSUME NEW n \in 1 .. N PROVE f[n] = LoopStep(f[n - 1], batch[n])
    <3>1. f[n - 1] \in LoopState /\ <<f[n - 1], n>> \in LoopState \X (1 .. N)
      BY <1>1, <2>1
    <3>2. f[n] = step[<<f[n - 1], n>>]
      BY <1>4 DEF IsLoop
    <3> QED
      BY <3>1, <3>2
  <2> QED
    BY <2>1, <2>2
<1>6. f = Body(f)
  BY <1>1, <1>5
<1>7. run = Body(run)
  BY <1>6, Zenon
<1>8. mintLoop(batch) = run[N]
  BY Zenon DEF mintLoop, LoopStep
<1>9. run[0] = base /\ \A n \in 1 .. N : run[n] = LoopStep(run[n - 1], batch[n])
  <2> DEFINE r == run
  <2>1. r = Body(r)
    BY <1>7
  <2> HIDE DEF r
  <2>2. r[0] = base
    BY <1>1, <2>1
  <2>3. ASSUME NEW n \in 1 .. N PROVE r[n] = LoopStep(r[n - 1], batch[n])
    <3>1. n \in 0 .. Len(batch) /\ n # 0
      BY <1>1
    <3>2. Body(r)[n] = LoopStep(r[n - 1], batch[n])
      BY <3>1
    <3> HIDE DEF Body
    <3> QED
      BY <2>1, <3>2
  <2> QED
    BY <2>2, <2>3 DEF r
<1>10. SameValues(run, f, N)
  <2> HIDE DEF run, Body, N, step, base
  <2>1. N \in Nat /\ SameRounds(run, f, N)
    BY <1>1, <1>5, <1>9 DEF SameRounds
  <2> QED
    BY <2>1, LoopsAgree
<1>11. mintLoop(batch) = f[N]
  <2> HIDE DEF run
  <2> QED
    BY <1>1, <1>8, <1>10 DEF SameValues
<1> QED
  BY <1>5, <1>11

\* The first n digests of a batch are all mintable and no digest occurs twice among them.
PrefixAcceptable(batch, n) ==
  /\ \A i \in 1 .. n : Mintable(batch[i])
  /\ \A i, j \in 1 .. n : batch[i] = batch[j] => i = j

\* What the loop of mintBatch has made of the state after n digests.
LoopAfter(st, batch, n) ==
  /\ st.ok <=> PrefixAcceptable(batch, n)
  /\ st.ok => /\ st.minted = minted \cup {batch[i] : i \in 1 .. n}
              /\ st.points = [a \in Addr |-> points[a] + CreditedUpTo(batch, a, n)]

\* One round of the loop.
LEMMA LoopRound ==
  ASSUME SBTInv, NEW batch \in Seq(AnyHash), NEW n \in 1 .. Len(batch), NEW st \in LoopState,
         LoopAfter(st, batch, n - 1)
  PROVE  LoopAfter(LoopStep(st, batch[n]), batch, n)
<1> DEFINE h == batch[n]
<1>1. n \in Nat /\ n - 1 \in Nat /\ 1 .. n = 1 .. (n - 1) \cup {n} /\ h \in AnyHash
  OBVIOUS
<1>2. CASE ~PrefixAcceptable(batch, n - 1)
  <2>1. ~PrefixAcceptable(batch, n)
    BY <1>1, <1>2 DEF PrefixAcceptable
  <2>2. LoopStep(st, h) = [st EXCEPT !.ok = FALSE] /\ [st EXCEPT !.ok = FALSE].ok = FALSE
    BY <1>2 DEF LoopAfter, LoopStep, LoopState
  <2> QED
    BY <2>1, <2>2 DEF LoopAfter
<1>3. CASE PrefixAcceptable(batch, n - 1)
  <2> DEFINE fits == h \notin st.minted /\ isAnchored(h) /\ records[h].authorBound
  <2>1. st.ok /\ st.minted = minted \cup {batch[i] : i \in 1 .. (n - 1)}
    BY <1>3 DEF LoopAfter
  <2>2. fits <=> PrefixAcceptable(batch, n)
    <3>1. fits <=> Mintable(h) /\ \A i \in 1 .. (n - 1) : batch[i] # h
      BY <2>1 DEF Mintable
    <3>2. PrefixAcceptable(batch, n) <=> Mintable(h) /\ \A i \in 1 .. (n - 1) : batch[i] # h
      BY <1>1, <1>3 DEF PrefixAcceptable
    <3> QED
      BY <3>1, <3>2
  <2>3. CASE ~fits
    <3>1. LoopStep(st, h) = [st EXCEPT !.ok = FALSE] /\ [st EXCEPT !.ok = FALSE].ok = FALSE
      BY <2>3 DEF LoopStep, LoopState
    <3> QED
      BY <2>2, <2>3, <3>1 DEF LoopAfter
  <2>4. CASE fits
    <3> DEFINE pts == [st.points EXCEPT ![Creditee(h)] = @ + 1]
    <3>1. LoopStep(st, h) = [ok |-> TRUE, minted |-> st.minted \cup {h}, points |-> pts]
      BY <2>1, <2>4 DEF LoopStep
    <3>2. st.minted \cup {h} = minted \cup {batch[i] : i \in 1 .. n}
      BY <1>1, <2>1
    <3>3. pts = [a \in Addr |-> points[a] + CreditedUpTo(batch, a, n)]
      <4>1. st.points = [a \in Addr |-> points[a] + CreditedUpTo(batch, a, n - 1)]
        BY <1>3 DEF LoopAfter
      <4>2. \A a \in Addr : CreditedUpTo(batch, a, n)
                              = CreditedUpTo(batch, a, n - 1) + IF Creditee(h) = a THEN 1 ELSE 0
        BY CreditStep
      <4>3. \A a \in Addr : points[a] \in Nat /\ CreditedUpTo(batch, a, n - 1) \in Nat
        BY <1>1, CreditsCountUp DEF SBTInv, SBTTypeOK
      <4>4. \A a \in Addr : pts[a] = st.points[a] + IF Creditee(h) = a THEN 1 ELSE 0
        BY <4>1, <4>3
      <4>5. \A a \in Addr : pts[a] = points[a] + CreditedUpTo(batch, a, n)
        <5> HIDE DEF pts, h
        <5> QED
          BY <4>1, <4>2, <4>3, <4>4
      <4>6. pts = [a \in Addr |-> pts[a]]
        BY <4>1
      <4> HIDE DEF pts
      <4> QED
        BY <4>5, <4>6
    <3> HIDE DEF pts
    <3> QED
      BY <2>2, <2>4, <3>1, <3>2, <3>3 DEF LoopAfter
  <2> QED
    BY <2>3, <2>4
<1> QED
  BY <1>2, <1>3

\* The loop of mintBatch accepts what BatchAcceptable accepts, and credits what it says.
LEMMA LoopIsBatch ==
  ASSUME SBTInv, NEW batch \in Seq(AnyHash)
  PROVE  /\ BatchAcceptable(batch) <=> mintLoop(batch).ok
         /\ BatchAcceptable(batch) => mintLoop(batch).points = BatchCredit(batch)
<1> DEFINE N == Len(batch)
<1>1. PICK f \in [0 .. N -> LoopState] :
        /\ f[0] = [ok |-> TRUE, minted |-> minted, points |-> points]
        /\ \A n \in 1 .. N : f[n] = LoopStep(f[n - 1], batch[n])
        /\ mintLoop(batch) = f[N]
  BY MintLoopRuns
<1>2. N \in Nat /\ DOMAIN batch = 1 .. N
  OBVIOUS
<1> DEFINE T == {n \in 0 .. N : LoopAfter(f[n], batch, n)}
<1>3. 0 \in T
  <2>1. PrefixAcceptable(batch, 0) /\ {batch[i] : i \in 1 .. 0} = {}
    BY DEF PrefixAcceptable
  <2>2. points = [a \in Addr |-> points[a] + CreditedUpTo(batch, a, 0)]
    BY CreditStep DEF SBTInv, SBTTypeOK
  <2>3. LoopAfter([ok |-> TRUE, minted |-> minted, points |-> points], batch, 0)
    BY <2>1, <2>2 DEF LoopAfter
  <2> QED
    <3>1. f[0] = [ok |-> TRUE, minted |-> minted, points |-> points] /\ 0 \in 0 .. N
      BY <1>1, <1>2
    <3>2. LoopAfter(f[0], batch, 0)
      BY <2>3, <3>1, Zenon
    <3> QED
      BY <3>1, <3>2
<1>4. ASSUME NEW n \in 1 .. N, n - 1 \in T PROVE n \in T
  <2>1. f[n - 1] \in LoopState /\ LoopAfter(f[n - 1], batch, n - 1)
    BY <1>1, <1>2, <1>4
  <2>2. LoopAfter(LoopStep(f[n - 1], batch[n]), batch, n)
    BY <1>2, <2>1, LoopRound
  <2> QED
    BY <1>1, <1>2, <2>2
<1>5. N \in T
  <2>1. \A n \in 0 .. N : n \in T
    <3> HIDE DEF T, N
    <3> QED
      BY <1>2, <1>3, <1>4, IntervalInduction
  <2> HIDE DEF T
  <2> QED
    BY <1>2, <2>1
<1>6. BatchAcceptable(batch) <=> PrefixAcceptable(batch, N)
  BY <1>2 DEF BatchAcceptable, PrefixAcceptable
<1> QED
  BY <1>1, <1>5, <1>6 DEF LoopAfter, BatchCredit

-----------------------------------------------------------------------------
\* The loop of the off-chain oracle.

OracleRecord == [contentHash : AnyHash, contributor : Addr, authorBound : BOOLEAN]

OracleState == [points : [Addr -> Nat], minted : SUBSET AnyHash]

OracleBase == [points |-> [a \in Addr |-> 0], minted |-> {}]

\* One record read by the oracle.
OracleStep(before, r) ==
  IF ~r.authorBound \/ r.contentHash \in before.minted THEN before
  ELSE [points |-> [before.points EXCEPT ![r.contributor] = @ + 1],
        minted |-> before.minted \cup {r.contentHash}]

\* The loop of the oracle computes a state after every record.
LEMMA OracleRuns ==
  ASSUME NEW recs \in Seq(OracleRecord)
  PROVE  \E f \in [0 .. Len(recs) -> OracleState] :
           /\ f[0] = OracleBase
           /\ \A n \in 1 .. Len(recs) : f[n] = OracleStep(f[n - 1], recs[n])
           /\ projectPoints(recs) = f[Len(recs)]
<1> DEFINE N == Len(recs)
           step == [sn \in OracleState \X (1 .. N) |-> OracleStep(sn[1], recs[sn[2]])]
           Body(f) == [n \in 0 .. Len(recs) |-> IF n = 0 THEN OracleBase ELSE OracleStep(f[n - 1], recs[n])]
           project == CHOOSE f : f = Body(f)
<1>1. N \in Nat /\ \A n \in 1 .. N : recs[n] \in OracleRecord
  OBVIOUS
<1>2. OracleBase \in OracleState
  BY DEF OracleBase, OracleState
<1>3. step \in [OracleState \X (1 .. N) -> OracleState]
  <2>1. \A s \in OracleState, r \in OracleRecord : OracleStep(s, r) \in OracleState
    BY DEF OracleStep, OracleState, OracleRecord
  <2> QED
    BY <1>1, <2>1
<1>4. PICK f : IsLoop(f, N, OracleState, OracleBase, step)
  <2> HIDE DEF step, N
  <2> QED
    BY <1>1, <1>2, <1>3, LoopExists
<1>5. /\ f \in [0 .. N -> OracleState] /\ f[0] = OracleBase
      /\ \A n \in 1 .. N : f[n] = OracleStep(f[n - 1], recs[n])
  <2>1. f \in [0 .. N -> OracleState] /\ f[0] = OracleBase
    BY <1>4 DEF IsLoop
  <2>2. ASSUME NEW n \in 1 .. N PROVE f[n] = OracleStep(f[n - 1], recs[n])
    <3>1. f[n - 1] \in OracleState /\ <<f[n - 1], n>> \in OracleState \X (1 .. N)
      BY <1>1, <2>1
    <3>2. f[n] = step[<<f[n - 1], n>>]
      BY <1>4 DEF IsLoop
    <3> QED
      BY <3>1, <3>2
  <2> QED
    BY <2>1, <2>2
<1>6. f = Body(f)
  BY <1>1, <1>5
<1>7. project = Body(project)
  BY <1>6, Zenon
<1>8. projectPoints(recs) = project[N]
  BY Zenon DEF projectPoints, OracleStep, OracleBase
<1>9. project[0] = OracleBase /\ \A n \in 1 .. N : project[n] = OracleStep(project[n - 1], recs[n])
  <2> DEFINE r == project
  <2>1. r = Body(r)
    BY <1>7
  <2> HIDE DEF r
  <2>2. r[0] = OracleBase
    BY <1>1, <2>1
  <2>3. ASSUME NEW n \in 1 .. N PROVE r[n] = OracleStep(r[n - 1], recs[n])
    <3>1. n \in 0 .. Len(recs) /\ n # 0
      BY <1>1
    <3>2. Body(r)[n] = OracleStep(r[n - 1], recs[n])
      BY <3>1
    <3> HIDE DEF Body
    <3> QED
      BY <2>1, <3>2
  <2> QED
    BY <2>2, <2>3 DEF r
<1>10. SameValues(project, f, N)
  <2> HIDE DEF project, Body, N, step
  <2>1. N \in Nat /\ SameRounds(project, f, N)
    BY <1>1, <1>5, <1>9 DEF SameRounds
  <2> QED
    BY <2>1, LoopsAgree
<1>11. projectPoints(recs) = f[N]
  <2> HIDE DEF project
  <2> QED
    BY <1>1, <1>8, <1>10 DEF SameValues
<1> QED
  BY <1>5, <1>11

\* The author-bound digests among the first n records, and those that name an account.
BoundUpTo(n) == {h \in AnyHash : /\ \E i \in 1 .. n : hashByIndex[i - 1] = h
                                 /\ records[h].authorBound}
BoundOf(n, a) == {h \in BoundUpTo(n) : Creditee(h) = a}

OracleAfter(st, n) ==
  /\ st.minted = BoundUpTo(n)
  /\ \A a \in Addr : IsFiniteSet(BoundOf(n, a)) /\ st.points[a] = Cardinality(BoundOf(n, a))

LEMMA LedgerIsRead ==
  ASSUME SBTInv
  PROVE  /\ LedgerRecords \in Seq(OracleRecord) /\ Len(LedgerRecords) = total /\ total \in Nat
         /\ \A n \in 1 .. total : LET h == hashByIndex[n - 1]
                                  IN  /\ h \in AnyHash /\ Creditee(h) \in Addr
                                      /\ records[h].authorBound \in BOOLEAN
                                      /\ LedgerRecords[n] = [contentHash |-> h, contributor |-> Creditee(h),
                                                             authorBound |-> records[h].authorBound]
<1>1. total \in Nat
  BY DEF SBTInv, LedgerInv, TypeOK
<1>2. ASSUME NEW n \in 1 .. total
      PROVE  LET h == hashByIndex[n - 1]
             IN  h \in AnyHash /\ Creditee(h) \in Addr /\ records[h].authorBound \in BOOLEAN
  <2> DEFINE h == hashByIndex[n - 1]
  <2>1. h \in AnyHash /\ isAnchored(h)
    <3>1. n - 1 \in Indices
      BY <1>1 DEF Indices
    <3>2. h \in Anchored
      BY <3>1 DEF SBTInv, LedgerInv, EnumerationExact
    <3> QED
      BY <3>2 DEF Anchored
  <2>2. records[h] \in Record
    BY <2>1 DEF SBTInv, LedgerInv, TypeOK
  <2> QED
    BY <2>1, <2>2 DEF isAnchored, Creditee, Record, AnyAddr
<1>3. \A n \in 1 .. total : LedgerRecords[n] =
          [contentHash |-> hashByIndex[n - 1], contributor |-> Creditee(hashByIndex[n - 1]),
           authorBound |-> records[hashByIndex[n - 1]].authorBound]
  BY DEF LedgerRecords, Creditee
<1>4. LedgerRecords \in [1 .. total -> OracleRecord]
  <2>1. \A n \in 1 .. total :
          [contentHash |-> hashByIndex[n - 1], contributor |-> Creditee(hashByIndex[n - 1]),
           authorBound |-> records[hashByIndex[n - 1]].authorBound] \in OracleRecord
    BY <1>2 DEF OracleRecord
  <2> QED
    BY <1>3, <2>1 DEF LedgerRecords
<1>5. LedgerRecords \in Seq(OracleRecord) /\ Len(LedgerRecords) = total
  BY <1>1, <1>4
<1> QED
  BY <1>1, <1>2, <1>3, <1>5

\* The record at a position is new to the oracle, since the ledger enumerates no digest twice.
LEMMA OracleRound ==
  ASSUME SBTInv, NEW n \in 1 .. total, NEW st \in OracleState, OracleAfter(st, n - 1)
  PROVE  OracleAfter(OracleStep(st, LedgerRecords[n]), n)
<1> DEFINE h == hashByIndex[n - 1]
           r == LedgerRecords[n]
<1>1. /\ n \in Nat /\ n - 1 \in Nat /\ total \in Nat
      /\ h \in AnyHash /\ Creditee(h) \in Addr /\ records[h].authorBound \in BOOLEAN
      /\ r.contentHash = h /\ r.contributor = Creditee(h) /\ r.authorBound = records[h].authorBound
  BY LedgerIsRead
<1>2. h \notin BoundUpTo(n - 1)
  <2>1. \A i, j \in Indices : hashByIndex[i] = hashByIndex[j] => i = j
    BY DEF SBTInv, LedgerInv, EnumerationExact
  <2>2. \A i \in 1 .. (n - 1) : i - 1 \in Indices /\ n - 1 \in Indices /\ i - 1 # n - 1
    BY <1>1 DEF Indices
  <2> QED
    BY <2>1, <2>2 DEF BoundUpTo
<1>3. BoundUpTo(n) = IF records[h].authorBound THEN BoundUpTo(n - 1) \cup {h} ELSE BoundUpTo(n - 1)
  <2>1. 1 .. n = 1 .. (n - 1) \cup {n}
    BY <1>1
  <2> QED
    BY <1>1, <2>1 DEF BoundUpTo
<1>4. CASE ~records[h].authorBound
  <2>1. OracleStep(st, r) = st /\ BoundUpTo(n) = BoundUpTo(n - 1)
    BY <1>1, <1>3, <1>4 DEF OracleStep
  <2> QED
    BY <2>1 DEF OracleAfter, BoundOf
<1>5. CASE records[h].authorBound
  <2> DEFINE pts == [st.points EXCEPT ![Creditee(h)] = @ + 1]
  <2>1. OracleStep(st, r) = [points |-> pts, minted |-> st.minted \cup {h}]
    BY <1>1, <1>2, <1>5 DEF OracleStep, OracleAfter
  <2>2. BoundUpTo(n) = BoundUpTo(n - 1) \cup {h}
    BY <1>3, <1>5
  <2>3. ASSUME NEW a \in Addr
        PROVE  IsFiniteSet(BoundOf(n, a)) /\ pts[a] = Cardinality(BoundOf(n, a))
    <3>1. /\ IsFiniteSet(BoundOf(n - 1, a)) /\ st.points[a] = Cardinality(BoundOf(n - 1, a))
          /\ st.points \in [Addr -> Nat]
      BY DEF OracleAfter, OracleState
    <3>2. CASE Creditee(h) = a
      <4>1. BoundOf(n, a) = BoundOf(n - 1, a) \cup {h} /\ h \notin BoundOf(n - 1, a)
        BY <1>2, <2>2, <3>2 DEF BoundOf
      <4>2. /\ IsFiniteSet(BoundOf(n, a))
            /\ Cardinality(BoundOf(n, a)) = Cardinality(BoundOf(n - 1, a)) + 1
        BY <3>1, <4>1, FS_AddElement
      <4>3. pts[a] = st.points[a] + 1
        BY <3>1, <3>2
      <4> QED
        BY <3>1, <4>2, <4>3
    <3>3. CASE Creditee(h) # a
      <4>1. BoundOf(n, a) = BoundOf(n - 1, a)
        BY <2>2, <3>3 DEF BoundOf
      <4>2. pts[a] = st.points[a]
        BY <3>1, <3>3
      <4> QED
        BY <3>1, <4>1, <4>2
    <3> QED
      BY <3>2, <3>3
  <2>4. st.minted = BoundUpTo(n - 1)
    BY DEF OracleAfter
  <2> HIDE DEF pts, h
  <2> QED
    BY <2>1, <2>2, <2>3, <2>4 DEF OracleAfter
<1> QED
  BY <1>1, <1>4, <1>5

\* What the oracle makes of the whole ledger: the author-bound digests, each counted once.
LEMMA OracleIsExact ==
  ASSUME SBTInv
  PROVE  /\ projectPoints(LedgerRecords) \in OracleState
         /\ OracleAfter(projectPoints(LedgerRecords), total)
<1> DEFINE recs == LedgerRecords
<1>1. total \in Nat /\ recs \in Seq(OracleRecord) /\ Len(recs) = total
  BY LedgerIsRead
<1>2. PICK f \in [0 .. total -> OracleState] :
        /\ f[0] = OracleBase
        /\ \A n \in 1 .. total : f[n] = OracleStep(f[n - 1], recs[n])
        /\ projectPoints(recs) = f[total]
  <2>1. \E f \in [0 .. Len(recs) -> OracleState] :
           /\ f[0] = OracleBase
           /\ \A n \in 1 .. Len(recs) : f[n] = OracleStep(f[n - 1], recs[n])
           /\ projectPoints(recs) = f[Len(recs)]
    <3> HIDE DEF recs
    <3> QED
      BY <1>1, OracleRuns
  <2> QED
    BY <1>1, <2>1
<1> DEFINE T == {n \in 0 .. total : OracleAfter(f[n], n)}
<1>3. 0 \in T
  <2>1. BoundUpTo(0) = {} /\ \A a \in Addr : BoundOf(0, a) = {}
    BY DEF BoundUpTo, BoundOf
  <2>2. OracleAfter(OracleBase, 0)
    BY <2>1, FS_EmptySet DEF OracleAfter, OracleBase
  <2> QED
    BY <1>1, <1>2, <2>2
<1>4. ASSUME NEW n \in 1 .. total, n - 1 \in T PROVE n \in T
  <2>1. f[n - 1] \in OracleState /\ OracleAfter(f[n - 1], n - 1)
    BY <1>1, <1>2, <1>4
  <2>2. OracleAfter(OracleStep(f[n - 1], recs[n]), n)
    BY <2>1, OracleRound
  <2> QED
    BY <1>1, <1>2, <2>2
<1>5. total \in T
  <2>1. \A n \in 0 .. total : n \in T
    <3> HIDE DEF T
    <3> QED
      BY <1>1, <1>3, <1>4, IntervalInduction
  <2> HIDE DEF T
  <2> QED
    BY <1>1, <2>1
<1> QED
  BY <1>1, <1>2, <1>5

\* A balance never exceeds the oracle's, and is the oracle's once every author-bound record is minted.
LEMMA OracleBounds ==
  ASSUME SBTInv
  PROVE  OracleAgrees
<1> DEFINE oracle == projectPoints(LedgerRecords)
<1>1. oracle.minted = BoundUpTo(total) /\ oracle \in OracleState
      /\ \A a \in Addr : /\ IsFiniteSet(BoundOf(total, a))
                         /\ oracle.points[a] = Cardinality(BoundOf(total, a))
  BY OracleIsExact DEF OracleAfter
<1>2. minted \subseteq BoundUpTo(total)
  <2> SUFFICES ASSUME NEW h \in minted PROVE h \in BoundUpTo(total)
    OBVIOUS
  <2>1. h \in AnyHash /\ isAnchored(h) /\ records[h].authorBound
    BY DEF SBTInv, SBTTypeOK, PointsAudited, AnyHash
  <2>2. PICK i \in Indices : hashByIndex[i] = h
    BY <2>1 DEF SBTInv, LedgerInv, EnumerationExact, Anchored
  <2>3. i + 1 \in 1 .. total /\ (i + 1) - 1 = i
    BY LedgerIsRead DEF Indices
  <2> QED
    BY <2>1, <2>2, <2>3 DEF BoundUpTo
<1>3. \A a \in Addr : MintedOf(a) \subseteq BoundOf(total, a) /\ points[a] = Cardinality(MintedOf(a))
  BY <1>2 DEF MintedOf, BoundOf, SBTInv, PointsAudited
<1>4. \A a \in Addr : points[a] <= oracle.points[a]
  BY <1>1, <1>3, FS_Subset
<1>5. ASSUME minted = oracle.minted PROVE points = oracle.points
  <2>1. \A a \in Addr : MintedOf(a) = BoundOf(total, a)
    BY <1>1, <1>5 DEF MintedOf, BoundOf
  <2>2. points \in [Addr -> Nat] /\ oracle.points \in [Addr -> Nat]
    BY <1>1 DEF SBTInv, SBTTypeOK, OracleState
  <2>3. \A a \in Addr : points[a] = oracle.points[a]
    BY <1>1, <1>3, <2>1
  <2> HIDE DEF oracle
  <2> QED
    BY <2>2, <2>3
<1> QED
  BY <1>4, <1>5 DEF OracleAgrees

-----------------------------------------------------------------------------
\* The accounts the gate honored clear its threshold; with the points' invariant, for ever.
HonoredInv == \A e \in honored : e.account \in Addr /\ points[e.account] >= MinPoints

BackedInv == LogsInv /\ HonoredInv

LEMMA BackedInvariant == SBTSpec => []BackedInv
<1>1. SBTInit => BackedInv
  <2> SUFFICES ASSUME SBTInit PROVE BackedInv
    OBVIOUS
  <2>1. IsFiniteSet({}) /\ Cardinality({}) = 0
    BY FS_EmptySet
  <2>2. \A a \in Addr : {e \in mintLog : e.contributor = a} = {} /\ MintedOf(a) = {} /\ 1 .. points[a] = {}
    BY DEF SBTInit, MintedOf
  <2>3. LogsInv
    BY <2>1, <2>2 DEF SBTInit, LogsInv, LogsRebuildBalances
  <2> QED
    BY <2>3 DEF SBTInit, BackedInv, HonoredInv
<1>2. SBTInv /\ BackedInv /\ [SBTNext]_allVars => BackedInv'
  <2> SUFFICES ASSUME SBTInv, BackedInv, [SBTNext]_allVars PROVE BackedInv'
    OBVIOUS
  <2>1. ASSUME [Next]_vars, UNCHANGED sbtVars PROVE LogsInv'
    <3>1. \A h \in minted : records'[h] = records[h]
      BY <2>1, RegistryStepKeepsMinted
    <3>2. minted' = minted /\ points' = points /\ totalPoints' = totalPoints /\ mintLog' = mintLog
      BY <2>1 DEF sbtVars
    <3>3. \A a \in Addr : MintedOf(a)' = MintedOf(a)
      BY <3>1, <3>2 DEF MintedOf, Creditee
    <3> QED
      BY <3>2, <3>3 DEF BackedInv, LogsInv, LogsRebuildBalances
  <2>2. ASSUME NEW batch \in Seq(AnyHash), mintBatch(batch) PROVE BackedInv'
    <3>1. LogsInv'
      BY <2>2, BatchKeepsLogs DEF BackedInv
    <3>2. \A a \in Addr : points'[a] = points[a] + CreditedUpTo(batch, a, Len(batch))
                            /\ CreditedUpTo(batch, a, Len(batch)) \in Nat /\ points[a] \in Nat
      BY <2>2, CreditsCountUp DEF mintBatch, BatchCredit, SBTInv, SBTTypeOK
    <3>3. HonoredInv'
      BY <2>2, <3>2, GateAssumption DEF mintBatch, BackedInv, HonoredInv
    <3> QED
      BY <3>1, <3>3 DEF BackedInv
  <2>3. ASSUME NEW h \in AnyHash, mint(h) PROVE BackedInv'
    BY <2>2, <2>3, MintIsBatchOfOne
  <2>4. ASSUME NEW batch \in Batch, mintBatch(batch) PROVE BackedInv'
    <3>1. batch \in Seq(AnyHash)
      BY GateAssumption DEF Batch
    <3> QED
      BY <2>2, <2>4, <3>1
  <2>5. CASE Next /\ UNCHANGED <<sbtVars, honored>>
    BY <2>1, <2>5 DEF BackedInv, HonoredInv, sbtVars
  <2>6. ASSUME NEW a \in Addr, NEW r \in Ref, autoHonor(a, r) PROVE BackedInv'
    <3>1. points[a] >= MinPoints
      BY <2>6, GateAssumption DEF autoHonor, requireReputation, SBTInv, SBTTypeOK
    <3> QED
      BY <2>1, <2>6, <3>1 DEF autoHonor, BackedInv, HonoredInv, sbtVars
  <2>7. CASE UNCHANGED allVars
    BY <2>1, <2>7 DEF allVars, BackedInv, HonoredInv, sbtVars
  <2> QED
    BY <2>3, <2>4, <2>5, <2>6, <2>7 DEF SBTNext
<1> QED
  BY <1>1, <1>2, PointsInvariant, PTL DEF SBTSpec

\* The event log rebuilds the balances, a batch is the repetition of mint, the off-chain oracle
\* bounds the points and meets them when all is minted, and the honored accounts stay above the
\* threshold, in every reachable state and for every batch.
THEOREM Backed == SBTSpec => []PointsAreBacked
<1>1. SBTInv /\ BackedInv => PointsAreBacked
  <2> SUFFICES ASSUME SBTInv, BackedInv PROVE PointsAreBacked
    OBVIOUS
  <2>1. BatchIsRepeatedMint
    <3>1. \A batch \in Batch : batch \in Seq(AnyHash)
      BY GateAssumption DEF Batch
    <3> QED
      BY <3>1, LoopIsBatch DEF BatchIsRepeatedMint
  <2>2. OracleAgrees
    BY OracleBounds
  <2>3. HonoredStaysBacked
    <3> SUFFICES ASSUME NEW e \in honored
                 PROVE  isAllowed(e.account) /\ hasAtLeast(LedgerRecords, e.account, MinPoints)
      BY DEF HonoredStaysBacked
    <3>1. e.account \in Addr /\ points[e.account] >= MinPoints
      BY DEF BackedInv, HonoredInv
    <3>2. points[e.account] <= projectPoints(LedgerRecords).points[e.account]
      BY <2>2, <3>1 DEF OracleAgrees
    <3>3. /\ points[e.account] \in Nat /\ MinPoints \in Nat
          /\ projectPoints(LedgerRecords).points[e.account] \in Nat
      BY <3>1, GateAssumption, OracleIsExact DEF SBTInv, SBTTypeOK, OracleState
    <3> QED
      BY <3>1, <3>2, <3>3 DEF isAllowed, meetsThreshold, hasAtLeast, pointsOf
  <2> QED
    BY <2>1, <2>2, <2>3 DEF BackedInv, LogsInv, PointsAreBacked
<1> QED
  BY <1>1, PointsInvariant, BackedInvariant, PTL
=============================================================================
