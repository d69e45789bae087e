--------------------- MODULE ContributionRegistryProofs ---------------------
(***************************************************************************)
(* Theorems about the on-chain registry, for every set of accounts,        *)
(* digests and salts and for chains of every length.                       *)
(***************************************************************************)
EXTENDS ContributionRegistry, TLAPS

\* A step of the ledger: some path of the contract wrote one record in the open block, or the
\* record storage is untouched.
RecordWritten ==
  \E a \in Addr, h \in ContentHash, b \in BOOLEAN, p \in AnyHash :
    WriteRecord(h, a, b, p) /\ block' = block

\* Whatever function of the contract runs, it writes at most one record, through _record.
LEMMA StepWritesAtMostOneRecord ==
  [Next]_vars => RecordWritten \/ UNCHANGED registryVars
<1> SUFFICES ASSUME [Next]_vars PROVE RecordWritten \/ UNCHANGED registryVars
  OBVIOUS
<1>1. CASE UNCHANGED vars
  BY <1>1 DEF vars
<1>2. CASE NewBlock
  BY <1>2 DEF NewBlock
<1>3. ASSUME NEW a \in Addr, NEW c \in CommitmentHash \cup {ZeroHash}, commit(a, c)
      PROVE  UNCHANGED registryVars
  BY <1>3 DEF commit
<1>4. ASSUME NEW a \in Addr, NEW h \in AnyHash, NEW p \in AnyHash, anchorWithParent(a, h, p)
      PROVE  RecordWritten
  <2>1. WriteRecord(h, a, FALSE, p) /\ block' = block
    BY <1>4 DEF anchorWithParent
  <2>2. h \in ContentHash
    BY <2>1 DEF WriteRecord, Unclaimed, NonZero, AnyHash
  <2> QED
    BY <2>1, <2>2 DEF RecordWritten
<1>5. ASSUME NEW a \in Addr, NEW h \in AnyHash, NEW s \in Salt, NEW p \in AnyHash,
             revealWithParent(a, h, s, p)
      PROVE  RecordWritten
  <2>1. WriteRecord(h, a, TRUE, p) /\ block' = block
    BY <1>5 DEF revealWithParent
  <2>2. h \in ContentHash
    BY <2>1 DEF WriteRecord, Unclaimed, NonZero, AnyHash
  <2> QED
    BY <2>1, <2>2 DEF RecordWritten
<1> QED
  BY <1>1, <1>2, <1>3, <1>4, <1>5 DEF Next, anchor, reveal, AnyHash

\* What a write does to the storage, with the types made explicit.
Written(h, a, b, p) ==
  /\ h # ZeroHash
  /\ ~isAnchored(h)
  /\ p # ZeroHash => p # h /\ isAnchored(p)
  /\ total' = total + 1
  /\ DOMAIN hashByIndex' = 0 .. total
  /\ hashByIndex'[total] = h
  /\ \A i \in 0 .. total - 1 : hashByIndex'[i] = hashByIndex[i]
  /\ records' \in [AnyHash -> Record]
  /\ records'[h] = [contributor |-> a, authorBound |-> b, timestamp |-> block.timestamp,
                    blockNumber |-> block.number, parent |-> p]
  /\ \A g \in AnyHash \ {h} : records'[g] = records[g]

LEMMA WriteFacts ==
  ASSUME TypeOK, NEW a \in Addr, NEW h \in ContentHash, NEW b \in BOOLEAN, NEW p \in AnyHash,
         WriteRecord(h, a, b, p)
  PROVE  Written(h, a, b, p)
<1>1. /\ h # ZeroHash
      /\ ~isAnchored(h)
      /\ p # ZeroHash => p # h /\ isAnchored(p)
  BY DEF WriteRecord, Unclaimed, NonZero, ParentAcceptable
<1>2. /\ total' = total + 1
      /\ hashByIndex' = [i \in DOMAIN hashByIndex \cup {total} |->
                           IF i = total THEN h ELSE hashByIndex[i]]
      /\ records' = [records EXCEPT ![h] =
           [contributor |-> a, authorBound |-> b, timestamp |-> block.timestamp,
            blockNumber |-> block.number, parent |-> p]]
  BY DEF WriteRecord, IndexRecord
<1>3. total \in Nat /\ DOMAIN hashByIndex = 0 .. total - 1
  BY DEF TypeOK, Indices
<1>4. DOMAIN hashByIndex \cup {total} = 0 .. total
  BY <1>3
<1>5. /\ DOMAIN hashByIndex' = 0 .. total
      /\ hashByIndex'[total] = h
      /\ \A i \in 0 .. total - 1 : hashByIndex'[i] = hashByIndex[i]
  BY <1>2, <1>3, <1>4
<1>6. [contributor |-> a, authorBound |-> b, timestamp |-> block.timestamp,
       blockNumber |-> block.number, parent |-> p] \in Record
  BY DEF TypeOK, Record, AnyAddr
<1>7. h \in AnyHash
  BY DEF AnyHash
<1> QED
  BY <1>1, <1>2, <1>5, <1>6, <1>7 DEF TypeOK, Written

-----------------------------------------------------------------------------
\* Each part of the storage keeps its type; the first lemma covers the record storage, the
\* second the commitments and the chain.
LEMMA WriteKeepsTypes ==
  ASSUME TypeOK, RecordWritten
  PROVE  /\ records' \in [AnyHash -> Record]
         /\ total' \in Nat
         /\ DOMAIN hashByIndex' = Indices'
         /\ \A i \in Indices' : hashByIndex'[i] \in ContentHash
         /\ contributorIndices' \in [Addr -> Seq(Nat)]
         /\ contributorCount' \in [Addr -> Nat]
<1>1. PICK a \in Addr, h \in ContentHash, b \in BOOLEAN, p \in AnyHash : WriteRecord(h, a, b, p)
  BY DEF RecordWritten
<1>2. total \in Nat /\ \A i \in 0 .. total - 1 : hashByIndex[i] \in ContentHash
  BY DEF TypeOK, Indices
<1>0. Written(h, a, b, p)
  BY <1>1, WriteFacts
<1>3. /\ records' \in [AnyHash -> Record]
      /\ total' = total + 1
      /\ DOMAIN hashByIndex' = 0 .. total
      /\ hashByIndex'[total] = h
      /\ \A i \in 0 .. total - 1 : hashByIndex'[i] = hashByIndex[i]
  BY <1>0 DEF Written
<1>4. Indices' = 0 .. total
  BY <1>2, <1>3 DEF Indices
<1>5. \A i \in 0 .. total : hashByIndex'[i] \in ContentHash
  BY <1>2, <1>3
<1>6. /\ contributorIndices' = [contributorIndices EXCEPT ![a] = Append(@, total)]
      /\ contributorCount' = [contributorCount EXCEPT ![a] = @ + 1]
  BY <1>1 DEF WriteRecord, IndexRecord
<1>7. contributorCount' \in [Addr -> Nat]
  BY <1>6 DEF TypeOK
<1>8. contributorIndices' \in [Addr -> Seq(Nat)]
  <2>1. contributorIndices[a] \in Seq(Nat)
    BY DEF TypeOK
  <2>2. Append(contributorIndices[a], total) \in Seq(Nat)
    BY <2>1, <1>2
  <2> QED
    BY <2>2, <1>6 DEF TypeOK
<1> QED
  BY <1>2, <1>3, <1>4, <1>5, <1>7, <1>8

LEMMA StepKeepsChainTypes ==
  ASSUME TypeOK, [Next]_vars
  PROVE  commitments' \in [CommitmentHash -> Commitment] /\ block' \in [number: Nat, timestamp: Nat]
<1> USE DEF TypeOK
<1>1. CASE UNCHANGED vars
  BY <1>1 DEF vars
<1>2. CASE NewBlock
  BY <1>2 DEF NewBlock
<1>3. ASSUME NEW a \in Addr, NEW c \in CommitmentHash \cup {ZeroHash}, commit(a, c)
      PROVE  commitments' \in [CommitmentHash -> Commitment] /\ block' = block
  BY <1>3 DEF commit, Commitment, AnyAddr
<1>4. ASSUME NEW a \in Addr, NEW h \in AnyHash, NEW p \in AnyHash, anchorWithParent(a, h, p)
      PROVE  commitments' = commitments /\ block' = block
  BY <1>4 DEF anchorWithParent
<1>5. ASSUME NEW a \in Addr, NEW h \in AnyHash, NEW s \in Salt, NEW p \in AnyHash,
             revealWithParent(a, h, s, p)
      PROVE  commitments' \in [CommitmentHash -> Commitment] /\ block' = block
  <2>1. EmptyCommitment \in Commitment
    BY DEF EmptyCommitment, Commitment, AnyAddr
  <2>2. commitments' = [commitments EXCEPT ![commitmentOf(h, a, s)] = EmptyCommitment]
        /\ block' = block
    BY <1>5 DEF revealWithParent
  <2> QED
    BY <2>1, <2>2
<1> QED
  BY <1>1, <1>2, <1>3, <1>4, <1>5 DEF Next, anchor, reveal, AnyHash

LEMMA TypeStep == TypeOK /\ [Next]_vars => TypeOK'
<1> SUFFICES ASSUME TypeOK, [Next]_vars PROVE TypeOK'
  OBVIOUS
<1>1. commitments' \in [CommitmentHash -> Commitment] /\ block' \in [number: Nat, timestamp: Nat]
  BY StepKeepsChainTypes
<1>2. CASE RecordWritten
  BY <1>1, <1>2, WriteKeepsTypes DEF TypeOK
<1>3. CASE UNCHANGED registryVars
  BY <1>1, <1>3 DEF TypeOK, registryVars, Indices
<1> QED
  BY <1>2, <1>3, StepWritesAtMostOneRecord

\* Every function of the contract keeps the storage within its declared types, and the
\* enumeration's domain is exactly 0 .. total-1.
THEOREM TypeCorrect == Spec => []TypeOK
<1>1. Init => TypeOK
  BY DEF Init, TypeOK, Indices, Record, EmptyRecord, Commitment, EmptyCommitment, AnyHash, AnyAddr
<1> QED
  BY <1>1, TypeStep, PTL DEF Spec

-----------------------------------------------------------------------------
\* The ledger's inductive invariant: the enumeration is exact and its edges point back.
LedgerInv == TypeOK /\ EnumerationExact /\ LineageOrdered

LEMMA WriteKeepsEnumeration ==
  ASSUME TypeOK, EnumerationExact, RecordWritten
  PROVE  EnumerationExact'
<1>1. PICK a \in Addr, h \in ContentHash, b \in BOOLEAN, p \in AnyHash : WriteRecord(h, a, b, p)
  BY DEF RecordWritten
<1>2. Written(h, a, b, p)
  BY <1>1, WriteFacts
<1>3. total \in Nat /\ \A i \in 0 .. total - 1 : hashByIndex[i] \in ContentHash
  BY DEF TypeOK, Indices
<1>4. Indices = 0 .. total - 1 /\ Indices' = 0 .. total
  BY <1>2, <1>3 DEF Indices, Written
<1>5. \A i \in 0 .. total - 1 : hashByIndex[i] \in Anchored /\ hashByIndex[i] # h
  BY <1>2, <1>4 DEF EnumerationExact, Anchored, Written
<1>6. \A i, j \in 0 .. total : hashByIndex'[i] = hashByIndex'[j] => i = j
  BY <1>2, <1>3, <1>4, <1>5 DEF EnumerationExact, Written
<1>7. Anchored' = Anchored \cup {h}
  <2>1. a # ZeroAddress
    BY ZeroAssumption
  <2>2. records'[h].contributor = a
    BY <1>2 DEF Written
  <2>3. h \in AnyHash
    BY DEF AnyHash
  <2> QED
    BY <1>2, <2>1, <2>2, <2>3 DEF Anchored, isAnchored, Written
<1>8. {hashByIndex'[i] : i \in 0 .. total} = {hashByIndex[i] : i \in 0 .. total - 1} \cup {h}
  <2>1. \A x \in {hashByIndex'[i] : i \in 0 .. total} :
          x \in {hashByIndex[i] : i \in 0 .. total - 1} \cup {h}
    BY <1>2, <1>3 DEF Written
  <2>2. \A x \in {hashByIndex[i] : i \in 0 .. total - 1} :
          x \in {hashByIndex'[i] : i \in 0 .. total}
    BY <1>2, <1>3 DEF Written
  <2>3. h \in {hashByIndex'[i] : i \in 0 .. total}
    BY <1>2, <1>3 DEF Written
  <2> QED
    BY <2>1, <2>2, <2>3
<1> QED
  BY <1>4, <1>6, <1>7, <1>8 DEF EnumerationExact

LEMMA WriteKeepsLineage ==
  ASSUME LedgerInv, RecordWritten
  PROVE  LineageOrdered'
<1>1. PICK a \in Addr, h \in ContentHash, b \in BOOLEAN, p \in AnyHash : WriteRecord(h, a, b, p)
  BY DEF RecordWritten
<1>2. Written(h, a, b, p)
  BY <1>1, WriteFacts DEF LedgerInv
<1>3. total \in Nat /\ \A i \in 0 .. total - 1 : hashByIndex[i] \in ContentHash
  BY DEF TypeOK, Indices, LedgerInv
<1>4. Indices = 0 .. total - 1 /\ Indices' = 0 .. total
  BY <1>2, <1>3 DEF Indices, Written
<1>5. \A i \in 0 .. total - 1 : hashByIndex[i] \in AnyHash \ {h}
  BY <1>2, <1>3, <1>4 DEF EnumerationExact, Anchored, Written, LedgerInv
<1> SUFFICES ASSUME NEW i \in 0 .. total,
                    records'[hashByIndex'[i]].parent # ZeroHash
             PROVE  \E j \in 0 .. i - 1 : hashByIndex'[j] = records'[hashByIndex'[i]].parent
  BY <1>4 DEF LineageOrdered
<1>6. CASE i = total
  <2>1. records'[hashByIndex'[i]].parent = p
    BY <1>2, <1>6 DEF Written
  <2>2. isAnchored(p)
    BY <1>2, <2>1 DEF Written
  <2>3. PICK j \in 0 .. total - 1 : hashByIndex[j] = p
    BY <2>2, <1>4 DEF EnumerationExact, Anchored, LedgerInv
  <2> QED
    BY <1>2, <1>3, <1>6, <2>1, <2>3 DEF Written
<1>7. CASE i # total
  <2>1. i \in 0 .. total - 1
    BY <1>3, <1>7
  <2>2. records'[hashByIndex'[i]] = records[hashByIndex[i]]
    BY <1>2, <1>5, <2>1 DEF Written
  <2>3. PICK j \in 0 .. i - 1 : hashByIndex[j] = records[hashByIndex[i]].parent
    BY <1>4, <2>1, <2>2 DEF LineageOrdered, LedgerInv
  <2>4. j \in 0 .. total - 1
    BY <1>3, <2>1
  <2> QED
    BY <1>2, <2>2, <2>3, <2>4 DEF Written
<1> QED
  BY <1>6, <1>7

LEMMA LedgerInvStep == LedgerInv /\ TypeOK' /\ [Next]_vars => LedgerInv'
<1> SUFFICES ASSUME LedgerInv, TypeOK', [Next]_vars PROVE LedgerInv'
  OBVIOUS
<1>1. CASE RecordWritten
  BY <1>1, WriteKeepsEnumeration, WriteKeepsLineage DEF LedgerInv
<1>2. CASE UNCHANGED registryVars
  <2>1. EnumerationExact'
    BY <1>2 DEF LedgerInv, EnumerationExact, Indices, Anchored, isAnchored, registryVars
  <2>2. LineageOrdered'
    BY <1>2 DEF LedgerInv, LineageOrdered, Indices, registryVars
  <2> QED
    BY <2>1, <2>2 DEF LedgerInv
<1> QED
  BY <1>1, <1>2, StepWritesAtMostOneRecord

LEMMA LedgerInvariant == Spec => []LedgerInv
<1>1. Init => EnumerationExact /\ LineageOrdered
  BY DEF Init, EnumerationExact, LineageOrdered, Indices, Anchored, isAnchored, EmptyRecord
<1> QED
  BY <1>1, LedgerInvStep, TypeCorrect, PTL DEF Spec, LedgerInv

\* Enumeration by index meets every anchored digest exactly once, whichever function wrote it.
THEOREM Enumeration == Spec => []EnumerationExact
BY LedgerInvariant, PTL DEF LedgerInv

\* The lineage graph is acyclic: a record's parent always sits at a strictly smaller index.
THEOREM Lineage == Spec => []LineageOrdered
BY LedgerInvariant, PTL DEF LedgerInv

\* Records are immutable: no function of the contract changes, removes or moves one.
THEOREM AppendOnly == Spec => LedgerAppendOnly
<1>1. LedgerInv /\ [Next]_vars =>
        [ /\ total' >= total
          /\ \A i \in Indices : /\ hashByIndex'[i] = hashByIndex[i]
                                /\ records'[hashByIndex[i]] = records[hashByIndex[i]] ]_vars
  <2> SUFFICES ASSUME LedgerInv, [Next]_vars
               PROVE  /\ total' >= total
                      /\ \A i \in Indices : /\ hashByIndex'[i] = hashByIndex[i]
                                            /\ records'[hashByIndex[i]] = records[hashByIndex[i]]
    OBVIOUS
  <2>1. total \in Nat /\ Indices = 0 .. total - 1
    BY DEF LedgerInv, TypeOK, Indices
  <2>2. CASE RecordWritten
    <3>1. PICK a \in Addr, h \in ContentHash, b \in BOOLEAN, p \in AnyHash :
            WriteRecord(h, a, b, p)
      BY <2>2 DEF RecordWritten
    <3>2. Written(h, a, b, p)
      BY <3>1, WriteFacts DEF LedgerInv
    <3>3. \A i \in Indices : hashByIndex[i] \in AnyHash \ {h}
      BY <3>2 DEF LedgerInv, EnumerationExact, Anchored, Written
    <3> QED
      BY <2>1, <3>2, <3>3 DEF Written
  <2>3. CASE UNCHANGED registryVars
    BY <2>1, <2>3 DEF registryVars
  <2> QED
    BY <2>2, <2>3, StepWritesAtMostOneRecord
<1> QED
  BY <1>1, LedgerInvariant, PTL DEF Spec, LedgerAppendOnly

-----------------------------------------------------------------------------
\* What the indexer of the logs sees of a write: its record's events, and the Revealed event
\* of an author-bound one.
WriteEvents(h, a, b, p) ==
  \/ ~b /\ logs' = logs \cup RecordEvents(h, a, p)
  \/ b /\ \E c \in CommitmentHash :
            logs' = logs \cup RecordEvents(h, a, p) \cup {RevealedEvent(h, a, total, c)}

\* One record is written and its events are emitted.
RecordLogged ==
  \E a \in Addr, h \in ContentHash, b \in BOOLEAN, p \in AnyHash :
    WriteRecord(h, a, b, p) /\ block' = block /\ WriteEvents(h, a, b, p)

\* Neither the record storage nor the events about it change, and the chain only grows.
RecordsKept ==
  /\ UNCHANGED registryVars
  /\ \A t \in {"Anchored", "Linked", "Revealed"} : Logged(t)' = Logged(t)
  /\ block'.number >= block.number /\ block'.timestamp >= block.timestamp

\* Whatever function of the contract runs, the storage and the events about it move together.
LEMMA StepLogsItsRecord == TypeOK /\ [Next]_vars => RecordLogged \/ RecordsKept
<1> SUFFICES ASSUME TypeOK, [Next]_vars PROVE RecordLogged \/ RecordsKept
  OBVIOUS
<1>0. block.number \in Nat /\ block.timestamp \in Nat
  BY DEF TypeOK
<1>1. CASE UNCHANGED vars
  BY <1>0, <1>1 DEF vars, RecordsKept, Logged
<1>2. CASE NewBlock
  <2>1. PICK tick \in 1 .. MaxTick :
          block' = [number |-> block.number + 1, timestamp |-> block.timestamp + tick]
    BY <1>2 DEF NewBlock
  <2>2. block'.number >= block.number /\ block'.timestamp >= block.timestamp
    BY <1>0, <2>1, BoundAssumption
  <2> QED
    BY <1>2, <2>2 DEF NewBlock, RecordsKept, Logged
<1>3. ASSUME NEW a \in Addr, NEW c \in CommitmentHash \cup {ZeroHash}, commit(a, c)
      PROVE  RecordsKept
  <2>1. logs' = logs \cup {CommittedEvent(c, a)} /\ UNCHANGED <<registryVars, block>>
    BY <1>3 DEF commit
  <2> QED
    BY <1>0, <2>1 DEF RecordsKept, Logged, CommittedEvent
<1>4. ASSUME NEW a \in Addr, NEW h \in AnyHash, NEW p \in AnyHash, anchorWithParent(a, h, p)
      PROVE  RecordLogged
  <2>1. /\ WriteRecord(h, a, FALSE, p) /\ block' = block
        /\ logs' = logs \cup RecordEvents(h, a, p)
    BY <1>4 DEF anchorWithParent
  <2>2. h \in ContentHash
    BY <2>1 DEF WriteRecord, Unclaimed, NonZero, AnyHash
  <2> QED
    BY <2>1, <2>2 DEF RecordLogged, WriteEvents
<1>5. ASSUME NEW a \in Addr, NEW h \in AnyHash, NEW s \in Salt, NEW p \in AnyHash,
             revealWithParent(a, h, s, p)
      PROVE  RecordLogged
  <2> DEFINE c == commitmentOf(h, a, s)
  <2>1. /\ WriteRecord(h, a, TRUE, p) /\ block' = block
        /\ logs' = logs \cup RecordEvents(h, a, p) \cup {RevealedEvent(h, a, total, c)}
    BY <1>5 DEF revealWithParent
  <2>2. h \in ContentHash
    BY <2>1 DEF WriteRecord, Unclaimed, NonZero, AnyHash
  <2>3. c \in CommitmentHash
    BY <2>2 DEF commitmentOf, CommitmentHash
  <2> QED
    BY <2>1, <2>2, <2>3 DEF RecordLogged, WriteEvents
<1> QED
  BY <1>1, <1>2, <1>3, <1>4, <1>5 DEF Next, anchor, reveal, AnyHash

\* The events a write adds, type by type.
LEMMA WriteLogs ==
  ASSUME NEW a \in Addr, NEW h \in ContentHash, NEW b \in BOOLEAN, NEW p \in AnyHash,
         WriteEvents(h, a, b, p)
  PROVE  /\ Logged("Anchored")' = Logged("Anchored") \cup {AnchoredEvent(h, a, total)}
         /\ Logged("Linked")' = Logged("Linked")
              \cup (IF p = ZeroHash THEN {} ELSE {LinkedEvent(h, p)})
         /\ b => \E c \in CommitmentHash :
                   Logged("Revealed")' = Logged("Revealed") \cup {RevealedEvent(h, a, total, c)}
         /\ ~b => Logged("Revealed")' = Logged("Revealed")
<1> USE DEF RecordEvents, AnchoredEvent, LinkedEvent, RevealedEvent
<1>1. CASE ~b /\ logs' = logs \cup RecordEvents(h, a, p)
  BY <1>1 DEF Logged
<1>2. ASSUME b, NEW c \in CommitmentHash,
             logs' = logs \cup RecordEvents(h, a, p) \cup {RevealedEvent(h, a, total, c)}
      PROVE  /\ Logged("Anchored")' = Logged("Anchored") \cup {AnchoredEvent(h, a, total)}
             /\ Logged("Linked")' = Logged("Linked")
                  \cup (IF p = ZeroHash THEN {} ELSE {LinkedEvent(h, p)})
             /\ Logged("Revealed")' = Logged("Revealed") \cup {RevealedEvent(h, a, total, c)}
  BY <1>2 DEF Logged
<1> QED
  BY <1>1, <1>2 DEF WriteEvents

-----------------------------------------------------------------------------
\* The storage, its per-account index and its event log agree: the inductive invariant.
ExactInv == LedgerInv /\ ChainOrdered /\ ContributorIndexExact /\ LogsRebuildStorage

\* Where a written record's index and the others stand.
Indexed(h, a, b, p) ==
  /\ total \in Nat /\ Indices = 0 .. total - 1 /\ Indices' = 0 .. total
  /\ Indices' = Indices \cup {total} /\ total \notin Indices
  /\ hashByIndex'[total] = h
  /\ records'[h] = [contributor |-> a, authorBound |-> b, timestamp |-> block.timestamp,
                    blockNumber |-> block.number, parent |-> p]
  /\ \A i \in Indices : /\ hashByIndex'[i] = hashByIndex[i]
                        /\ hashByIndex[i] \in AnyHash \ {h}
                        /\ records[hashByIndex[i]] \in Record
                        /\ records'[hashByIndex'[i]] = records[hashByIndex[i]]

LEMMA WriteIndices ==
  ASSUME LedgerInv, NEW a \in Addr, NEW h \in ContentHash, NEW b \in BOOLEAN, NEW p \in AnyHash,
         WriteRecord(h, a, b, p)
  PROVE  Indexed(h, a, b, p)
<1>1. Written(h, a, b, p)
  BY WriteFacts DEF LedgerInv
<1>2. total \in Nat /\ Indices = 0 .. total - 1 /\ Indices' = 0 .. total
  BY <1>1 DEF LedgerInv, TypeOK, Written, Indices
<1>3. \A i \in Indices : hashByIndex[i] \in AnyHash \ {h} /\ records[hashByIndex[i]] \in Record
  BY <1>1 DEF LedgerInv, EnumerationExact, Anchored, Written, TypeOK
<1> QED
  BY <1>1, <1>2, <1>3 DEF Written, Indexed

LEMMA WriteKeepsChainOrder ==
  ASSUME LedgerInv, ChainOrdered, RecordLogged
  PROVE  ChainOrdered'
<1>1. PICK a \in Addr, h \in ContentHash, b \in BOOLEAN, p \in AnyHash :
        WriteRecord(h, a, b, p) /\ block' = block
  BY DEF RecordLogged
<1>2. block.number \in Nat /\ block.timestamp \in Nat
  BY DEF LedgerInv, TypeOK
<1>3. Indexed(h, a, b, p)
  BY <1>1, WriteIndices
<1>4. \A i \in Indices : /\ records[hashByIndex[i]].blockNumber <= block.number
                         /\ records[hashByIndex[i]].timestamp <= block.timestamp
  BY DEF ChainOrdered
<1>5. /\ total \in Nat /\ Indices = 0 .. total - 1 /\ Indices' = Indices \cup {total}
      /\ records'[hashByIndex'[total]].blockNumber = block.number
      /\ records'[hashByIndex'[total]].timestamp = block.timestamp
      /\ \A i \in Indices : records'[hashByIndex'[i]] = records[hashByIndex[i]]
  BY <1>3 DEF Indexed
<1> SUFFICES ASSUME NEW i \in Indices', NEW j \in Indices'
             PROVE  LET r == records'[hashByIndex'[i]]
                        s == records'[hashByIndex'[j]]
                    IN  /\ r.blockNumber <= block.number /\ r.timestamp <= block.timestamp
                        /\ i <= j => r.blockNumber <= s.blockNumber /\ r.timestamp <= s.timestamp
  BY <1>1 DEF ChainOrdered
<1>6. CASE i \in Indices /\ j \in Indices
  BY <1>4, <1>5, <1>6 DEF ChainOrdered
<1>7. CASE i = total
  BY <1>2, <1>5, <1>7
<1>8. CASE i \in Indices /\ j = total
  BY <1>4, <1>5, <1>8
<1> QED
  BY <1>5, <1>6, <1>7, <1>8

LEMMA WriteKeepsContributorIndex ==
  ASSUME LedgerInv, ContributorIndexExact, RecordLogged
  PROVE  ContributorIndexExact'
<1>1. PICK a \in Addr, h \in ContentHash, b \in BOOLEAN, p \in AnyHash : WriteRecord(h, a, b, p)
  BY DEF RecordLogged
<1>2. /\ contributorIndices' = [contributorIndices EXCEPT ![a] = Append(@, total)]
      /\ contributorCount' = [contributorCount EXCEPT ![a] = @ + 1]
  BY <1>1 DEF WriteRecord, IndexRecord
<1>3. contributorIndices \in [Addr -> Seq(Nat)] /\ contributorCount \in [Addr -> Nat]
  BY DEF LedgerInv, TypeOK
<1>4. /\ total \in Nat /\ Indices = 0 .. total - 1 /\ Indices' = Indices \cup {total}
      /\ records'[hashByIndex'[total]].contributor = a
      /\ \A i \in Indices : records'[hashByIndex'[i]] = records[hashByIndex[i]]
  <2>1. Indexed(h, a, b, p)
    BY <1>1, WriteIndices
  <2> QED
    BY <2>1 DEF Indexed
<1> SUFFICES ASSUME NEW x \in Addr
             PROVE  LET idxs == contributorIndices'[x]
                    IN  /\ contributorCount'[x] = Len(idxs)
                        /\ \A k, l \in 1 .. Len(idxs) : k < l => idxs[k] < idxs[l]
                        /\ {idxs[k] : k \in 1 .. Len(idxs)}
                             = {i \in Indices' : records'[hashByIndex'[i]].contributor = x}
  BY DEF ContributorIndexExact
<1> DEFINE old == contributorIndices[x]
           own == {i \in Indices : records[hashByIndex[i]].contributor = x}
<1>5. /\ old \in Seq(Nat) /\ contributorCount[x] = Len(old)
      /\ \A k, l \in 1 .. Len(old) : k < l => old[k] < old[l]
      /\ {old[k] : k \in 1 .. Len(old)} = own
  BY <1>3 DEF ContributorIndexExact
<1>6. CASE x # a
  <2>1. contributorIndices'[x] = old /\ contributorCount'[x] = contributorCount[x]
    BY <1>2, <1>3, <1>6
  <2>2. {i \in Indices' : records'[hashByIndex'[i]].contributor = x} = own
    BY <1>4, <1>6
  <2> HIDE DEF old, own
  <2> QED
    BY <1>5, <2>1, <2>2, Zenon
<1>7. CASE x = a
  <2>1. contributorIndices'[x] = Append(old, total) /\ contributorCount'[x] = contributorCount[x] + 1
    BY <1>2, <1>3, <1>7
  <2> DEFINE new == Append(old, total)
  <2>2. /\ Len(old) \in Nat /\ Len(new) = Len(old) + 1 /\ new[Len(old) + 1] = total
        /\ \A k \in 1 .. Len(old) : new[k] = old[k]
    BY <1>4, <1>5
  <2>3. \A k \in 1 .. Len(old) : old[k] \in Indices
    BY <1>5
  <2>4. \A k, l \in 1 .. Len(new) : k < l => new[k] < new[l]
    <3>1. \A k \in 1 .. Len(old) : new[k] \in Nat /\ new[k] < total
      BY <1>4, <2>2, <2>3
    <3>2. \A k, l \in 1 .. Len(old) : k < l => new[k] < new[l]
      BY <1>5, <2>2
    <3>3. \A k \in 1 .. Len(new) : k \in 1 .. Len(old) \/ k = Len(old) + 1
      BY <2>2
    <3> QED
      BY <2>2, <3>1, <3>2, <3>3
  <2>5. {i \in Indices' : records'[hashByIndex'[i]].contributor = x} = own \cup {total}
    BY <1>4, <1>7
  <2>6. 1 .. Len(new) = (1 .. Len(old)) \cup {Len(old) + 1}
    BY <2>2
  <2>7. {new[k] : k \in 1 .. Len(new)} = {old[k] : k \in 1 .. Len(old)} \cup {total}
    BY <2>2, <2>6
  <2>8. contributorCount'[x] = Len(new)
    BY <1>5, <2>1, <2>2
  <2>9. contributorIndices'[x] = new
    BY <2>1
  <2> HIDE DEF new, old, own
  <2>10. {new[k] : k \in 1 .. Len(new)} = {i \in Indices' : records'[hashByIndex'[i]].contributor = x}
    BY <1>5, <2>5, <2>7, Zenon
  <2> QED
    BY <2>4, <2>8, <2>9, <2>10, Zenon
<1> QED
  BY <1>6, <1>7

LEMMA WriteKeepsLogs ==
  ASSUME LedgerInv, LogsRebuildStorage, RecordLogged
  PROVE  LogsRebuildStorage'
<1>1. PICK a \in Addr, h \in ContentHash, b \in BOOLEAN, p \in AnyHash :
        WriteRecord(h, a, b, p) /\ block' = block /\ WriteEvents(h, a, b, p)
  BY DEF RecordLogged
<1>2. Indexed(h, a, b, p)
  BY <1>1, WriteIndices
<1> DEFINE Row(i) == <<i, hashByIndex[i], records[hashByIndex[i]].contributor,
                       records[hashByIndex[i]].timestamp>>
           RowAfter(i) == <<i, hashByIndex'[i], records'[hashByIndex'[i]].contributor,
                            records'[hashByIndex'[i]].timestamp>>
           NewRow == <<total, h, a, block.timestamp>>
           EventRow(e) == <<e.index, e.contentHash, e.contributor, e.timestamp>>
           Bound == {j \in Indices : records[hashByIndex[j]].authorBound}
           BoundAfter == {j \in Indices' : records'[hashByIndex'[j]].authorBound}
           Children == {g \in Anchored : records[g].parent # ZeroHash}
<1>3. RowAfter(total) = NewRow /\ \A i \in Indices : RowAfter(i) = Row(i)
  BY <1>2 DEF Indexed
<1>4. {EventRow(e) : e \in Logged("Anchored")'} = {RowAfter(i) : i \in Indices'}
  <2>1. /\ Logged("Anchored")' = Logged("Anchored") \cup {AnchoredEvent(h, a, total)}
        /\ EventRow(AnchoredEvent(h, a, total)) = NewRow
    BY <1>1, WriteLogs DEF AnchoredEvent
  <2>2. {EventRow(e) : e \in Logged("Anchored")'}
          = {EventRow(e) : e \in Logged("Anchored")} \cup {NewRow}
    BY <2>1
  <2>3. {RowAfter(i) : i \in Indices'} = {Row(i) : i \in Indices} \cup {NewRow}
    BY <1>2, <1>3 DEF Indexed
  <2> QED
    BY <2>2, <2>3 DEF LogsRebuildStorage
<1>5. {EventRow(e) : e \in Logged("Revealed")'} = {RowAfter(i) : i \in BoundAfter}
  <2>1. CASE b
    <3>1. PICK c \in CommitmentHash :
            Logged("Revealed")' = Logged("Revealed") \cup {RevealedEvent(h, a, total, c)}
      BY <1>1, <2>1, WriteLogs
    <3>2. EventRow(RevealedEvent(h, a, total, c)) = NewRow
      BY DEF RevealedEvent
    <3>3. {EventRow(e) : e \in Logged("Revealed")'}
            = {EventRow(e) : e \in Logged("Revealed")} \cup {NewRow}
      BY <3>1, <3>2
    <3>4. BoundAfter = Bound \cup {total}
      BY <1>2, <2>1 DEF Indexed
    <3>5. {RowAfter(i) : i \in BoundAfter} = {Row(i) : i \in Bound} \cup {NewRow}
      BY <1>2, <1>3, <3>4 DEF Indexed
    <3> QED
      BY <3>3, <3>5 DEF LogsRebuildStorage
  <2>2. CASE ~b
    <3>1. Logged("Revealed")' = Logged("Revealed")
      BY <1>1, <2>2, WriteLogs
    <3>2. BoundAfter = Bound
      BY <1>2, <2>2 DEF Indexed
    <3>3. {RowAfter(i) : i \in BoundAfter} = {Row(i) : i \in Bound}
      BY <1>2, <1>3, <3>2 DEF Indexed
    <3> QED
      BY <3>1, <3>3 DEF LogsRebuildStorage
  <2> QED
    BY <2>1, <2>2
<1>6. {<<e.child, e.parent>> : e \in Logged("Linked")'}
        = {<<g, records'[g].parent>> : g \in Children'}
  <2>1. {<<e.child, e.parent>> : e \in Logged("Linked")'}
          = {<<e.child, e.parent>> : e \in Logged("Linked")}
              \cup (IF p = ZeroHash THEN {} ELSE {<<h, p>>})
    <3>1. Logged("Linked")' = Logged("Linked")
            \cup (IF p = ZeroHash THEN {} ELSE {LinkedEvent(h, p)})
      BY <1>1, WriteLogs
    <3>2. LinkedEvent(h, p).child = h /\ LinkedEvent(h, p).parent = p
      BY DEF LinkedEvent
    <3> QED
      BY <3>1, <3>2
  <2>2. Written(h, a, b, p)
    BY <1>1, WriteFacts DEF LedgerInv
  <2>3. h \in AnyHash /\ a # ZeroAddress
    BY ZeroAssumption DEF AnyHash
  <2>4. Anchored' = Anchored \cup {h} /\ h \notin Anchored
    BY <2>2, <2>3 DEF Anchored, isAnchored, Written
  <2>5. \A g \in Anchored : records'[g] = records[g]
    BY <2>2, <2>4 DEF Anchored, Written
  <2>6. Children' = Children \cup (IF p = ZeroHash THEN {} ELSE {h})
    BY <1>2, <2>4, <2>5 DEF Indexed
  <2>7. {<<g, records'[g].parent>> : g \in Children'}
          = {<<g, records[g].parent>> : g \in Children}
              \cup (IF p = ZeroHash THEN {} ELSE {<<h, p>>})
    BY <1>2, <2>5, <2>6 DEF Indexed
  <2> QED
    BY <2>1, <2>7 DEF LogsRebuildStorage
<1> QED
  BY <1>4, <1>5, <1>6 DEF LogsRebuildStorage

LEMMA ExactInvStep == ExactInv /\ LedgerInv' /\ [Next]_vars => ExactInv'
<1> SUFFICES ASSUME ExactInv, LedgerInv', [Next]_vars PROVE ExactInv'
  OBVIOUS
<1>1. CASE RecordLogged
  BY <1>1, WriteKeepsChainOrder, WriteKeepsContributorIndex, WriteKeepsLogs DEF ExactInv
<1>2. CASE RecordsKept
  <2>0. UNCHANGED <<records, hashByIndex, total, contributorIndices, contributorCount>>
    BY <1>2 DEF RecordsKept, registryVars
  <2>1. ChainOrdered'
    <3>1. \A i \in Indices : /\ records[hashByIndex[i]].blockNumber \in Nat
                             /\ records[hashByIndex[i]].timestamp \in Nat
      BY DEF ExactInv, LedgerInv, TypeOK, Record, AnyHash
    <3>2. /\ block.number \in Nat /\ block.timestamp \in Nat
          /\ block'.number \in Nat /\ block'.timestamp \in Nat
      BY DEF ExactInv, LedgerInv, TypeOK
    <3> QED
      BY <1>2, <2>0, <3>1, <3>2 DEF ExactInv, ChainOrdered, RecordsKept, Indices
  <2>2. ContributorIndexExact'
    BY <2>0 DEF ExactInv, ContributorIndexExact, Indices
  <2>3. LogsRebuildStorage'
    BY <1>2, <2>0 DEF ExactInv, LogsRebuildStorage, RecordsKept, Indices, Anchored, isAnchored
  <2> QED
    BY <2>1, <2>2, <2>3 DEF ExactInv
<1> QED
  BY <1>1, <1>2, StepLogsItsRecord DEF ExactInv, LedgerInv

LEMMA ExactInvariant == Spec => []ExactInv
<1>1. Init => ChainOrdered /\ ContributorIndexExact /\ LogsRebuildStorage
  <2> SUFFICES ASSUME Init PROVE ChainOrdered /\ ContributorIndexExact /\ LogsRebuildStorage
    OBVIOUS
  <2>1. Indices = {} /\ Anchored = {} /\ logs = {}
    BY DEF Init, Indices, Anchored, isAnchored, EmptyRecord
  <2>2. ChainOrdered
    BY <2>1 DEF ChainOrdered
  <2>3. ContributorIndexExact
    BY <2>1 DEF Init, ContributorIndexExact
  <2>4. LogsRebuildStorage
    BY <2>1 DEF LogsRebuildStorage, Logged
  <2> QED
    BY <2>2, <2>3, <2>4
<1> QED
  BY <1>1, ExactInvStep, LedgerInvariant, PTL DEF Spec, ExactInv

\* The registry's storage, its per-account index and what its event log rebuilds are one ledger,
\* for chains of every length: a digest once, in the order of the blocks, parents before children.
THEOREM LedgerExact == Spec => []LedgerIsExact
BY ExactInvariant, PTL DEF ExactInv, LedgerInv, LedgerIsExact
-----------------------------------------------------------------------------
\* Every pending commitment has the log entry of its registration, with its block.
PendingLogged ==
  \A c \in CommitmentHash : commitments[c].committer # ZeroAddress =>
    \E e \in Logged("Committed") : e.commitment = c /\ e.blockNumber = commitments[c].blockNumber

ClaimInv == LedgerInv /\ PendingLogged /\ AuthorBoundCommitted

LEMMA LogsGrow == [Next]_vars => logs \subseteq logs'
<1> SUFFICES ASSUME [Next]_vars PROVE logs \subseteq logs'
  OBVIOUS
<1>1. CASE UNCHANGED vars
  BY <1>1 DEF vars
<1>2. CASE NewBlock
  BY <1>2 DEF NewBlock
<1>3. ASSUME NEW a \in Addr, NEW c \in CommitmentHash \cup {ZeroHash}, commit(a, c)
      PROVE  logs \subseteq logs'
  BY <1>3 DEF commit
<1>4. ASSUME NEW a \in Addr, NEW h \in AnyHash, NEW p \in AnyHash, anchorWithParent(a, h, p)
      PROVE  logs \subseteq logs'
  BY <1>4 DEF anchorWithParent
<1>5. ASSUME NEW a \in Addr, NEW h \in AnyHash, NEW s \in Salt, NEW p \in AnyHash,
             revealWithParent(a, h, s, p)
      PROVE  logs \subseteq logs'
  BY <1>5 DEF revealWithParent
<1> QED
  BY <1>1, <1>2, <1>3, <1>4, <1>5 DEF Next, anchor, reveal, AnyHash

LEMMA PendingLoggedStep == TypeOK /\ PendingLogged /\ [Next]_vars => PendingLogged'
<1> SUFFICES ASSUME TypeOK, PendingLogged, [Next]_vars,
                    NEW c \in CommitmentHash, commitments'[c].committer # ZeroAddress
             PROVE  \E e \in Logged("Committed")' :
                      e.commitment = c /\ e.blockNumber = commitments'[c].blockNumber
  BY DEF PendingLogged
<1>1. ASSUME commitments'[c] = commitments[c]
      PROVE  \E e \in Logged("Committed")' :
               e.commitment = c /\ e.blockNumber = commitments'[c].blockNumber
  BY <1>1, LogsGrow DEF PendingLogged, Logged
<1>2. ASSUME NEW a \in Addr, NEW d \in CommitmentHash \cup {ZeroHash}, commit(a, d)
      PROVE  \E e \in Logged("Committed")' :
               e.commitment = c /\ e.blockNumber = commitments'[c].blockNumber
  <2>1. CASE c = d
    <3>1. commitments'[c] = [committer |-> a, blockNumber |-> block.number]
      BY <1>2, <2>1 DEF commit, TypeOK
    <3>2. CommittedEvent(c, a) \in Logged("Committed")'
      BY <1>2, <2>1 DEF commit, Logged, CommittedEvent
    <3> QED
      BY <3>1, <3>2 DEF CommittedEvent
  <2>2. CASE c # d
    BY <1>1, <1>2, <2>2 DEF commit, TypeOK
  <2> QED
    BY <2>1, <2>2
<1>3. ASSUME NEW a \in Addr, NEW h \in AnyHash, NEW s \in Salt, NEW p \in AnyHash,
             revealWithParent(a, h, s, p)
      PROVE  commitments'[c] = commitments[c]
  BY <1>3 DEF revealWithParent, EmptyCommitment, TypeOK
<1>4. ASSUME NEW a \in Addr, NEW h \in AnyHash, NEW p \in AnyHash, anchorWithParent(a, h, p)
      PROVE  commitments'[c] = commitments[c]
  BY <1>4 DEF anchorWithParent
<1>5. CASE NewBlock
  BY <1>1, <1>5 DEF NewBlock
<1>6. CASE UNCHANGED vars
  BY <1>1, <1>6 DEF vars
<1> QED
  BY <1>1, <1>2, <1>3, <1>4, <1>5, <1>6 DEF Next, anchor, reveal, AnyHash

\* A record that no step touched keeps the commitment that justifies it.
LEMMA JustificationKept ==
  ASSUME AuthorBoundCommitted, logs \subseteq logs', NEW h \in AnyHash,
         records'[h] = records[h], isAnchored(h), records[h].authorBound
  PROVE  \E e \in Logged("Committed")' :
           /\ e.blockNumber + MIN_REVEAL_DELAY < records'[h].blockNumber
           /\ \E s \in Salt : e.commitment = commitmentOf(h, records'[h].contributor, s)
<1>1. PICK e \in Logged("Committed") :
        /\ e.blockNumber + MIN_REVEAL_DELAY < records[h].blockNumber
        /\ \E s \in Salt : e.commitment = commitmentOf(h, records[h].contributor, s)
  BY DEF AuthorBoundCommitted, Anchored
<1>2. e \in Logged("Committed")'
  BY DEF Logged
<1> QED
  BY <1>1, <1>2

LEMMA AuthorBoundStep ==
  ASSUME TypeOK, PendingLogged, AuthorBoundCommitted, [Next]_vars
  PROVE  AuthorBoundCommitted'
<1> DEFINE Justified(h) ==
      \E e \in Logged("Committed")' :
        /\ e.blockNumber + MIN_REVEAL_DELAY < records'[h].blockNumber
        /\ \E s \in Salt : e.commitment = commitmentOf(h, records'[h].contributor, s)
<1> SUFFICES ASSUME NEW h \in AnyHash, isAnchored(h)', records'[h].authorBound
             PROVE  Justified(h)
  BY DEF AuthorBoundCommitted, Anchored
<1>1. ASSUME records'[h] = records[h] PROVE Justified(h)
  <2>1. isAnchored(h) /\ records[h].authorBound
    BY <1>1 DEF isAnchored
  <2> QED
    BY <1>1, <2>1, LogsGrow, JustificationKept
<1>2. ASSUME NEW a \in Addr, NEW g \in AnyHash, NEW p \in AnyHash, anchorWithParent(a, g, p)
      PROVE  records'[h] = records[h]
  <2>1. records' = [records EXCEPT ![g] =
          [contributor |-> a, authorBound |-> FALSE, timestamp |-> block.timestamp,
           blockNumber |-> block.number, parent |-> p]]
    BY <1>2 DEF anchorWithParent, WriteRecord
  <2> QED
    BY <2>1 DEF TypeOK
<1>3. ASSUME NEW a \in Addr, NEW g \in AnyHash, NEW s \in Salt, NEW p \in AnyHash,
             revealWithParent(a, g, s, p), h = g
      PROVE  Justified(h)
  <2>1. records' = [records EXCEPT ![g] =
          [contributor |-> a, authorBound |-> TRUE, timestamp |-> block.timestamp,
           blockNumber |-> block.number, parent |-> p]]
    BY <1>3 DEF revealWithParent, WriteRecord
  <2>2. records'[h].contributor = a /\ records'[h].blockNumber = block.number
    BY <2>1, <1>3 DEF TypeOK
  <2>3. h \in ContentHash
    BY <1>3 DEF revealWithParent, AnyHash
  <2>4. /\ commitmentOf(h, a, s) \in CommitmentHash
        /\ commitments[commitmentOf(h, a, s)].committer # ZeroAddress
        /\ block.number > commitments[commitmentOf(h, a, s)].blockNumber + MIN_REVEAL_DELAY
    BY <1>3, <2>3 DEF revealWithParent, commitmentOf, CommitmentHash, Mature
  <2>5. PICK e \in Logged("Committed") :
          /\ e.commitment = commitmentOf(h, a, s)
          /\ e.blockNumber = commitments[commitmentOf(h, a, s)].blockNumber
    BY <2>4 DEF PendingLogged
  <2>6. e \in Logged("Committed")'
    BY LogsGrow DEF Logged
  <2>7. commitments[commitmentOf(h, a, s)].blockNumber \in Nat /\ block.number \in Nat
    BY <2>4 DEF TypeOK, Commitment
  <2>8. e.blockNumber + MIN_REVEAL_DELAY < block.number
    BY <2>4, <2>5, <2>7 DEF MIN_REVEAL_DELAY
  <2> QED
    BY <2>2, <2>5, <2>6, <2>8
<1>4. ASSUME NEW a \in Addr, NEW g \in AnyHash, NEW s \in Salt, NEW p \in AnyHash,
             revealWithParent(a, g, s, p), h # g
      PROVE  records'[h] = records[h]
  BY <1>4 DEF revealWithParent, WriteRecord, TypeOK
<1>5. ASSUME UNCHANGED registryVars PROVE records'[h] = records[h]
  BY <1>5 DEF registryVars
<1>6. ASSUME NEW a \in Addr, NEW c \in CommitmentHash \cup {ZeroHash}, commit(a, c)
      PROVE  UNCHANGED registryVars
  BY <1>6 DEF commit
<1>7. CASE NewBlock
  BY <1>1, <1>5, <1>7 DEF NewBlock
<1>8. CASE UNCHANGED vars
  BY <1>1, <1>5, <1>8 DEF vars
<1> QED
  BY <1>1, <1>2, <1>3, <1>4, <1>5, <1>6, <1>7, <1>8 DEF Next, anchor, reveal, AnyHash

LEMMA ClaimInvariant == Spec => []ClaimInv
<1>1. Init => PendingLogged /\ AuthorBoundCommitted
  BY DEF Init, PendingLogged, AuthorBoundCommitted, Anchored, isAnchored, EmptyRecord,
         EmptyCommitment
<1>2. ClaimInv /\ LedgerInv' /\ [Next]_vars => ClaimInv'
  BY PendingLoggedStep, AuthorBoundStep DEF ClaimInv, LedgerInv
<1> QED
  BY <1>1, <1>2, LedgerInvariant, PTL DEF Spec, ClaimInv

\* Every author-bound record rests on a commitment to that content by that account, more than
\* MIN_REVEAL_DELAY blocks older than the record.
THEOREM AuthorBound == Spec => []AuthorBoundCommitted
BY ClaimInvariant, PTL DEF ClaimInv

-----------------------------------------------------------------------------
\* A pending commitment is consumed only by the account bound into it, once mature, and by
\* anchoring its content under that account.
THEOREM OpenedByBound == Spec => OpenedByBoundAccount
<1> DEFINE Opened(c) ==
      /\ commitments'[c].committer = ZeroAddress
      /\ block.number > commitments[c].blockNumber + MIN_REVEAL_DELAY
      /\ ~isAnchored(c[1])
      /\ records'[c[1]].contributor = c[2]
      /\ records'[c[1]].authorBound
<1>1. TypeOK /\ [Next]_vars =>
        \A c \in CommitmentHash :
          (commitments[c].committer # ZeroAddress /\ commitments'[c] # commitments[c])
            => Opened(c)
  <2> SUFFICES ASSUME TypeOK, [Next]_vars, NEW c \in CommitmentHash,
                      commitments[c].committer # ZeroAddress, commitments'[c] # commitments[c]
               PROVE  Opened(c)
    OBVIOUS
  <2>1. ASSUME NEW a \in Addr, NEW h \in AnyHash, NEW s \in Salt, NEW p \in AnyHash,
               revealWithParent(a, h, s, p)
        PROVE  Opened(c)
    <3>1. commitments' = [commitments EXCEPT ![commitmentOf(h, a, s)] = EmptyCommitment]
      BY <2>1 DEF revealWithParent
    <3>2. c = commitmentOf(h, a, s)
      BY <3>1 DEF TypeOK
    <3>3. c[1] = h /\ c[2] = a
      BY <3>2 DEF commitmentOf
    <3>4. Mature(c) /\ WriteRecord(h, a, TRUE, p)
      BY <2>1, <3>2 DEF revealWithParent
    <3>5. /\ ~isAnchored(h)
          /\ records' = [records EXCEPT ![h] =
               [contributor |-> a, authorBound |-> TRUE, timestamp |-> block.timestamp,
                blockNumber |-> block.number, parent |-> p]]
      BY <3>4 DEF WriteRecord, Unclaimed
    <3>6. records'[h].contributor = a /\ records'[h].authorBound
      BY <3>5 DEF TypeOK
    <3>7. commitments'[c].committer = ZeroAddress
      BY <3>1, <3>2 DEF TypeOK, EmptyCommitment
    <3> QED
      BY <3>3, <3>4, <3>5, <3>6, <3>7 DEF Mature
  <2>2. ASSUME NEW a \in Addr, NEW d \in CommitmentHash \cup {ZeroHash}, commit(a, d)
        PROVE  FALSE
    BY <2>2 DEF commit, TypeOK
  <2>3. ASSUME NEW a \in Addr, NEW h \in AnyHash, NEW p \in AnyHash, anchorWithParent(a, h, p)
        PROVE  FALSE
    BY <2>3 DEF anchorWithParent
  <2>4. CASE NewBlock
    BY <2>4 DEF NewBlock
  <2>5. CASE UNCHANGED vars
    BY <2>5 DEF vars
  <2> QED
    BY <2>1, <2>2, <2>3, <2>4, <2>5 DEF Next, anchor, reveal, AnyHash
<1>2. TypeOK /\ [Next]_vars =>
        [\A c \in CommitmentHash :
           (commitments[c].committer # ZeroAddress /\ commitments'[c] # commitments[c])
             => Opened(c)]_vars
  BY <1>1
<1> QED
  BY <1>2, TypeCorrect, PTL DEF Spec, OpenedByBoundAccount

-----------------------------------------------------------------------------
\* The entry a record stands for.
Entry == [digest: ContentHash, account: AnyAddr, bound: BOOLEAN, parent: AnyHash]

LEMMA LedgerViewType ==
  ASSUME TypeOK
  PROVE  LedgerView \in Seq(Entry) /\ Len(LedgerView) = total
<1>1. total \in Nat
  BY DEF TypeOK
<1>2. ASSUME NEW i \in 1 .. total PROVE LedgerEntry(i) \in Entry
  <2>1. hashByIndex[i - 1] \in ContentHash
    BY <1>1 DEF TypeOK, Indices
  <2>2. records[hashByIndex[i - 1]] \in Record
    BY <2>1 DEF TypeOK, AnyHash
  <2> QED
    BY <2>1, <2>2 DEF LedgerEntry, Entry, Record
<1>3. LedgerView \in [1 .. total -> Entry]
  BY <1>2 DEF LedgerView
<1> QED
  BY <1>1, <1>3

LEMMA LedgerDigests == ASSUME TypeOK, EnumerationExact PROVE Ledger!Digests = Anchored
<1>1. total \in Nat /\ Len(LedgerView) = total
  BY LedgerViewType DEF TypeOK
<1>2. \A i \in 1 .. total : LedgerView[i].digest = hashByIndex[i - 1]
  BY DEF LedgerView, LedgerEntry
<1>3. Ledger!Digests = {LedgerView[i].digest : i \in 1 .. total}
  BY <1>1 DEF Ledger!Digests
<1>4. {LedgerView[i].digest : i \in 1 .. total} = {hashByIndex[i] : i \in 0 .. total - 1}
  <2>1. \A i \in 1 .. total : i - 1 \in 0 .. total - 1
    BY <1>1
  <2>2. \A i \in 0 .. total - 1 : i + 1 \in 1 .. total /\ LedgerView[i + 1].digest = hashByIndex[i]
    BY <1>1, <1>2
  <2> QED
    BY <1>2, <2>1, <2>2
<1> QED
  BY <1>3, <1>4 DEF EnumerationExact, Indices

\* A write appends the entry of the new record to the ledger.
LEMMA WriteAppends ==
  ASSUME LedgerInv, TypeOK', NEW a \in Addr, NEW h \in ContentHash, NEW b \in BOOLEAN,
         NEW p \in AnyHash, WriteRecord(h, a, b, p)
  PROVE  LedgerView' = Append(LedgerView, [digest |-> h, account |-> a, bound |-> b, parent |-> p])
<1> DEFINE e == [digest |-> h, account |-> a, bound |-> b, parent |-> p]
<1>1. Written(h, a, b, p)
  BY WriteFacts DEF LedgerInv
<1>2. total \in Nat /\ total' = total + 1 /\ Indices = 0 .. total - 1
  BY <1>1 DEF LedgerInv, TypeOK, Written, Indices
<1>3. LedgerView \in Seq(Entry) /\ Len(LedgerView) = total
  BY LedgerViewType DEF LedgerInv
<1>4. LedgerView' = [i \in 1 .. total + 1 |-> LedgerEntry(i)']
  BY <1>2 DEF LedgerView
<1>5. ASSUME NEW i \in 1 .. total + 1, i = total + 1 PROVE LedgerEntry(i)' = e
  <2>1. hashByIndex'[i - 1] = h
    BY <1>1, <1>2, <1>5 DEF Written
  <2> QED
    BY <1>1, <2>1 DEF LedgerEntry, Written
<1>6. ASSUME NEW i \in 1 .. total PROVE LedgerEntry(i)' = LedgerView[i]
  <2>1. i - 1 \in Indices
    BY <1>2
  <2>2. hashByIndex'[i - 1] = hashByIndex[i - 1]
    BY <1>1, <1>2, <2>1 DEF Written
  <2>3. hashByIndex[i - 1] \in AnyHash \ {h}
    BY <1>1, <2>1 DEF LedgerInv, EnumerationExact, Anchored, Written
  <2>4. records'[hashByIndex[i - 1]] = records[hashByIndex[i - 1]]
    BY <1>1, <2>3 DEF Written
  <2> QED
    BY <2>2, <2>4 DEF LedgerEntry, LedgerView
<1>7. Append(LedgerView, e) = [i \in 1 .. total + 1 |-> IF i = total + 1 THEN e ELSE LedgerView[i]]
  BY <1>2, <1>3
<1>8. ASSUME NEW i \in 1 .. total + 1
      PROVE  LedgerEntry(i)' = IF i = total + 1 THEN e ELSE LedgerView[i]
  <2>1. i = total + 1 \/ i \in 1 .. total
    BY <1>2
  <2>2. i \in 1 .. total => i # total + 1
    BY <1>2
  <2> QED
    BY <1>5, <1>6, <2>1, <2>2
<1> QED
  BY <1>4, <1>7, <1>8

\* Events of any other type leave the claims alone, and so do steps that log nothing.
LEMMA ClaimsKept ==
  ASSUME NEW S, logs' = logs \cup S, \A e \in S : e.type # "Committed"
  PROVE  ClaimsView' = ClaimsView
<1>1. Logged("Committed")' = Logged("Committed")
  BY DEF Logged
<1> QED
  BY <1>1 DEF ClaimsView

LEMMA RecordEventsType ==
  ASSUME NEW h, NEW a, NEW p
  PROVE  \A e \in RecordEvents(h, a, p) : e.type # "Committed"
BY DEF RecordEvents, AnchoredEvent, LinkedEvent

\* A write is an Enter step of the ledger, provided an author-bound one was claimed.
LEMMA WriteEnters ==
  ASSUME LedgerInv, TypeOK', NEW a \in Addr, NEW h \in ContentHash, NEW b \in BOOLEAN,
         NEW p \in AnyHash, WriteRecord(h, a, b, p), b => <<h, a>> \in ClaimsView,
         ClaimsView' = ClaimsView
  PROVE  Ledger!LedgerNext
<1>1. LedgerView' = Append(LedgerView, [digest |-> h, account |-> a, bound |-> b, parent |-> p])
  BY WriteAppends
<1>2. Ledger!Digests = Anchored
  BY LedgerDigests DEF LedgerInv
<1>3. Written(h, a, b, p)
  BY WriteFacts DEF LedgerInv
<1>4. h \notin Ledger!Digests /\ p \in Ledger!Digests \cup {ZeroHash}
  BY <1>2, <1>3 DEF Anchored, Written
<1>5. Ledger!Enter(h, a, b, p)
  BY <1>1, <1>4 DEF Ledger!Enter
<1> QED
  BY <1>5 DEF Ledger!LedgerNext, AnyHash

LEMMA StepRefines ==
  ASSUME ClaimInv, TypeOK', [Next]_vars
  PROVE  [Ledger!LedgerNext]_(Ledger!ledgerVars)
<1> USE DEF ClaimInv
<1>1. ASSUME UNCHANGED registryVars PROVE LedgerView' = LedgerView
  BY <1>1 DEF LedgerView, LedgerEntry, registryVars
<1>2. ASSUME logs' = logs PROVE ClaimsView' = ClaimsView
  BY <1>2 DEF ClaimsView, Logged
<1>3. CASE UNCHANGED vars
  BY <1>1, <1>2, <1>3 DEF vars, Ledger!ledgerVars
<1>4. CASE NewBlock
  BY <1>1, <1>2, <1>4 DEF NewBlock, Ledger!ledgerVars
<1>5. ASSUME NEW a \in Addr, NEW c \in CommitmentHash, commit(a, c)
      PROVE  Ledger!LedgerNext
  <2>1. PICK h \in ContentHash, x \in Addr, s \in Salt : c = <<h, x, s>>
    BY DEF CommitmentHash
  <2>2. Logged("Committed")' = Logged("Committed") \cup {CommittedEvent(c, a)}
    BY <1>5 DEF commit, Logged, CommittedEvent
  <2>3. CommittedEvent(c, a).commitment = c
    BY DEF CommittedEvent
  <2>4. ClaimsView' = ClaimsView \cup {<<h, x>>}
    BY <2>1, <2>2, <2>3 DEF ClaimsView
  <2>5. LedgerView' = LedgerView
    BY <1>1, <1>5 DEF commit
  <2>6. Ledger!Claim(h, x)
    BY <2>4, <2>5 DEF Ledger!Claim
  <2> QED
    BY <2>6 DEF Ledger!LedgerNext
<1>6. ASSUME NEW a \in Addr, NEW h \in AnyHash, NEW p \in AnyHash, anchorWithParent(a, h, p)
      PROVE  Ledger!LedgerNext
  <2>1. WriteRecord(h, a, FALSE, p) /\ logs' = logs \cup RecordEvents(h, a, p)
    BY <1>6 DEF anchorWithParent
  <2>2. h \in ContentHash
    BY <2>1 DEF WriteRecord, Unclaimed, NonZero, AnyHash
  <2>3. ClaimsView' = ClaimsView
    BY <2>1, RecordEventsType, ClaimsKept
  <2> QED
    BY <2>1, <2>2, <2>3, WriteEnters
<1>7. ASSUME NEW a \in Addr, NEW h \in AnyHash, NEW s \in Salt, NEW p \in AnyHash,
             revealWithParent(a, h, s, p)
      PROVE  Ledger!LedgerNext
  <2> DEFINE c == commitmentOf(h, a, s)
             S == RecordEvents(h, a, p) \cup {RevealedEvent(h, a, total, c)}
  <2>1. /\ WriteRecord(h, a, TRUE, p)
        /\ commitments[c].committer # ZeroAddress
        /\ logs' = logs \cup RecordEvents(h, a, p) \cup {RevealedEvent(h, a, total, c)}
    BY <1>7 DEF revealWithParent
  <2>2. h \in ContentHash
    BY <2>1 DEF WriteRecord, Unclaimed, NonZero, AnyHash
  <2>3. \A e \in S : e.type # "Committed"
    BY RecordEventsType DEF RevealedEvent
  <2>4. logs' = logs \cup S
    BY <2>1
  <2>5. ClaimsView' = ClaimsView
    BY <2>3, <2>4, ClaimsKept
  <2>6. c \in CommitmentHash /\ c[1] = h /\ c[2] = a
    BY <2>2 DEF CommitmentHash, commitmentOf
  <2>7. PICK e \in Logged("Committed") : e.commitment = c
    BY <2>1, <2>6 DEF PendingLogged
  <2>8. <<h, a>> \in ClaimsView
    BY <2>6, <2>7 DEF ClaimsView
  <2> QED
    BY <2>1, <2>2, <2>5, <2>8, WriteEnters
<1>8. ASSUME NEW a \in Addr, commit(a, ZeroHash) PROVE FALSE
  BY <1>8 DEF commit
<1> QED
  BY <1>3, <1>4, <1>5, <1>6, <1>7, <1>8 DEF Next, anchor, reveal, AnyHash

\* The contract implements the abstract ledger: every function enters one fresh digest at the
\* end of the ledger, registers one claim, or leaves both as they are.
THEOREM Refinement == Spec => ImplementsLedger
<1>1. Init => Ledger!LedgerInit
  <2> SUFFICES ASSUME Init PROVE LedgerView = <<>> /\ ClaimsView = {}
    BY DEF Ledger!LedgerInit
  <2>1. LedgerView = <<>>
    BY DEF Init, LedgerView
  <2>2. ClaimsView = {}
    BY DEF Init, ClaimsView, Logged
  <2> QED
    BY <2>1, <2>2
<1>2. ClaimInv /\ TypeOK' /\ [Next]_vars => [Ledger!LedgerNext]_(Ledger!ledgerVars)
  BY StepRefines
<1> QED
  BY <1>1, <1>2, ClaimInvariant, TypeCorrect, PTL
     DEF Spec, ImplementsLedger, Ledger!LedgerSpec
=============================================================================
