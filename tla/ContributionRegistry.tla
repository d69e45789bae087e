------------------------ MODULE ContributionRegistry ------------------------
(***************************************************************************)
(* The on-chain registry of contracts/ContributionRegistry.sol.            *)
(*                                                                         *)
(* A transaction is atomic on the chain, so each external function that    *)
(* writes storage is one action; a revert leaves the storage as it was, so *)
(* the conditions that revert are the action's guards.  keccak256 is       *)
(* modelled as an injective constructor: a commitment is the tuple it      *)
(* hashes.  A record's uri is stored verbatim and read by nothing, and is  *)
(* left out.  Storage slots start out zero, as in the EVM: "not anchored"  *)
(* is the zero contributor and "no commitment" the zero committer.         *)
(***************************************************************************)
EXTENDS Integers, Sequences, FiniteSets

CONSTANTS Addr,         \* the accounts that send transactions
          ContentHash,  \* the non-zero 32-byte digests that may be anchored
          Salt,         \* the secrets that blind a commitment
          ZeroAddress,  \* address(0)
          ZeroHash,     \* bytes32(0)
          MaxBlock,     \* the height at which the modelled chain stops
          MaxTick       \* the largest step of block.timestamp between two blocks

ASSUME ZeroAssumption == ZeroAddress \notin Addr /\ ZeroHash \notin ContentHash
ASSUME BoundAssumption == MaxBlock \in Nat /\ MaxTick \in Nat

VARIABLES records,             \* _records
          hashByIndex,         \* _hashByIndex
          total,               \* total
          contributorIndices,  \* _contributorIndices
          contributorCount,    \* _contributorCount
          commitments,         \* _commitments
          block,               \* the block that is being filled: number and timestamp
          logs                 \* the events emitted so far

registryVars == <<records, hashByIndex, total, contributorIndices, contributorCount>>
vars == <<registryVars, commitments, block, logs>>

MIN_REVEAL_DELAY == 1

AnyHash == ContentHash \cup {ZeroHash}
AnyAddr == Addr \cup {ZeroAddress}

Record == [contributor: AnyAddr, authorBound: BOOLEAN,
           timestamp: Nat, blockNumber: Nat, parent: AnyHash]

EmptyRecord == [contributor |-> ZeroAddress, authorBound |-> FALSE,
                timestamp |-> 0, blockNumber |-> 0, parent |-> ZeroHash]

Commitment == [committer: AnyAddr, blockNumber: Nat]

EmptyCommitment == [committer |-> ZeroAddress, blockNumber |-> 0]

\* The commitment hash binds the content, the account that may open it and the salt.
commitmentOf(contentHash, committer, salt) == <<contentHash, committer, salt>>

CommitmentHash == ContentHash \X Addr \X Salt

(***************************************************************************)
(* Events, as the arguments of the emit statements.                        *)
(***************************************************************************)
AnchoredEvent(h, a, i)    == [type |-> "Anchored", contentHash |-> h, contributor |-> a,
                              index |-> i, timestamp |-> block.timestamp]
CommittedEvent(c, a)      == [type |-> "Committed", commitment |-> c, committer |-> a,
                              blockNumber |-> block.number]
RevealedEvent(h, a, i, c) == [type |-> "Revealed", contentHash |-> h, contributor |-> a,
                              index |-> i, commitment |-> c, timestamp |-> block.timestamp]
LinkedEvent(child, p)     == [type |-> "Linked", child |-> child, parent |-> p]

Logged(type) == {e \in logs : e.type = type}

-----------------------------------------------------------------------------
(***************************************************************************)
(* Views.                                                                  *)
(***************************************************************************)
isAnchored(contentHash) == records[contentHash].contributor # ZeroAddress

\* The length both paged reads clamp their window to.
ClampedLength(start, count, size) ==
  IF start >= size THEN 0 ELSE IF count < size - start THEN count ELSE size - start

getRecords(start, count) ==
  [i \in 1 .. ClampedLength(start, count, total) |-> hashByIndex[start + i - 1]]

getRecordsByContributor(contributor, start, count) ==
  LET idxs == contributorIndices[contributor]
  IN  [i \in 1 .. ClampedLength(start, count, Len(idxs)) |-> hashByIndex[idxs[start + i]]]

-----------------------------------------------------------------------------
Init ==
  /\ records = [h \in AnyHash |-> EmptyRecord]
  /\ hashByIndex = [i \in {} |-> ZeroHash]
  /\ total = 0
  /\ contributorIndices = [a \in Addr |-> <<>>]
  /\ contributorCount = [a \in Addr |-> 0]
  /\ commitments = [c \in CommitmentHash |-> EmptyCommitment]
  /\ block = [number |-> 1, timestamp |-> 1]
  /\ logs = {}

(***************************************************************************)
(* _record: the one writer behind every path.  First writer wins, and a    *)
(* predecessor must already be anchored.                                   *)
(***************************************************************************)
NonZero(contentHash) == contentHash # ZeroHash

Unclaimed(contentHash) == NonZero(contentHash) /\ ~isAnchored(contentHash)

\* Mutant: a parent need not be anchored yet.
AnyParent(contentHash, parent) == parent # ZeroHash => parent # contentHash

ParentAcceptable(contentHash, parent) ==
  parent # ZeroHash => /\ parent # contentHash
                       /\ isAnchored(parent)

IndexRecord(contentHash, contributor) ==
  /\ hashByIndex' = [i \in DOMAIN hashByIndex \cup {total} |->
                       IF i = total THEN contentHash ELSE hashByIndex[i]]
  /\ total' = total + 1
  /\ contributorIndices' = [contributorIndices EXCEPT ![contributor] = Append(@, total)]
  /\ contributorCount' = [contributorCount EXCEPT ![contributor] = @ + 1]

WriteRecord(contentHash, contributor, authorBound, parent) ==
  /\ Unclaimed(contentHash)
  /\ ParentAcceptable(contentHash, parent)
  /\ records' = [records EXCEPT ![contentHash] =
                   [contributor |-> contributor, authorBound |-> authorBound,
                    timestamp |-> block.timestamp, blockNumber |-> block.number,
                    parent |-> parent]]
  /\ IndexRecord(contentHash, contributor)

\* Mutant: no Linked event for an edge.
RecordEventsNoEdge(contentHash, contributor, parent) ==
  {AnchoredEvent(contentHash, contributor, total)}

\* What _record emits: Anchored always, Linked only for an edge.
RecordEvents(contentHash, contributor, parent) ==
  {AnchoredEvent(contentHash, contributor, total)}
    \cup (IF parent = ZeroHash THEN {} ELSE {LinkedEvent(contentHash, parent)})

anchorWithParent(sender, contentHash, parent) ==
  /\ WriteRecord(contentHash, sender, FALSE, parent)
  /\ logs' = logs \cup RecordEvents(contentHash, sender, parent)
  /\ UNCHANGED <<commitments, block>>

anchor(sender, contentHash) == anchorWithParent(sender, contentHash, ZeroHash)

\* commit() never looks inside the commitment: any account may register any one.
commit(sender, commitment) ==
  /\ commitment # ZeroHash
  /\ commitments[commitment].committer = ZeroAddress
  /\ commitments' = [commitments EXCEPT ![commitment] =
                       [committer |-> sender, blockNumber |-> block.number]]
  /\ logs' = logs \cup {CommittedEvent(commitment, sender)}
  /\ UNCHANGED <<registryVars, block>>

\* Mutant: the delay is a block too short.
MatureEarly(commitment) ==
  block.number >= commitments[commitment].blockNumber + MIN_REVEAL_DELAY

Mature(commitment) ==
  block.number > commitments[commitment].blockNumber + MIN_REVEAL_DELAY

\* Mutant: the commitment is looked up for whatever account it binds, not for msg.sender.
RevealOfAnyone(sender, contentHash, salt, parent) ==
  /\ contentHash # ZeroHash
  /\ \E a \in Addr :
       LET commitment == commitmentOf(contentHash, a, salt)
       IN  /\ commitments[commitment].committer # ZeroAddress
           /\ Mature(commitment)
           /\ commitments' = [commitments EXCEPT ![commitment] = EmptyCommitment]
           /\ WriteRecord(contentHash, sender, TRUE, parent)
           /\ logs' = logs \cup RecordEvents(contentHash, sender, parent)
                           \cup {RevealedEvent(contentHash, sender, total, commitment)}
  /\ UNCHANGED block

revealWithParent(sender, contentHash, salt, parent) ==
  /\ contentHash # ZeroHash
  /\ LET commitment == commitmentOf(contentHash, sender, salt)
     IN  /\ commitments[commitment].committer # ZeroAddress
         /\ Mature(commitment)
         /\ commitments' = [commitments EXCEPT ![commitment] = EmptyCommitment]
         /\ WriteRecord(contentHash, sender, TRUE, parent)
         /\ logs' = logs \cup RecordEvents(contentHash, sender, parent)
                         \cup {RevealedEvent(contentHash, sender, total, commitment)}
  /\ UNCHANGED block

reveal(sender, contentHash, salt) == revealWithParent(sender, contentHash, salt, ZeroHash)

\* The chain: the next block has the next number and a later timestamp.
NewBlock ==
  /\ block.number < MaxBlock
  /\ \E tick \in 1 .. MaxTick :
       block' = [number |-> block.number + 1, timestamp |-> block.timestamp + tick]
  /\ UNCHANGED <<registryVars, commitments, logs>>

Next ==
  \/ NewBlock
  \/ \E sender \in Addr :
       \/ \E c \in CommitmentHash \cup {ZeroHash} : commit(sender, c)
       \/ \E h \in AnyHash :
            \/ anchor(sender, h)
            \/ \E p \in ContentHash : anchorWithParent(sender, h, p)
            \/ \E s \in Salt :
                 \/ reveal(sender, h, s)
                 \/ \E p \in ContentHash : revealWithParent(sender, h, s, p)

Spec == Init /\ [][Next]_vars
-----------------------------------------------------------------------------
(***************************************************************************)
(* Properties.                                                             *)
(***************************************************************************)
Anchored == {h \in AnyHash : isAnchored(h)}

Indices == 0 .. total - 1

\* The storage holds values of the declared Solidity types.
TypeOK ==
  /\ records \in [AnyHash -> Record]
  /\ total \in Nat
  /\ DOMAIN hashByIndex = Indices
  /\ \A i \in Indices : hashByIndex[i] \in ContentHash
  /\ contributorIndices \in [Addr -> Seq(Nat)]
  /\ contributorCount \in [Addr -> Nat]
  /\ commitments \in [CommitmentHash -> Commitment]
  /\ block \in [number: Nat, timestamp: Nat]

\* Enumeration by index is exact: walking 0 .. total-1 (getRecordAtIndex, getRecords) meets
\* every anchored hash, meets it once, and meets nothing else, whichever of the four write
\* paths of the contract wrote it.
EnumerationExact ==
  /\ \A i, j \in Indices : hashByIndex[i] = hashByIndex[j] => i = j
  /\ {hashByIndex[i] : i \in Indices} = Anchored

\* The lineage graph is acyclic because every edge points back in insertion order: the
\* parent of a record is zero or was anchored at a strictly smaller index.
LineageOrdered ==
  \A i \in Indices :
    LET p == records[hashByIndex[i]].parent
    IN  p # ZeroHash => \E j \in 0 .. i - 1 : hashByIndex[j] = p

\* Insertion order, block order and timestamp order agree, and no record is dated after the
\* block being filled: a record's blockNumber and timestamp bound its existence from above.
ChainOrdered ==
  \A i, j \in Indices :
    LET r == records[hashByIndex[i]]
        s == records[hashByIndex[j]]
    IN  /\ r.blockNumber <= block.number /\ r.timestamp <= block.timestamp
        /\ i <= j => r.blockNumber <= s.blockNumber /\ r.timestamp <= s.timestamp

\* The per-contributor side index: the cheap counter is the length of the list, the list is
\* strictly increasing, and it names exactly the records written under that account.
ContributorIndexExact ==
  \A a \in Addr :
    LET idxs == contributorIndices[a]
    IN  /\ contributorCount[a] = Len(idxs)
        /\ \A k, l \in 1 .. Len(idxs) : k < l => idxs[k] < idxs[l]
        /\ {idxs[k] : k \in 1 .. Len(idxs)}
             = {i \in Indices : records[hashByIndex[i]].contributor = a}

\* An indexer that sees only the logs rebuilds the storage: one Anchored event per index, the
\* whole edge set from the Linked events, and authorBound from the Revealed events.
LogsRebuildStorage ==
  /\ {<<e.index, e.contentHash, e.contributor, e.timestamp>> : e \in Logged("Anchored")}
       = {<<i, hashByIndex[i], records[hashByIndex[i]].contributor,
            records[hashByIndex[i]].timestamp>> : i \in Indices}
  /\ {<<e.child, e.parent>> : e \in Logged("Linked")}
       = {<<h, records[h].parent>> : h \in {g \in Anchored : records[g].parent # ZeroHash}}
  /\ {<<e.index, e.contentHash, e.contributor, e.timestamp>> : e \in Logged("Revealed")}
       = {<<i, hashByIndex[i], records[hashByIndex[i]].contributor,
            records[hashByIndex[i]].timestamp>> :
            i \in {j \in Indices : records[hashByIndex[j]].authorBound}}

\* The registry's storage, its per-account index and what its event log rebuilds are one
\* ledger: every digest enumerated once, in the order of the blocks, parents before
\* children (_record, getRecords, getRecordsByContributor).
LedgerIsExact ==
  /\ EnumerationExact /\ ContributorIndexExact /\ LogsRebuildStorage
  /\ LineageOrdered /\ ChainOrdered

\* An author-bound record rests on a commitment to exactly that content and that account,
\* registered more than MIN_REVEAL_DELAY blocks before the content was revealed: when the
\* content became public the claim was already buried in the chain.
AuthorBoundCommitted ==
  \A h \in Anchored : records[h].authorBound =>
    \E e \in Logged("Committed") :
      /\ e.blockNumber + MIN_REVEAL_DELAY < records[h].blockNumber
      /\ \E s \in Salt : e.commitment = commitmentOf(h, records[h].contributor, s)

\* Immutability: no step changes or removes a record, nor moves it to another index.
LedgerAppendOnly ==
  [][ /\ total' >= total
      /\ \A i \in Indices : /\ hashByIndex'[i] = hashByIndex[i]
                            /\ records'[hashByIndex[i]] = records[hashByIndex[i]] ]_vars

\* A pending commitment is consumed only by the account bound into it, only once it is
\* mature, and only by anchoring its content under that account.
OpenedByBoundAccount ==
  [][ \A c \in CommitmentHash :
        (commitments[c].committer # ZeroAddress /\ commitments'[c] # commitments[c]) =>
          /\ commitments'[c].committer = ZeroAddress
          /\ block.number > commitments[c].blockNumber + MIN_REVEAL_DELAY
          /\ ~isAnchored(c[1])
          /\ records'[c[1]].contributor = c[2]
          /\ records'[c[1]].authorBound ]_vars

\* The ledger and the claims the storage and the logs stand for.
LedgerEntry(i) ==
  LET h == hashByIndex[i - 1]
  IN  [digest |-> h, account |-> records[h].contributor,
       bound |-> records[h].authorBound, parent |-> records[h].parent]

LedgerView == [i \in 1 .. total |-> LedgerEntry(i)]

ClaimsView == {<<e.commitment[1], e.commitment[2]>> : e \in Logged("Committed")}

Ledger == INSTANCE RegistryLedger
            WITH Account <- Addr, Digest <- ContentHash, NoParent <- ZeroHash,
                 ledger <- LedgerView, claims <- ClaimsView

\* The contract implements the abstract ledger: whichever of its functions runs, a step enters
\* one fresh digest at the end, registers one claim, or changes nothing a reader can see.
ImplementsLedger == Ledger!LedgerSpec

\* What the comment on Commitment.committer says: reveal() requires msg.sender to be the
\* account that registered the commitment, which storage and the Committed event name.
RevealedByRegistrant ==
  [][ \A c \in CommitmentHash :
        (commitments[c].committer # ZeroAddress /\ commitments'[c] # commitments[c]) =>
          commitments[c].committer = records'[c[1]].contributor ]_vars
=============================================================================
