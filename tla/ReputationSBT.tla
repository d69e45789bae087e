--------------------------- MODULE ReputationSBT ---------------------------
(***************************************************************************)
(* The soulbound points of contracts/ReputationSBT.sol over the registry   *)
(* they are pinned to, the gate of contracts/ReputationGate.sol that       *)
(* consumes them, and the off-chain oracle cli/core/reputation-points.js   *)
(* they must agree with.  All three contracts live on one chain, so a step *)
(* is one transaction of any of them.                                      *)
(***************************************************************************)
EXTENDS ContributionRegistry, Functions, TLC

CONSTANTS MinPoints,  \* the gate's threshold, fixed by its constructor
          Ref,        \* the opaque references an integrator honors
          MaxBatch    \* the longest batch a keeper sends

ASSUME GateAssumption == MinPoints \in Nat /\ MaxBatch \in Nat

VARIABLES minted,       \* the digests for which minted(contentHash) is true
          points,       \* points
          totalPoints,  \* totalPoints
          mintLog,      \* the PointMinted events
          honored       \* the Honored events

sbtVars == <<minted, points, totalPoints, mintLog>>
allVars == <<vars, sbtVars, honored>>

\* Accounts and digests are interchangeable: the contracts only compare them.
Symmetry == Permutations(Addr) \cup Permutations(ContentHash)

Batch == UNION {[1 .. n -> AnyHash] : n \in 0 .. MaxBatch}

PointMintedEvent(a, h, newBalance, newTotal) ==
  [contributor |-> a, contentHash |-> h, newBalance |-> newBalance, newTotalPoints |-> newTotal]

\* Mutant: a one-shot anchor mints too.
MintableAnchored(contentHash) == contentHash \notin minted /\ isAnchored(contentHash)

\* The checks of _mint: not minted before, anchored (getRecord reverts otherwise), and claimed
\* through commit-reveal.
Mintable(contentHash) ==
  /\ contentHash \notin minted
  /\ isAnchored(contentHash)
  /\ records[contentHash].authorBound

Creditee(contentHash) == records[contentHash].contributor

SBTInit ==
  /\ Init
  /\ minted = {}
  /\ points = [a \in Addr |-> 0]
  /\ totalPoints = 0
  /\ mintLog = {}
  /\ honored = {}

\* mint: the record's contributor is credited, whoever sends the transaction.
mint(contentHash) ==
  /\ Mintable(contentHash)
  /\ LET a == Creditee(contentHash)
     IN  /\ points' = [points EXCEPT ![a] = @ + 1]
         /\ mintLog' = mintLog \cup {PointMintedEvent(a, contentHash, points[a] + 1, totalPoints + 1)}
  /\ minted' = minted \cup {contentHash}
  /\ totalPoints' = totalPoints + 1
  /\ UNCHANGED <<vars, honored>>

\* Mutant: the checks run before the loop, so a digest twice in a batch counts twice.
BatchAcceptableUpFront(batch) == \A i \in DOMAIN batch : Mintable(batch[i])

\* mintBatch reverts as a whole unless every call of _mint succeeds, the later ones seeing what
\* the earlier ones did: a digest that occurs twice is AlreadyMinted the second time.
BatchAcceptable(batch) ==
  /\ \A i \in DOMAIN batch : Mintable(batch[i])
  /\ \A i, j \in DOMAIN batch : batch[i] = batch[j] => i = j

\* The number of the first n digests of a batch that credit account a.
CreditedUpTo(batch, a, n) == Cardinality({i \in 1 .. n : Creditee(batch[i]) = a})

BatchCredit(batch) == [a \in Addr |-> points[a] + CreditedUpTo(batch, a, Len(batch))]

mintBatch(batch) ==
  /\ BatchAcceptable(batch)
  /\ minted' = minted \cup Range(batch)
  /\ points' = BatchCredit(batch)
  /\ totalPoints' = totalPoints + Len(batch)
  /\ mintLog' = mintLog \cup
       {LET a == Creditee(batch[i])
        IN  PointMintedEvent(a, batch[i], points[a] + CreditedUpTo(batch, a, i), totalPoints + i) :
          i \in DOMAIN batch}
  /\ UNCHANGED <<vars, honored>>

-----------------------------------------------------------------------------
(***************************************************************************)
(* The gate.                                                               *)
(***************************************************************************)
meetsThreshold(account, minPoints) == points[account] >= minPoints

isAllowed(account) == meetsThreshold(account, MinPoints)

requireReputation(account) == ~(points[account] < MinPoints)

autoHonor(sender, ref) ==
  /\ requireReputation(sender)
  /\ honored' = honored \cup {[account |-> sender, ref |-> ref]}
  /\ UNCHANGED <<vars, sbtVars>>

-----------------------------------------------------------------------------
SBTNext ==
  \/ Next /\ UNCHANGED <<sbtVars, honored>>
  \/ \E h \in AnyHash : mint(h)
  \/ \E batch \in Batch : mintBatch(batch)
  \/ \E sender \in Addr, ref \in Ref : autoHonor(sender, ref)

SBTSpec == SBTInit /\ [][SBTNext]_allVars
-----------------------------------------------------------------------------
(***************************************************************************)
(* The off-chain oracle, and the records a consumer feeds it.              *)
(***************************************************************************)
LedgerRecords ==
  [i \in 1 .. total |-> [contentHash |-> hashByIndex[i - 1],
                         contributor |-> records[hashByIndex[i - 1]].contributor,
                         authorBound |-> records[hashByIndex[i - 1]].authorBound]]

\* Records in order; a one-shot or an already counted digest contributes nothing.
projectPoints(recs) ==
  LET project[n \in 0 .. Len(recs)] ==
        IF n = 0 THEN [points |-> [a \in Addr |-> 0], minted |-> {}]
        ELSE LET before == project[n - 1]
                 r      == recs[n]
             IN  IF ~r.authorBound \/ r.contentHash \in before.minted THEN before
                 ELSE [points |-> [before.points EXCEPT ![r.contributor] = @ + 1],
                       minted |-> before.minted \cup {r.contentHash}]
  IN  project[Len(recs)]

pointsOf(recs, address) == projectPoints(recs).points[address]

hasAtLeast(recs, address, n) == pointsOf(recs, address) >= n

\* The loop of mintBatch, call by call, on the state it starts from.
mintLoop(batch) ==
  LET run[n \in 0 .. Len(batch)] ==
        IF n = 0 THEN [ok |-> TRUE, minted |-> minted, points |-> points]
        ELSE LET st == run[n - 1]
                 h  == batch[n]
             IN  IF ~st.ok \/ h \in st.minted \/ ~isAnchored(h) \/ ~records[h].authorBound
                 THEN [st EXCEPT !.ok = FALSE]
                 ELSE [ok |-> TRUE, minted |-> st.minted \cup {h},
                       points |-> [st.points EXCEPT ![Creditee(h)] = @ + 1]]
  IN  run[Len(batch)]

-----------------------------------------------------------------------------
(***************************************************************************)
(* Properties.                                                             *)
(***************************************************************************)
\* The points' storage has its declared types, next to the registry's.
SBTTypeOK ==
  /\ TypeOK
  /\ minted \subseteq ContentHash
  /\ points \in [Addr -> Nat]
  /\ totalPoints \in Nat

MintedOf(a) == {h \in minted : Creditee(h) = a}

\* Every point can be audited: an account's balance is the number of minted records that name
\* it, each of them a commit-reveal claim, and the total is the number of minted digests.
PointsAudited ==
  /\ \A h \in minted : isAnchored(h) /\ records[h].authorBound
  /\ \A a \in Addr : points[a] = Cardinality(MintedOf(a))
  /\ totalPoints = Cardinality(minted)

\* The PointMinted log alone rebuilds every balance, also across batches: an account's
\* newBalance values are 1 .. points[a] with no gap or repetition, and so are the totals.
LogsRebuildBalances ==
  /\ \A a \in Addr :
       LET own == {e \in mintLog : e.contributor = a}
       IN  /\ {e.newBalance : e \in own} = 1 .. points[a]
           /\ {e.contentHash : e \in own} = MintedOf(a)
           /\ Cardinality(own) = points[a]
  /\ {e.newTotalPoints : e \in mintLog} = 1 .. totalPoints

\* The contract and the off-chain oracle agree: a balance may lag the oracle's but never
\* exceeds it, and equals it once every author-bound record is minted.
OracleAgrees ==
  LET oracle == projectPoints(LedgerRecords)
  IN  /\ \A a \in Addr : points[a] <= oracle.points[a]
      /\ minted = oracle.minted => points = oracle.points

\* An account once honored by the gate clears it ever after, on the chain and in the off-chain
\* oracle over the records a consumer would fetch: no later transaction can undercut it.
HonoredStaysBacked ==
  \A e \in honored : /\ isAllowed(e.account)
                     /\ hasAtLeast(LedgerRecords, e.account, MinPoints)

\* mintBatch is the repetition of mint: its all-or-nothing guard accepts exactly the batches
\* every call of the loop accepts, and then credits what the loop would credit.
BatchIsRepeatedMint ==
  \A batch \in Batch :
    /\ BatchAcceptable(batch) <=> mintLoop(batch).ok
    /\ BatchAcceptable(batch) => mintLoop(batch).points = BatchCredit(batch)

\* The points in storage are those the event log adds up to, a batch mints what its mints
\* one by one would have minted, the off-chain oracle agrees with the gate, and what the
\* gate honored stays backed (mint, mintBatch, requireReputation).
PointsAreBacked ==
  LogsRebuildBalances /\ BatchIsRepeatedMint /\ OracleAgrees /\ HonoredStaysBacked

\* Points are soulbound: no step lowers a balance, unmints a digest, or moves a point from one
\* account to another.
Soulbound ==
  [][ /\ \A a \in Addr : points'[a] >= points[a] /\ MintedOf(a) \subseteq MintedOf(a)'
      /\ minted \subseteq minted' ]_allVars
=============================================================================
