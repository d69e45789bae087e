--------------------------- MODULE ClaimCliProofs ---------------------------
(***************************************************************************)
(* Theorems about the command-line client, for every set of accounts,      *)
(* digests and salts, every number of crashes and chains of every length.  *)
(***************************************************************************)
EXTENDS MCClaimCli, ContributionRegistryProofs

-----------------------------------------------------------------------------
\* The shapes of the client's state: what proc, the file, the mempool and the results hold.
SendingProc == [pc : {"commit_sent", "writing"}, cmd : {"commit", "claim"}, salt : Salt,
                persist : BOOLEAN, receiptParent : AnyHash, nonce : Nat]

WaitingProc == [pc : {"waiting"}, commitBlock : Nat, salt : Salt, parent : AnyHash, noWait : BOOLEAN]

RevealProc == [pc : {"reveal_sent"}, nonce : Nat]

Shapes ==
  /\ proc = Idle \/ proc \in SendingProc \/ proc \in WaitingProc \/ proc \in RevealProc
  /\ CompleteReceipt => disk \in Receipt
  /\ mempool \in Seq(Tx)
  /\ results \in Seq([error : {None} \cup Errors, block : Nat])
  /\ usedSalts \subseteq Salt
  /\ publicAt \in Nat /\ publicAt <= block.number

LEMMA Constants == User \in Addr /\ Other \in Addr /\ User # Other /\ User # ZeroAddress
                   /\ Other # ZeroAddress /\ Digest \in ContentHash /\ Digest \in AnyHash
                   /\ Predecessor \in AnyHash /\ Predecessor # Digest
BY ClaimAssumption, ZeroAssumption DEF AnyHash

\* The client sends the registry nothing but calls the registry specifies.
LEMMA StepOfRegistry == Shapes /\ [CliNext]_cliVars => [Next]_vars
<1> SUFFICES ASSUME Shapes, CliNext PROVE [Next]_vars
  BY DEF cliVars
<1>1. CASE MineNext
  <2> DEFINE tx == Head(mempool)
  <2>1. tx \in Tx
    BY <1>1 DEF Shapes, MineNext
  <2>2. \/ UNCHANGED vars
        \/ commit(User, UserCommitment(tx.salt))
        \/ revealWithParent(User, Digest, tx.salt, tx.parent)
    BY <1>1, <2>1 DEF MineNext, Tx
  <2>3. UserCommitment(tx.salt) \in CommitmentHash
    BY <2>1, Constants DEF UserCommitment, commitmentOf, CommitmentHash, Tx
  <2>4. tx.salt \in Salt /\ tx.parent \in AnyHash
    BY <2>1 DEF Tx
  <2> HIDE DEF tx
  <2> QED
    BY <2>2, <2>3, <2>4, Constants DEF Next, reveal, AnyHash
<1>2. CASE ChainAdvances
  BY <1>2 DEF ChainAdvances, Next
<1>3. CASE AnchorPredecessor
  BY <1>3, Constants DEF AnchorPredecessor, Next
<1>4. CASE OthersCommit
  <2>1. \A salt \in Salt : /\ UserCommitment(salt) \in CommitmentHash
                           /\ commitmentOf(Digest, Other, salt) \in CommitmentHash
    BY Constants DEF UserCommitment, commitmentOf, CommitmentHash
  <2>2. \A i \in DOMAIN mempool : mempool[i].salt \in Salt
    <3>1. \A i \in DOMAIN mempool : mempool[i] \in Tx
      BY DEF Shapes
    <3> QED
      BY <3>1 DEF Tx
  <2> QED
    BY <1>4, <2>1, <2>2, Constants DEF OthersCommit, Next
<1>5. CASE OthersClaim
  BY <1>5, Constants DEF OthersClaim, Next
<1>6. CASE vhCommit \/ vhClaim \/ vhReveal \/ Process \/ Crash
  BY <1>6 DEF vhCommit, vhClaim, SendCommit, vhReveal, Process, CommitMined, ReceiptWritten,
              SendReveal, RevealMined, Crash
<1> QED
  BY <1>1, <1>2, <1>3, <1>4, <1>5, <1>6 DEF CliNext

\* What the chain keeps under any step: records, and the order of its blocks.
LEMMA ChainKept ==
  ASSUME TypeOK, [Next]_vars
  PROVE  /\ block.number \in Nat /\ block'.number \in Nat /\ block'.number >= block.number
         /\ \A h \in AnyHash : isAnchored(h) => isAnchored(h)' /\ records'[h] = records[h]
<1>1. block' \in [number : Nat, timestamp : Nat] /\ block.number \in Nat
  BY StepKeepsChainTypes DEF TypeOK
<1>2. CASE RecordLogged
  <2>1. PICK a \in Addr, g \in ContentHash, b \in BOOLEAN, p \in AnyHash :
          WriteRecord(g, a, b, p) /\ block' = block
    BY <1>2 DEF RecordLogged
  <2>2. Written(g, a, b, p)
    BY <2>1, WriteFacts
  <2> QED
    BY <1>1, <2>1, <2>2 DEF Written, isAnchored
<1>3. CASE RecordsKept
  BY <1>1, <1>3 DEF RecordsKept, registryVars, isAnchored
<1> QED
  BY <1>2, <1>3, StepLogsItsRecord

-----------------------------------------------------------------------------
\* A commit of a salt is under way: it waits in the mempool, where it can be copied.
Pending(salt) == \E i \in DOMAIN mempool : mempool[i].fn = "commit" /\ mempool[i].salt = salt

\* The commit of a salt is over.  It is registered under the user, or gone because the digest is
\* anchored; nobody registers it anew.
Live(salt) ==
  LET c == commitments[UserCommitment(salt)]
  IN  /\ salt \in usedSalts /\ ~Pending(salt)
      /\ c.committer \in {User, ZeroAddress}
      /\ c.committer = ZeroAddress => isAnchored(Digest)

\* The salt's commitment, while it is registered, is of the given block.
Settled(salt, mined) ==
  /\ Live(salt)
  /\ LET c == commitments[UserCommitment(salt)] IN c.committer = User => c.blockNumber = mined

\* A reveal of the salt would not be too soon.
Ripe(salt) ==
  LET c == commitments[UserCommitment(salt)]
  IN  c.committer = User => block.number > c.blockNumber + MIN_REVEAL_DELAY

\* Some reveal is told not to wait for its window.
EarlyAllowed == TRUE \in NoWait

\* An error a process may end with.
Explained(error) ==
  /\ error \in {"NoSuchCommitment", "AlreadyAnchored"} => isAnchored(Digest)
  /\ error = "RevealTooSoon" => EarlyAllowed

\* The salts of the commits in the mempool were drawn, each for one commit.
FreshSalts ==
  /\ \A i \in DOMAIN mempool : mempool[i].fn = "commit" => mempool[i].salt \in usedSalts
  /\ \A i, j \in DOMAIN mempool :
       /\ mempool[i].fn = "commit" /\ mempool[j].fn = "commit"
       /\ mempool[i].salt = mempool[j].salt
       => i = j

\* The transaction a process waits for is mined, with a result it can go by, or is in the mempool.
Mined(nonce) == nonce \in 1 .. Len(results)
Waits(nonce) == nonce - Len(results) \in 1 .. Len(mempool)
TxOf(nonce) == mempool[nonce - Len(results)]

CommitSent ==
  proc \in SendingProc =>
    /\ Mined(proc.nonce) \/ Waits(proc.nonce)
    /\ Mined(proc.nonce) =>
         /\ Explained(results[proc.nonce].error)
         /\ results[proc.nonce].error = None => Settled(proc.salt, results[proc.nonce].block)
    /\ Waits(proc.nonce) => TxOf(proc.nonce) = CommitTx(proc.salt)
    /\ proc.pc = "writing" => Mined(proc.nonce) /\ results[proc.nonce].error = None

RevealWaits ==
  proc \in WaitingProc => Settled(proc.salt, proc.commitBlock) /\ (proc.noWait => EarlyAllowed)

RevealSent ==
  proc \in RevealProc =>
    /\ Mined(proc.nonce) \/ Waits(proc.nonce)
    /\ Mined(proc.nonce) => Explained(results[proc.nonce].error)
    /\ Waits(proc.nonce) => /\ TxOf(proc.nonce).fn = "reveal"
                            /\ Live(TxOf(proc.nonce).salt)
                            /\ EarlyAllowed \/ Ripe(TxOf(proc.nonce).salt)

ReceiptSettled == CompleteReceipt => Settled(disk.salt, disk.commitBlock)

\* The client's inductive invariant.
ReceiptInv ==
  FreshSalts /\ CommitSent /\ RevealWaits /\ RevealSent /\ ReceiptSettled /\ Explained(failure)

CliInv == TypeOK /\ Shapes /\ ReceiptInv

-----------------------------------------------------------------------------
\* The kind of process is what its pc says.
LEMMA Kinds ==
  ASSUME Shapes
  PROVE  /\ proc \in SendingProc <=> proc.pc \in {"commit_sent", "writing"}
         /\ proc \in WaitingProc <=> proc.pc = "waiting"
         /\ proc \in RevealProc <=> proc.pc = "reveal_sent"
         /\ proc = Idle <=> proc.pc = "idle"
BY DEF Shapes, SendingProc, WaitingProc, RevealProc, Idle

\* An idle process is of no other kind, and a process of one kind is of no other.
LEMMA KindsDiffer ==
  /\ Idle \notin SendingProc /\ Idle \notin WaitingProc /\ Idle \notin RevealProc
  /\ \A p \in SendingProc : p \notin WaitingProc /\ p \notin RevealProc
  /\ \A p \in WaitingProc : p \notin SendingProc /\ p \notin RevealProc
  /\ \A p \in RevealProc : p \notin SendingProc /\ p \notin WaitingProc
BY DEF SendingProc, WaitingProc, RevealProc, Idle

\* What a call of Send leaves behind: a transaction at the end of the mempool, or an error.
Sent(tx, next) ==
  /\ mempool' = Append(mempool, tx) /\ proc' = next /\ failure' = failure
  /\ publicAt' = IF tx.fn = "reveal" /\ publicAt = 0 THEN block.number ELSE publicAt

Refused(tx) ==
  /\ failure' \in Errors /\ proc' = Idle /\ UNCHANGED <<mempool, publicAt>>
  /\ \E number \in {getBlockNumber, block.number} : failure' = TxError(number, tx)

LEMMA ErrorType == \A number, tx : TxError(number, tx) \in {None} \cup Errors
BY DEF TxError, CommitError, RevealError, Errors

LEMMA SendOutcome ==
  ASSUME NEW tx, NEW STATE next, Send(tx, next)
  PROVE  Sent(tx, next) \/ Refused(tx)
BY ErrorType DEF Send, Sent, Refused

NewNonce == Len(results) + Len(mempool) + 1

\* What vh commit and vh claim do first.
LEMMA CommitOutcome ==
  ASSUME Shapes, vhCommit \/ vhClaim
  PROVE  /\ proc = Idle /\ UNCHANGED <<vars, disk, results, crashes>>
         /\ \E salt \in Salt \ usedSalts :
              /\ usedSalts' = usedSalts \cup {salt}
              /\ \/ \E cmd \in {"commit", "claim"}, persist \in BOOLEAN,
                     receiptParent \in {Predecessor, ZeroHash} :
                     /\ cmd = "commit" => receiptParent = Predecessor
                     /\ Sent(CommitTx(salt),
                             [pc |-> "commit_sent", cmd |-> cmd, salt |-> salt, persist |-> persist,
                              receiptParent |-> receiptParent, nonce |-> NewNonce])
                 \/ Refused(CommitTx(salt))
<1>1. ASSUME NEW cmd \in {"commit", "claim"}, NEW persist \in BOOLEAN,
             NEW receiptParent \in {Predecessor, ZeroHash}, cmd = "commit" => receiptParent = Predecessor,
             SendCommit(cmd, persist, receiptParent)
      PROVE  /\ proc = Idle /\ UNCHANGED <<vars, disk, results, crashes>>
             /\ \E salt \in Salt \ usedSalts :
                  /\ usedSalts' = usedSalts \cup {salt}
                  /\ \/ Sent(CommitTx(salt),
                             [pc |-> "commit_sent", cmd |-> cmd, salt |-> salt, persist |-> persist,
                              receiptParent |-> receiptParent, nonce |-> NewNonce])
                     \/ Refused(CommitTx(salt))
  <2>1. proc = Idle /\ UNCHANGED <<vars, disk, results, crashes>>
    BY <1>1, Kinds DEF SendCommit
  <2>2. PICK salt \in Salt \ usedSalts :
          /\ usedSalts' = usedSalts \cup {salt}
          /\ Send(CommitTx(salt),
                  [pc |-> "commit_sent", cmd |-> cmd, salt |-> salt, persist |-> persist,
                   receiptParent |-> receiptParent, nonce |-> NewNonce])
    BY <1>1 DEF SendCommit, NextNonce, NewNonce
  <2> QED
    BY <2>1, <2>2, SendOutcome
<1>2. CASE vhCommit
  <2>1. SendCommit("commit", TRUE, Predecessor)
    BY <1>2 DEF vhCommit
  <2> QED
    BY <2>1, <1>1
<1>3. CASE vhClaim
  <2>1. PICK persist \in BOOLEAN : SendCommit("claim", persist, ZeroHash)
    BY <1>3 DEF vhClaim
  <2> QED
    BY <2>1, <1>1
<1> QED
  BY <1>2, <1>3

-----------------------------------------------------------------------------
\* How a step moves the mempool and the results.
Broadcast ==
  \E tx \in Tx :
    /\ mempool' = Append(mempool, tx) /\ results' = results
    /\ usedSalts \subseteq usedSalts'
    /\ tx.fn = "commit" => tx.salt \notin usedSalts /\ tx.salt \in usedSalts'

Included ==
  /\ MineNext
  /\ mempool # <<>> /\ mempool' = Tail(mempool) /\ usedSalts' = usedSalts
  /\ results' = Append(results, [error |-> TxError(block.number, Head(mempool)), block |-> block.number])

LEMMA CallTypes ==
  /\ \A salt \in Salt : CommitTx(salt) \in Tx /\ CommitTx(salt).fn = "commit" /\ CommitTx(salt).salt = salt
  /\ \A salt \in Salt, parent \in AnyHash :
       /\ RevealTx(salt, parent) \in Tx /\ RevealTx(salt, parent).fn = "reveal"
       /\ RevealTx(salt, parent).salt = salt /\ RevealTx(salt, parent).parent = parent
BY DEF CommitTx, RevealTx, Tx, AnyHash

\* What vh reveal does when its window is over.
LEMMA RevealOutcome ==
  ASSUME Shapes, SendReveal
  PROVE  /\ proc \in WaitingProc /\ UNCHANGED <<vars, disk, results, usedSalts, crashes>>
         /\ proc.noWait \/ WindowOver(proc.commitBlock)
         /\ \/ Sent(RevealTx(proc.salt, proc.parent), [pc |-> "reveal_sent", nonce |-> NewNonce])
            \/ Refused(RevealTx(proc.salt, proc.parent))
<1>1. Send(RevealTx(proc.salt, proc.parent), [pc |-> "reveal_sent", nonce |-> NewNonce])
  BY DEF SendReveal, NextNonce, NewNonce
<1>2. \/ Sent(RevealTx(proc.salt, proc.parent), [pc |-> "reveal_sent", nonce |-> NewNonce])
      \/ Refused(RevealTx(proc.salt, proc.parent))
  BY <1>1 DEF Send, Sent, Refused, TxError, CommitError, RevealError, Errors
<1> QED
  BY <1>2, Kinds DEF SendReveal

LEMMA MempoolStep ==
  ASSUME Shapes, [CliNext]_cliVars
  PROVE  \/ usedSalts \subseteq usedSalts' /\ UNCHANGED <<mempool, results>>
         \/ Broadcast
         \/ Included
<1>1. CASE vhCommit \/ vhClaim
  <2>1. PICK salt \in Salt \ usedSalts :
          /\ results' = results /\ usedSalts' = usedSalts \cup {salt}
          /\ mempool' = Append(mempool, CommitTx(salt)) \/ mempool' = mempool
    BY <1>1, CommitOutcome DEF Sent, Refused
  <2> QED
    BY <2>1, CallTypes DEF Broadcast
<1>2. CASE SendReveal
  <2>1. /\ results' = results /\ usedSalts' = usedSalts /\ proc \in WaitingProc
        /\ mempool' = Append(mempool, RevealTx(proc.salt, proc.parent)) \/ mempool' = mempool
    BY <1>2, RevealOutcome DEF Sent, Refused
  <2>2. proc.salt \in Salt /\ proc.parent \in AnyHash
    BY <2>1 DEF WaitingProc
  <2> QED
    BY <2>1, <2>2, CallTypes DEF Broadcast
<1>3. CASE MineNext
  BY <1>3 DEF MineNext, Included
<1>4. CASE vhReveal \/ CommitMined \/ ReceiptWritten \/ RevealMined \/ Crash
  BY <1>4 DEF vhReveal, CommitMined, ReceiptWritten, RevealMined, Crash
<1>5. CASE ChainAdvances \/ AnchorPredecessor \/ OthersCommit \/ OthersClaim
  BY <1>5 DEF ChainAdvances, AnchorPredecessor, OthersCommit, OthersClaim, claimVars
<1>6. CASE UNCHANGED cliVars
  BY <1>6 DEF cliVars, claimVars
<1> QED
  BY <1>1, <1>2, <1>3, <1>4, <1>5, <1>6 DEF CliNext, Process

\* The block of a mined transaction is a block of the chain, and an open process waits for one.
LEMMA ShapesStep ==
  ASSUME TypeOK, Shapes, CommitSent, [CliNext]_cliVars
  PROVE  Shapes'
<1>0. block.number \in Nat /\ block'.number \in Nat /\ block'.number >= block.number
  BY StepOfRegistry, ChainKept
<1> DEFINE Result == [error : {None} \cup Errors, block : Nat]
           ProcShape(p) == p = Idle \/ p \in SendingProc \/ p \in WaitingProc \/ p \in RevealProc
<1>1. mempool' \in Seq(Tx) /\ results' \in Seq(Result)
  <2>1. mempool \in Seq(Tx) /\ results \in Seq(Result)
    BY DEF Shapes
  <2>2. CASE Broadcast
    BY <2>1, <2>2 DEF Broadcast
  <2>3. CASE Included
    <3>1. mempool' \in Seq(Tx)
      BY <2>1, <2>3 DEF Included
    <3>2. [error |-> TxError(block.number, Head(mempool)), block |-> block.number] \in Result
      BY <1>0, ErrorType
    <3> QED
      BY <2>1, <2>3, <3>1, <3>2 DEF Included
  <2> QED
    BY <2>1, <2>2, <2>3, MempoolStep
<1>2. \A n \in Nat : Mined(n) => results[n].block \in Nat
  <2>1. \A n \in 1 .. Len(results) : results[n] \in Result
    <3>1. results \in Seq(Result)
      BY DEF Shapes
    <3> HIDE DEF Result
    <3> QED
      BY <3>1
  <2> QED
    BY <2>1 DEF Mined
<1>3. NewNonce \in Nat
  BY DEF Shapes, NewNonce
<1> SUFFICES /\ ProcShape(proc') /\ (disk' \notin {None, Partial} => disk' \in Receipt)
             /\ usedSalts' \subseteq Salt
             /\ publicAt' \in Nat /\ publicAt' <= block'.number
  BY <1>1 DEF Shapes, CompleteReceipt
<1>4. ProcShape(proc) /\ CompleteReceipt => disk \in Receipt
  BY DEF Shapes
<1>5. ASSUME UNCHANGED <<proc, disk, usedSalts, publicAt>>
      PROVE  /\ ProcShape(proc') /\ (disk' \notin {None, Partial} => disk' \in Receipt)
             /\ usedSalts' \subseteq Salt
             /\ publicAt' \in Nat /\ publicAt' <= block'.number
  BY <1>0, <1>5 DEF Shapes, CompleteReceipt
<1>6. CASE vhCommit \/ vhClaim
  <2>1. PICK salt \in Salt \ usedSalts :
          /\ UNCHANGED <<vars, disk>> /\ usedSalts' = usedSalts \cup {salt}
          /\ \/ proc' = Idle /\ publicAt' = publicAt
             \/ \E cmd \in {"commit", "claim"}, persist \in BOOLEAN,
                   receiptParent \in {Predecessor, ZeroHash} :
                  proc' = [pc |-> "commit_sent", cmd |-> cmd, salt |-> salt, persist |-> persist,
                           receiptParent |-> receiptParent, nonce |-> NewNonce]
                  /\ publicAt' \in {publicAt, block.number}
    BY <1>6, CommitOutcome DEF Sent, Refused
  <2>2. ProcShape(proc')
    BY <1>3, <2>1, Constants DEF SendingProc, AnyHash
  <2> QED
    BY <1>0, <2>1, <2>2 DEF Shapes, CompleteReceipt, vars
<1>7. CASE SendReveal
  <2>1. /\ UNCHANGED <<vars, disk, usedSalts>>
        /\ publicAt' \in {publicAt, block.number}
        /\ proc' = Idle \/ proc' = [pc |-> "reveal_sent", nonce |-> NewNonce]
    BY <1>7, RevealOutcome DEF Sent, Refused
  <2> QED
    BY <1>0, <1>3, <2>1 DEF Shapes, CompleteReceipt, RevealProc, vars
<1>8. CASE vhReveal
  <2>1. PICK noWait \in BOOLEAN : /\ proc' = Waiting(disk.commitBlock, disk.salt, disk.parent, noWait)
                                  /\ UNCHANGED <<vars, disk, usedSalts, publicAt>> /\ CompleteReceipt
    BY <1>8, ClaimAssumption DEF vhReveal
  <2>2. disk \in Receipt
    BY <2>1 DEF Shapes
  <2> QED
    BY <1>0, <2>1, <2>2 DEF Shapes, CompleteReceipt, Waiting, WaitingProc, Receipt, vars
<1>9. CASE CommitMined
  <2>1. /\ proc \in SendingProc /\ proc.nonce <= Len(results)
        /\ UNCHANGED <<vars, usedSalts, publicAt>>
    BY <1>9, Kinds DEF CommitMined
  <2>2. Mined(proc.nonce) /\ proc.nonce \in Nat
    BY <2>1 DEF CommitSent, Mined, Waits, SendingProc, Shapes
  <2>3. disk' = disk \/ disk' = Partial
    BY <1>9 DEF CommitMined
  <2>4. ProcShape(proc')
    <3>1. \/ proc' = Idle
          \/ proc' = [proc EXCEPT !.pc = "writing"]
          \/ proc' = Waiting(results[proc.nonce].block, proc.salt, Predecessor, FALSE)
      BY <1>9 DEF CommitMined
    <3>2. [proc EXCEPT !.pc = "writing"] \in SendingProc
      BY <2>1 DEF SendingProc
    <3>3. results[proc.nonce].block \in Nat
      BY <1>2, <2>2
    <3>4. Waiting(results[proc.nonce].block, proc.salt, Predecessor, FALSE) \in WaitingProc
      BY <2>1, <3>3, Constants DEF SendingProc, WaitingProc, Waiting
    <3> QED
      BY <3>1, <3>2, <3>4
  <2> QED
    BY <1>0, <2>1, <2>3, <2>4 DEF Shapes, CompleteReceipt, vars
<1>10. CASE ReceiptWritten
  <2>1. proc \in SendingProc /\ proc.pc = "writing" /\ UNCHANGED <<vars, usedSalts, publicAt>>
    BY <1>10, Kinds DEF ReceiptWritten
  <2>2. Mined(proc.nonce) /\ proc.nonce \in Nat
    BY <2>1 DEF CommitSent, SendingProc
  <2>3. disk' \in Receipt
    BY <1>2, <1>10, <2>1, <2>2 DEF ReceiptWritten, Receipt, SendingProc
  <2>4. ProcShape(proc')
    <3>1. \/ proc' = Idle
          \/ proc' = Waiting(results[proc.nonce].block, proc.salt, Predecessor, FALSE)
      BY <1>10 DEF ReceiptWritten
    <3>2. results[proc.nonce].block \in Nat
      BY <1>2, <2>2
    <3>3. Waiting(results[proc.nonce].block, proc.salt, Predecessor, FALSE) \in WaitingProc
      BY <2>1, <3>2, Constants DEF SendingProc, WaitingProc, Waiting
    <3> QED
      BY <3>1, <3>3
  <2> QED
    BY <1>0, <2>1, <2>3, <2>4 DEF Shapes, vars
<1>11. CASE RevealMined \/ Crash
  <2>1. proc' = Idle /\ UNCHANGED <<vars, disk, usedSalts, publicAt>>
    BY <1>11 DEF RevealMined, Crash
  <2> QED
    BY <1>0, <2>1 DEF Shapes, CompleteReceipt, vars
<1>12. CASE MineNext \/ ChainAdvances \/ AnchorPredecessor \/ OthersCommit \/ OthersClaim
  BY <1>5, <1>12 DEF MineNext, ChainAdvances, AnchorPredecessor, OthersCommit, OthersClaim, claimVars
<1>13. CASE UNCHANGED cliVars
  BY <1>5, <1>13 DEF cliVars, claimVars
<1> HIDE DEF ProcShape
<1> QED
  BY <1>6, <1>7, <1>8, <1>9, <1>10, <1>11, <1>12, <1>13 DEF CliNext, Process

-----------------------------------------------------------------------------
\* A reveal empties at most its own commitment, and then its content is anchored.
LEMMA RevealConsumes ==
  ASSUME TypeOK, NEW a \in Addr, NEW h \in AnyHash, NEW s \in Salt, NEW p \in AnyHash,
         revealWithParent(a, h, s, p), NEW c \in CommitmentHash
  PROVE  \/ commitments'[c] = commitments[c]
         \/ c[1] = h /\ commitments'[c].committer = ZeroAddress /\ isAnchored(h)'
<1>1. commitments' = [commitments EXCEPT ![commitmentOf(h, a, s)] = EmptyCommitment]
  BY DEF revealWithParent
<1>2. CASE c = commitmentOf(h, a, s)
  <2>1. c[1] = h
    BY <1>2 DEF commitmentOf
  <2>2. commitments'[c].committer = ZeroAddress
    BY <1>1, <1>2 DEF TypeOK, EmptyCommitment
  <2>3. h \in ContentHash /\ WriteRecord(h, a, TRUE, p)
    BY DEF revealWithParent, AnyHash
  <2>4. Written(h, a, TRUE, p)
    BY <2>3, WriteFacts
  <2>5. isAnchored(h)'
    BY <2>4, ZeroAssumption DEF Written, isAnchored
  <2> QED
    BY <2>1, <2>2, <2>5
<1>3. CASE c # commitmentOf(h, a, s)
  BY <1>1, <1>3 DEF TypeOK
<1> QED
  BY <1>2, <1>3

\* While no commit of a salt is under way, nobody registers it: its commitment stays, or its
\* reveal anchors the digest.
LEMMA CommitmentKept ==
  ASSUME TypeOK, Shapes, [CliNext]_cliVars, NEW salt \in Salt, ~Pending(salt)
  PROVE  LET c == UserCommitment(salt)
         IN  \/ commitments'[c] = commitments[c]
             \/ commitments'[c].committer = ZeroAddress /\ isAnchored(Digest)'
<1> DEFINE c == UserCommitment(salt)
<1>1. c \in CommitmentHash /\ c[1] = Digest
  BY Constants DEF UserCommitment, commitmentOf, CommitmentHash
<1>2. ASSUME NEW a \in Addr, NEW d, commit(a, d), d # c PROVE commitments'[c] = commitments[c]
  BY <1>1, <1>2 DEF commit, TypeOK
<1>3. \A i \in DOMAIN mempool : mempool[i] \in Tx
  BY DEF Shapes
<1>4. \A s \in Salt : UserCommitment(s) = c => s = salt
  BY DEF UserCommitment, commitmentOf
<1>5. \A s \in Salt : commitmentOf(Digest, Other, s) # c
  BY Constants DEF UserCommitment, commitmentOf
<1>6. CASE MineNext
  <2> DEFINE tx == Head(mempool)
  <2>1. tx \in Tx /\ 1 \in DOMAIN mempool /\ tx = mempool[1]
    BY <1>6 DEF Shapes, MineNext
  <2>2. tx.salt \in Salt /\ tx.parent \in AnyHash
    BY <2>1 DEF Tx
  <2>3. \/ UNCHANGED vars
        \/ tx.fn = "commit" /\ commit(User, UserCommitment(tx.salt))
        \/ revealWithParent(User, Digest, tx.salt, tx.parent)
    BY <1>6 DEF MineNext
  <2>4. ASSUME tx.fn = "commit", commit(User, UserCommitment(tx.salt))
        PROVE  commitments'[c] = commitments[c]
    <3>1. tx.salt # salt
      BY <2>1, <2>4 DEF Pending
    <3>2. UserCommitment(tx.salt) # c
      BY <1>4, <2>2, <3>1
    <3> QED
      BY <1>2, <2>4, <3>2, Constants
  <2>5. ASSUME revealWithParent(User, Digest, tx.salt, tx.parent)
        PROVE  \/ commitments'[c] = commitments[c]
               \/ commitments'[c].committer = ZeroAddress /\ isAnchored(Digest)'
    BY <1>1, <2>2, <2>5, RevealConsumes, Constants
  <2> QED
    BY <2>3, <2>4, <2>5 DEF vars
<1>7. CASE OthersCommit
  <2>1. CASE \E i \in DOMAIN mempool :
               mempool[i].fn = "commit" /\ commit(Other, UserCommitment(mempool[i].salt))
    <3>1. PICK i \in DOMAIN mempool :
            mempool[i].fn = "commit" /\ commit(Other, UserCommitment(mempool[i].salt))
      BY <2>1
    <3>2. mempool[i].salt # salt /\ mempool[i].salt \in Salt
      BY <1>3, <3>1 DEF Pending, Tx
    <3> QED
      BY <1>2, <1>4, <3>1, <3>2, Constants
  <2>2. CASE \E s \in Salt : commit(Other, commitmentOf(Digest, Other, s))
    BY <1>2, <1>5, <2>2, Constants
  <2> QED
    BY <1>7, <2>1, <2>2 DEF OthersCommit
<1>8. CASE OthersClaim
  <2>1. CASE anchor(Other, Digest)
    BY <2>1 DEF anchor, anchorWithParent
  <2>2. ASSUME NEW s \in Salt, reveal(Other, Digest, s)
        PROVE  \/ commitments'[c] = commitments[c]
               \/ commitments'[c].committer = ZeroAddress /\ isAnchored(Digest)'
    <3>1. ZeroHash \in AnyHash
      BY DEF AnyHash
    <3> QED
      BY <1>1, <2>2, <3>1, RevealConsumes, Constants DEF reveal
  <2> QED
    BY <1>8, <2>1, <2>2 DEF OthersClaim
<1>9. CASE ChainAdvances \/ AnchorPredecessor
  BY <1>9 DEF ChainAdvances, NewBlock, AnchorPredecessor, anchor, anchorWithParent
<1>10. CASE vhCommit \/ vhClaim \/ vhReveal \/ Process \/ Crash \/ UNCHANGED cliVars
  BY <1>10 DEF vhCommit, vhClaim, SendCommit, vhReveal, Process, CommitMined, ReceiptWritten,
               SendReveal, RevealMined, Crash, vars, cliVars
<1> QED
  BY <1>6, <1>7, <1>8, <1>9, <1>10 DEF CliNext

LEMMA PendingKept ==
  ASSUME Shapes, [CliNext]_cliVars, NEW salt \in usedSalts, ~Pending(salt)
  PROVE  ~Pending(salt)' /\ salt \in usedSalts'
<1>1. mempool \in Seq(Tx)
  BY DEF Shapes
<1>2. CASE Broadcast
  <2>1. PICK tx \in Tx : /\ mempool' = Append(mempool, tx) /\ usedSalts \subseteq usedSalts'
                         /\ tx.fn = "commit" => tx.salt \notin usedSalts
    BY <1>2 DEF Broadcast
  <2>2. \A i \in DOMAIN mempool' : \/ i \in DOMAIN mempool /\ mempool'[i] = mempool[i]
                                   \/ mempool'[i] = tx
    BY <1>1, <2>1
  <2> QED
    BY <2>1, <2>2 DEF Pending
<1>3. CASE Included
  <2>1. \A i \in DOMAIN mempool' : i + 1 \in DOMAIN mempool /\ mempool'[i] = mempool[i + 1]
    BY <1>1, <1>3 DEF Included
  <2> QED
    BY <1>3, <2>1 DEF Pending, Included
<1>4. CASE usedSalts \subseteq usedSalts' /\ UNCHANGED <<mempool, results>>
  BY <1>4 DEF Pending
<1> QED
  BY <1>2, <1>3, <1>4, MempoolStep

\* What holds of a salt whose commit is over goes on to hold.
LEMMA LiveKept ==
  ASSUME TypeOK, Shapes, [CliNext]_cliVars, NEW salt, Live(salt)
  PROVE  /\ Live(salt)'
         /\ \A mined : Settled(salt, mined) => Settled(salt, mined)'
         /\ Ripe(salt) => Ripe(salt)'
<1> DEFINE c == UserCommitment(salt)
<1>1. salt \in Salt /\ salt \in usedSalts /\ ~Pending(salt)
  BY DEF Live, Shapes
<1>2. ~Pending(salt)' /\ salt \in usedSalts'
  BY <1>1, PendingKept
<1>3. \/ commitments'[c] = commitments[c]
      \/ commitments'[c].committer = ZeroAddress /\ isAnchored(Digest)'
  BY <1>1, CommitmentKept
<1>4. /\ isAnchored(Digest) => isAnchored(Digest)'
      /\ block.number \in Nat /\ block'.number \in Nat /\ block'.number >= block.number
  BY StepOfRegistry, ChainKept, Constants
<1>5. c \in CommitmentHash
  BY <1>1, Constants DEF UserCommitment, commitmentOf, CommitmentHash
<1>6. commitments[c].blockNumber \in Nat
  BY <1>5 DEF TypeOK, Commitment
<1>7. CASE commitments'[c] = commitments[c]
  <2>1. Live(salt)'
    BY <1>2, <1>4, <1>7 DEF Live
  <2> QED
    BY <1>4, <1>6, <1>7, <2>1 DEF Settled, Ripe, MIN_REVEAL_DELAY
<1>8. CASE commitments'[c].committer = ZeroAddress /\ isAnchored(Digest)'
  <2>1. Live(salt)'
    BY <1>2, <1>8 DEF Live
  <2> QED
    BY <1>8, <2>1, Constants DEF Settled, Ripe
<1> QED
  BY <1>3, <1>7, <1>8

LEMMA ExplainedKept ==
  ASSUME TypeOK, Shapes, [CliNext]_cliVars, NEW error, Explained(error)
  PROVE  Explained(error)'
<1>1. isAnchored(Digest) => isAnchored(Digest)'
  BY StepOfRegistry, ChainKept, Constants
<1> QED
  BY <1>1 DEF Explained

\* Every commit that waits has a salt of its own.
LEMMA FreshSaltsStep ==
  ASSUME Shapes, FreshSalts, [CliNext]_cliVars
  PROVE  FreshSalts'
<1>1. mempool \in Seq(Tx)
  BY DEF Shapes
<1>2. CASE Broadcast
  <2>1. PICK tx \in Tx : /\ mempool' = Append(mempool, tx) /\ usedSalts \subseteq usedSalts'
                         /\ tx.fn = "commit" => tx.salt \notin usedSalts /\ tx.salt \in usedSalts'
    BY <1>2 DEF Broadcast
  <2>2. \A i \in DOMAIN mempool' : \/ i \in DOMAIN mempool /\ mempool'[i] = mempool[i]
                                   \/ i = Len(mempool) + 1 /\ mempool'[i] = tx
    BY <1>1, <2>1
  <2> QED
    BY <2>1, <2>2 DEF FreshSalts
<1>3. CASE Included
  <2>1. \A i \in DOMAIN mempool' : /\ i \in Nat /\ i + 1 \in DOMAIN mempool
                                   /\ mempool'[i] = mempool[i + 1]
    BY <1>1, <1>3 DEF Included
  <2>2. usedSalts' = usedSalts
    BY <1>3 DEF Included
  <2>3. ASSUME NEW i \in DOMAIN mempool', NEW j \in DOMAIN mempool',
               mempool'[i].fn = "commit", mempool'[j].fn = "commit", mempool'[i].salt = mempool'[j].salt
        PROVE  i = j
    <3>1. i + 1 = j + 1
      BY <2>1, <2>3 DEF FreshSalts
    <3> QED
      BY <2>1, <3>1
  <2> QED
    BY <2>1, <2>2, <2>3 DEF FreshSalts
<1>4. CASE usedSalts \subseteq usedSalts' /\ UNCHANGED <<mempool, results>>
  BY <1>4 DEF FreshSalts
<1> QED
  BY <1>2, <1>3, <1>4, MempoolStep

-----------------------------------------------------------------------------
\* The result of the transaction that is mined.
Outcome == [error |-> TxError(block.number, Head(mempool)), block |-> block.number]

\* A transaction that was waited for is mined with its result or moves up; a result stays.
LEMMA NonceStep ==
  ASSUME Shapes, [CliNext]_cliVars, NEW nonce \in Nat
  PROVE  /\ Mined(nonce) => Mined(nonce)' /\ results'[nonce] = results[nonce]
         /\ Waits(nonce) => \/ Waits(nonce)' /\ ~Mined(nonce)' /\ TxOf(nonce)' = TxOf(nonce)
                            \/ /\ MineNext /\ Mined(nonce)' /\ ~Waits(nonce)'
                               /\ TxOf(nonce) = Head(mempool) /\ results'[nonce] = Outcome
         /\ Mined(nonce) => ~Waits(nonce) /\ ~Waits(nonce)'
<1>1. mempool \in Seq(Tx) /\ results \in Seq([error : {None} \cup Errors, block : Nat])
  BY DEF Shapes
<1>2. CASE Broadcast
  <2>1. PICK tx \in Tx : mempool' = Append(mempool, tx) /\ results' = results
    BY <1>2 DEF Broadcast
  <2>2. /\ Len(mempool') = Len(mempool) + 1
        /\ \A i \in 1 .. Len(mempool) : mempool'[i] = mempool[i]
        /\ Len(mempool) \in Nat /\ Len(results) \in Nat /\ Len(results') = Len(results)
    BY <1>1, <2>1
  <2> QED
    BY <2>1, <2>2 DEF Mined, Waits, TxOf
<1>3. CASE Included
  <2> DEFINE R == [error : {None} \cup Errors, block : Nat]
  <2>1. /\ mempool # <<>> /\ mempool' = Tail(mempool) /\ results' = Append(results, Outcome)
    BY <1>3 DEF Included, Outcome
  <2>2. /\ Len(mempool) \in Nat /\ Len(mempool) > 0 /\ Len(mempool') = Len(mempool) - 1
        /\ \A i \in 1 .. Len(mempool) - 1 : mempool'[i] = mempool[i + 1]
        /\ Head(mempool) = mempool[1]
    BY <1>1, <2>1
  <2>3. /\ Len(results) \in Nat /\ Len(results') = Len(results) + 1
        /\ results'[Len(results) + 1] = Outcome
        /\ \A i \in 1 .. Len(results) : results'[i] = results[i]
    <3> HIDE DEF Outcome
    <3> QED
      BY <1>1, <2>1
  <2>4. Mined(nonce) => Mined(nonce)' /\ results'[nonce] = results[nonce] /\ ~Waits(nonce) /\ ~Waits(nonce)'
    BY <2>2, <2>3 DEF Mined, Waits
  <2>5. ASSUME Waits(nonce), nonce = Len(results) + 1
        PROVE  /\ Mined(nonce)' /\ ~Waits(nonce)'
               /\ TxOf(nonce) = Head(mempool) /\ results'[nonce] = Outcome
    <3>1. nonce - Len(results) = 1 /\ nonce - Len(results') = 0
      BY <2>3, <2>5
    <3> QED
      BY <2>2, <2>3, <2>5, <3>1 DEF Mined, Waits, TxOf
  <2>6. ASSUME Waits(nonce), nonce # Len(results) + 1
        PROVE  Waits(nonce)' /\ ~Mined(nonce)' /\ TxOf(nonce)' = TxOf(nonce)
    <3>1. nonce - Len(results') = (nonce - Len(results)) - 1
      BY <2>3
    <3>2. nonce - Len(results') \in 1 .. Len(mempool) - 1
      BY <2>2, <2>3, <2>6, <3>1 DEF Waits
    <3>3. mempool'[nonce - Len(results')] = mempool[nonce - Len(results)]
      BY <2>2, <2>3, <3>1, <3>2
    <3> QED
      BY <2>2, <2>3, <3>2, <3>3 DEF Mined, Waits, TxOf
  <2>7. MineNext
    BY <1>3 DEF Included
  <2> QED
    BY <2>4, <2>5, <2>6, <2>7
<1>4. CASE usedSalts \subseteq usedSalts' /\ UNCHANGED <<mempool, results>>
  BY <1>1, <1>4 DEF Mined, Waits, TxOf
<1> QED
  BY <1>2, <1>3, <1>4, MempoolStep

\* A commit that is mined either fails or registers the salt's commitment in this very block.
LEMMA CommitIncluded ==
  ASSUME TypeOK, Shapes, FreshSalts, MineNext, NEW salt \in Salt, Head(mempool) = CommitTx(salt)
  PROVE  /\ Outcome.error \in {None, "CommitmentExists"}
         /\ Outcome.error = None => \A mined : mined = Outcome.block => Settled(salt, mined)'
<1> DEFINE c == UserCommitment(salt)
           tx == Head(mempool)
<1>1. /\ mempool # <<>> /\ mempool \in Seq(Tx) /\ mempool' = Tail(mempool)
      /\ tx = mempool[1] /\ tx.fn = "commit" /\ tx.salt = salt /\ 1 \in DOMAIN mempool
  BY CallTypes DEF MineNext, Shapes
<1>2. Outcome.error = CommitError(salt) /\ Outcome.block = block.number
  BY <1>1 DEF Outcome, TxError
<1>3. CommitError(salt) \in {None, "CommitmentExists"}
  BY DEF CommitError
<1>4. ASSUME CommitError(salt) = None, NEW mined, mined = block.number PROVE Settled(salt, mined)'
  <2>1. commit(User, c)
    BY <1>1, <1>2, <1>4 DEF MineNext, Outcome
  <2>2. c \in CommitmentHash
    BY Constants DEF UserCommitment, commitmentOf, CommitmentHash
  <2>3. commitments'[c] = [committer |-> User, blockNumber |-> block.number]
    BY <2>1, <2>2 DEF commit, TypeOK
  <2>4. ~Pending(salt)'
    <3>1. \A i \in DOMAIN mempool' : i \in Nat /\ i # 0 /\ i + 1 \in DOMAIN mempool /\ mempool'[i] = mempool[i + 1]
      BY <1>1
    <3>2. \A j \in DOMAIN mempool : mempool[j].fn = "commit" /\ mempool[j].salt = salt => j = 1
      BY <1>1 DEF FreshSalts
    <3>3. \A i \in DOMAIN mempool' : i + 1 # 1
      BY <3>1
    <3> QED
      BY <3>1, <3>2, <3>3 DEF Pending
  <2>5. salt \in usedSalts'
    BY <1>1 DEF FreshSalts, MineNext
  <2> QED
    BY <1>4, <2>3, <2>4, <2>5, Constants DEF Live, Settled
<1> QED
  BY <1>2, <1>3, <1>4

\* A reveal of a salt whose commit is over fails for a reason there is: the digest is anchored, or
\* the reveal was sent early on purpose.
LEMMA RevealExplained ==
  ASSUME NEW salt, Live(salt), NEW parent, NEW number \in Int, TypeOK, salt \in Salt,
         EarlyAllowed \/ (commitments[UserCommitment(salt)].committer = User
              => number > commitments[UserCommitment(salt)].blockNumber + MIN_REVEAL_DELAY)
  PROVE  Explained(RevealError(number, salt, parent))
<1> DEFINE c == commitments[UserCommitment(salt)]
<1>1. c.committer \in {User, ZeroAddress} /\ (c.committer = ZeroAddress => isAnchored(Digest))
  BY DEF Live
<1>2. c.blockNumber \in Nat
  <2>1. UserCommitment(salt) \in CommitmentHash
    BY Constants DEF UserCommitment, commitmentOf, CommitmentHash
  <2> QED
    BY <2>1 DEF TypeOK, Commitment
<1>3. None \notin Errors
  BY ClaimAssumption
<1>4. CASE c.committer = ZeroAddress
  BY <1>1, <1>4 DEF RevealError, Explained
<1>5. CASE c.committer # ZeroAddress
  <2>1. number <= c.blockNumber + MIN_REVEAL_DELAY => EarlyAllowed
    BY <1>1, <1>2, <1>5 DEF MIN_REVEAL_DELAY
  <2> QED
    BY <1>3, <1>5, <2>1 DEF RevealError, Explained, Errors
<1> QED
  BY <1>4, <1>5

\* The processes are kept while they run: their salts stay usable, their results are explained.
LEMMA ProcKept ==
  ASSUME CliInv, [CliNext]_cliVars, proc' = proc
  PROVE  CommitSent' /\ RevealWaits' /\ RevealSent'
<1>1. TypeOK /\ Shapes /\ FreshSalts /\ CommitSent /\ RevealWaits /\ RevealSent
  BY DEF CliInv, ReceiptInv
<1>2. \A e : Explained(e) => Explained(e)'
  BY <1>1, ExplainedKept
<1>3. \A s : Live(s) => /\ Live(s)' /\ (Ripe(s) => Ripe(s)')
                        /\ \A mined : Settled(s, mined) => Settled(s, mined)'
  BY <1>1, LiveKept
<1>4. ASSUME proc \in SendingProc PROVE CommitSent'
  <2>1. PICK n \in Nat, s \in Salt : n = proc.nonce /\ s = proc.salt
    BY <1>4 DEF SendingProc
  <2>2. CASE Mined(n)
    <3>1. Mined(n)' /\ results'[n] = results[n] /\ ~Waits(n)'
      BY <1>1, <2>2, NonceStep
    <3>2. PICK e, mined : e = results[n].error /\ mined = results[n].block
      OBVIOUS
    <3>3. Explained(e) /\ (e = None => Settled(s, mined)) /\ (proc.pc = "writing" => e = None)
      BY <1>1, <1>4, <2>1, <2>2, <3>2 DEF CommitSent
    <3>4. Explained(e)' /\ (e = None => Settled(s, mined)')
      BY <1>2, <1>3, <3>3 DEF Settled
    <3> QED
      BY <2>1, <3>1, <3>2, <3>3, <3>4 DEF CommitSent
  <2>3. CASE ~Mined(n)
    <3>1. Waits(n) /\ TxOf(n) = CommitTx(s) /\ proc.pc # "writing"
      BY <1>1, <1>4, <2>1, <2>3 DEF CommitSent
    <3>2. CASE Waits(n)' /\ ~Mined(n)' /\ TxOf(n)' = TxOf(n)
      BY <2>1, <3>1, <3>2 DEF CommitSent, CommitTx
    <3>3. CASE /\ MineNext /\ Mined(n)' /\ ~Waits(n)'
               /\ TxOf(n) = Head(mempool) /\ results'[n] = Outcome
      <4>1. PICK e, mined : e = Outcome.error /\ mined = Outcome.block
        OBVIOUS
      <4>2. e \in {None, "CommitmentExists"} /\ (e = None => Settled(s, mined)')
        BY <1>1, <3>1, <3>3, <4>1, CommitIncluded
      <4>3. Explained(e)'
        BY <4>2, ClaimAssumption DEF Explained, Errors
      <4> HIDE DEF Outcome
      <4> QED
        BY <2>1, <3>1, <3>3, <4>1, <4>2, <4>3 DEF CommitSent
    <3> QED
      BY <1>1, <3>1, <3>2, <3>3, NonceStep
  <2> QED
    BY <2>2, <2>3
<1>5. ASSUME proc \in RevealProc PROVE RevealSent'
  <2>1. PICK n \in Nat : n = proc.nonce
    BY <1>5 DEF RevealProc
  <2>2. CASE Mined(n)
    <3>1. Mined(n)' /\ results'[n] = results[n] /\ ~Waits(n)'
      BY <1>1, <2>2, NonceStep
    <3>2. PICK e \in {results[n].error} : e = results[n].error
      OBVIOUS
    <3>3. Explained(e)
      BY <1>1, <1>5, <2>1, <2>2, <3>2 DEF RevealSent
    <3>4. Explained(e)'
      BY <1>2, <3>3
    <3> QED
      BY <2>1, <3>1, <3>2, <3>4 DEF RevealSent
  <2>3. CASE ~Mined(n)
    <3>1. PICK s, p, tx : tx = TxOf(n) /\ s = tx.salt /\ p = tx.parent
      OBVIOUS
    <3>2. Waits(n) /\ tx.fn = "reveal" /\ Live(s) /\ (EarlyAllowed \/ Ripe(s))
      BY <1>1, <1>5, <2>1, <2>3, <3>1 DEF RevealSent
    <3>3. CASE Waits(n)' /\ ~Mined(n)' /\ TxOf(n)' = TxOf(n)
      <4>1. Live(s)' /\ (EarlyAllowed \/ Ripe(s)')
        BY <1>3, <3>2
      <4> QED
        BY <2>1, <3>1, <3>2, <3>3, <4>1 DEF RevealSent
    <3>4. CASE /\ MineNext /\ Mined(n)' /\ ~Waits(n)'
               /\ TxOf(n) = Head(mempool) /\ results'[n] = Outcome
      <4>1. PICK e \in {Outcome.error} : e = Outcome.error
        OBVIOUS
      <4>2. e = RevealError(block.number, s, p)
        BY <3>1, <3>2, <3>4, <4>1 DEF Outcome, TxError
      <4>3. Explained(e)
        <5>1. s \in Salt /\ block.number \in Nat
          BY <1>1, <3>2 DEF Live, Shapes, TypeOK
        <5> QED
          BY <1>1, <3>2, <4>2, <5>1, RevealExplained DEF Ripe
      <4>4. Explained(e)'
        BY <1>2, <4>3
      <4> HIDE DEF Outcome
      <4> QED
        BY <2>1, <3>4, <4>1, <4>4 DEF RevealSent
    <3> QED
      BY <1>1, <3>2, <3>3, <3>4, NonceStep
  <2> QED
    BY <2>2, <2>3
<1>6. ASSUME proc \in WaitingProc PROVE RevealWaits'
  <2>1. PICK s, mined : s = proc.salt /\ mined = proc.commitBlock
    OBVIOUS
  <2>2. Settled(s, mined) /\ (proc.noWait => EarlyAllowed)
    BY <1>1, <1>6, <2>1 DEF RevealWaits
  <2>3. Settled(s, mined)'
    BY <1>3, <2>2 DEF Settled
  <2> QED
    BY <2>1, <2>2, <2>3 DEF RevealWaits
<1>7. /\ proc \notin SendingProc => CommitSent'
      /\ proc \notin WaitingProc => RevealWaits'
      /\ proc \notin RevealProc => RevealSent'
  BY DEF CommitSent, RevealWaits, RevealSent
<1> QED
  BY <1>4, <1>5, <1>6, <1>7

\* A process that ends satisfies whatever is asked of the running ones.
LEMMA IdleFits == proc' = Idle => CommitSent' /\ RevealWaits' /\ RevealSent'
BY KindsDiffer DEF CommitSent, RevealWaits, RevealSent

LEMMA DiskKept ==
  ASSUME CliInv, [CliNext]_cliVars, disk' = disk
  PROVE  ReceiptSettled'
<1>1. PICK s, mined : CompleteReceipt => s = disk.salt /\ mined = disk.commitBlock
  OBVIOUS
<1>2. CompleteReceipt => Settled(s, mined) /\ Live(s)
  BY <1>1 DEF CliInv, ReceiptInv, ReceiptSettled, Settled
<1>3. CompleteReceipt => Settled(s, mined)'
  BY <1>2, LiveKept DEF CliInv
<1> QED
  BY <1>1, <1>3 DEF ReceiptSettled, CompleteReceipt

LEMMA FailureKept ==
  ASSUME CliInv, [CliNext]_cliVars, failure' = failure
  PROVE  Explained(failure)'
<1>1. PICK e \in {failure} : e = failure
  OBVIOUS
<1>2. Explained(e)
  BY <1>1 DEF CliInv, ReceiptInv
<1>3. Explained(e)'
  BY <1>2, ExplainedKept DEF CliInv
<1> QED
  BY <1>1, <1>3

\* The last transaction of the mempool is waited for under the nonce it was given.
LEMMA LastNonce ==
  ASSUME Shapes, NEW tx \in Tx, mempool' = Append(mempool, tx), results' = results
  PROVE  /\ NewNonce \in Nat
         /\ \A n : n = NewNonce => Waits(n)' /\ ~Mined(n)' /\ TxOf(n)' = tx
<1>1. /\ mempool \in Seq(Tx) /\ Len(mempool) \in Nat /\ Len(results) \in Nat
      /\ Len(mempool') = Len(mempool) + 1 /\ mempool'[Len(mempool) + 1] = tx
  BY DEF Shapes
<1>2. NewNonce - Len(results') = Len(mempool) + 1
  BY <1>1 DEF NewNonce
<1> QED
  BY <1>1, <1>2 DEF NewNonce, Waits, Mined, TxOf

LEMMA CommitStep ==
  ASSUME CliInv, vhCommit \/ vhClaim
  PROVE  CommitSent' /\ RevealWaits' /\ RevealSent' /\ ReceiptSettled' /\ Explained(failure)'
<1>1. Shapes /\ [CliNext]_cliVars
  BY DEF CliInv, CliNext
<1>2. PICK salt \in Salt \ usedSalts :
        /\ UNCHANGED <<disk, results>>
        /\ \/ \E cmd \in {"commit", "claim"}, persist \in BOOLEAN,
                 receiptParent \in {Predecessor, ZeroHash} :
                 Sent(CommitTx(salt),
                      [pc |-> "commit_sent", cmd |-> cmd, salt |-> salt, persist |-> persist,
                       receiptParent |-> receiptParent, nonce |-> NewNonce])
           \/ Refused(CommitTx(salt))
  BY <1>1, CommitOutcome
<1>3. ReceiptSettled'
  BY <1>1, <1>2, DiskKept
<1>4. CASE Refused(CommitTx(salt))
  <2>1. proc' = Idle /\ failure' \in Errors
        /\ \E number \in {getBlockNumber, block.number} : failure' = TxError(number, CommitTx(salt))
    BY <1>4 DEF Refused
  <2>2. failure' \in {None, "CommitmentExists"}
    BY <2>1, CallTypes DEF TxError, CommitError
  <2>3. Explained(failure)'
    BY <2>2, ClaimAssumption DEF Explained, Errors
  <2> QED
    BY <1>3, <2>1, <2>3, IdleFits
<1>5. ASSUME NEW cmd \in {"commit", "claim"}, NEW persist \in BOOLEAN,
             NEW receiptParent \in {Predecessor, ZeroHash},
             Sent(CommitTx(salt),
                  [pc |-> "commit_sent", cmd |-> cmd, salt |-> salt, persist |-> persist,
                   receiptParent |-> receiptParent, nonce |-> NewNonce])
      PROVE  CommitSent' /\ RevealWaits' /\ RevealSent' /\ Explained(failure)'
  <2>1. /\ mempool' = Append(mempool, CommitTx(salt)) /\ failure' = failure
        /\ proc' = [pc |-> "commit_sent", cmd |-> cmd, salt |-> salt, persist |-> persist,
                    receiptParent |-> receiptParent, nonce |-> NewNonce]
    BY <1>5 DEF Sent
  <2>2. PICK n \in Nat : n = NewNonce /\ Waits(n)' /\ ~Mined(n)' /\ TxOf(n)' = CommitTx(salt)
    BY <1>1, <1>2, <2>1, LastNonce, CallTypes
  <2>3. proc' \in SendingProc
    BY <2>1, <2>2, Constants DEF SendingProc, AnyHash
  <2>4. proc' \notin WaitingProc /\ proc' \notin RevealProc
    BY <2>3, KindsDiffer
  <2>5. CommitSent'
    BY <2>1, <2>2 DEF CommitSent, CommitTx
  <2>6. Explained(failure)'
    BY <1>1, <2>1, FailureKept
  <2> QED
    BY <2>4, <2>5, <2>6 DEF RevealWaits, RevealSent
<1> QED
  BY <1>2, <1>3, <1>4, <1>5

LEMMA RevealStep ==
  ASSUME CliInv, SendReveal
  PROVE  CommitSent' /\ RevealWaits' /\ RevealSent' /\ ReceiptSettled' /\ Explained(failure)'
<1>1. Shapes /\ TypeOK /\ [CliNext]_cliVars
  BY DEF CliInv, CliNext, Process
<1>2. /\ proc \in WaitingProc /\ UNCHANGED <<vars, disk, results, usedSalts, crashes>>
      /\ proc.noWait \/ WindowOver(proc.commitBlock)
      /\ \/ Sent(RevealTx(proc.salt, proc.parent), [pc |-> "reveal_sent", nonce |-> NewNonce])
         \/ Refused(RevealTx(proc.salt, proc.parent))
  BY <1>1, RevealOutcome
<1>3. ReceiptSettled'
  BY <1>1, <1>2, DiskKept
<1>4. PICK s \in Salt, p \in AnyHash, mined \in Nat :
        s = proc.salt /\ p = proc.parent /\ mined = proc.commitBlock
  BY <1>2 DEF WaitingProc
<1>5. Settled(s, mined) /\ Live(s) /\ (EarlyAllowed \/ WindowOver(mined))
  BY <1>2, <1>4 DEF CliInv, ReceiptInv, RevealWaits, Settled
<1>6. block.number \in Nat
  BY <1>1 DEF TypeOK
<1>7. CASE Refused(RevealTx(s, p))
  <2>1. /\ proc' = Idle
        /\ \E number \in {block.number - 1, block.number} : failure' = RevealError(number, s, p)
    BY <1>7, CallTypes DEF Refused, TxError, getBlockNumber
  <2>2. ASSUME NEW number \in {block.number - 1, block.number}
        PROVE  Explained(RevealError(number, s, p))
    <3>1. commitments[UserCommitment(s)].committer = User
            => commitments[UserCommitment(s)].blockNumber = mined
      BY <1>5 DEF Settled
    <3>2. WindowOver(mined) => number > mined + MIN_REVEAL_DELAY
      BY <1>6 DEF WindowOver, getBlockNumber, MIN_REVEAL_DELAY
    <3>3. number \in Int
      BY <1>6
    <3> QED
      BY <1>1, <1>5, <3>1, <3>2, <3>3, RevealExplained
  <2>3. PICK e \in {failure'} : e = failure' /\ Explained(e)
    BY <2>1, <2>2
  <2>4. Explained(e)'
    BY <1>1, <2>3, ExplainedKept
  <2>5. Explained(failure)'
    BY <2>3, <2>4 DEF Explained
  <2> QED
    BY <1>3, <2>1, <2>5, IdleFits
<1>8. CASE Sent(RevealTx(s, p), [pc |-> "reveal_sent", nonce |-> NewNonce])
  <2>1. /\ mempool' = Append(mempool, RevealTx(s, p)) /\ failure' = failure
        /\ proc' = [pc |-> "reveal_sent", nonce |-> NewNonce]
    BY <1>8 DEF Sent
  <2>2. PICK n \in Nat : n = NewNonce /\ Waits(n)' /\ ~Mined(n)' /\ TxOf(n)' = RevealTx(s, p)
    BY <1>1, <1>2, <2>1, LastNonce, CallTypes
  <2>3. proc' \in RevealProc
    BY <2>1, <2>2 DEF RevealProc
  <2>4. proc' \notin SendingProc /\ proc' \notin WaitingProc
    BY <2>3, KindsDiffer
  <2>5. Live(s)' /\ (EarlyAllowed \/ Ripe(s)')
    <3>1. EarlyAllowed \/ Ripe(s)
      <4>1. UserCommitment(s) \in CommitmentHash
        BY Constants DEF UserCommitment, commitmentOf, CommitmentHash
      <4>2. commitments[UserCommitment(s)].blockNumber \in Nat
        BY <1>1, <4>1 DEF TypeOK, Commitment
      <4> QED
        BY <1>5, <1>6, <4>2 DEF Settled, Ripe, WindowOver, getBlockNumber, MIN_REVEAL_DELAY
    <3> QED
      BY <1>1, <1>5, <3>1, LiveKept
  <2>6. RevealSent'
    BY <2>1, <2>2, <2>5, CallTypes DEF RevealSent
  <2>7. Explained(failure)'
    BY <1>1, <2>1, FailureKept
  <2> QED
    BY <1>3, <2>4, <2>6, <2>7 DEF CommitSent, RevealWaits
<1> QED
  BY <1>2, <1>4, <1>7, <1>8

LEMMA ResumeStep ==
  ASSUME CliInv, vhReveal
  PROVE  CommitSent' /\ RevealWaits' /\ RevealSent' /\ ReceiptSettled' /\ Explained(failure)'
<1>1. Shapes /\ TypeOK /\ [CliNext]_cliVars
  BY DEF CliInv, CliNext
<1>2. PICK noWait \in NoWait : /\ proc' = Waiting(disk.commitBlock, disk.salt, disk.parent, noWait)
                               /\ UNCHANGED <<disk, failure>> /\ CompleteReceipt
  BY DEF vhReveal
<1>3. ReceiptSettled' /\ Explained(failure)'
  BY <1>1, <1>2, DiskKept, FailureKept
<1>4. disk \in Receipt /\ noWait \in BOOLEAN
  BY <1>1, <1>2, ClaimAssumption DEF Shapes
<1>5. proc' \in WaitingProc
  BY <1>2, <1>4 DEF Receipt, Waiting, WaitingProc
<1>6. proc' \notin SendingProc /\ proc' \notin RevealProc
  BY <1>5, KindsDiffer
<1>7. PICK s, mined : s = disk.salt /\ mined = disk.commitBlock
  OBVIOUS
<1>8. Settled(s, mined)'
  BY <1>2, <1>3, <1>7 DEF ReceiptSettled, CompleteReceipt
<1>9. noWait => EarlyAllowed
  BY DEF EarlyAllowed
<1>10. RevealWaits'
  BY <1>2, <1>7, <1>8, <1>9 DEF RevealWaits, Waiting
<1> QED
  BY <1>3, <1>6, <1>10 DEF CommitSent, RevealSent

LEMMA CommitMinedStep ==
  ASSUME CliInv, CommitMined
  PROVE  CommitSent' /\ RevealWaits' /\ RevealSent' /\ ReceiptSettled' /\ Explained(failure)'
<1>1. Shapes /\ TypeOK /\ CommitSent /\ [CliNext]_cliVars
  BY DEF CliInv, ReceiptInv, CliNext, Process
<1>2. proc \in SendingProc /\ proc.nonce <= Len(results) /\ UNCHANGED <<mempool, results>>
  BY <1>1, Kinds DEF CommitMined
<1>3. PICK n \in Nat, s \in Salt, e \in {results[proc.nonce].error}, mined \in {results[proc.nonce].block} :
        /\ n = proc.nonce /\ s = proc.salt /\ e = results[n].error /\ mined = results[n].block
  BY <1>2 DEF SendingProc
<1>4. Mined(n) /\ Explained(e) /\ (e = None => Settled(s, mined))
  BY <1>1, <1>2, <1>3 DEF CommitSent, Mined, Waits, Shapes
<1>5. Explained(e)' /\ (e = None => Settled(s, mined)')
  BY <1>1, <1>4, LiveKept, ExplainedKept DEF Settled
<1>6. CASE e # None /\ failure' = e /\ proc' = Idle /\ disk' = disk
  BY <1>1, <1>5, <1>6, IdleFits, DiskKept DEF Explained
<1>7. CASE /\ e = None /\ disk' = Partial /\ failure' = failure
           /\ proc' = [proc EXCEPT !.pc = "writing"]
  <2>1. proc' \in SendingProc /\ proc'.nonce = n /\ proc'.salt = s
    BY <1>2, <1>3, <1>7 DEF SendingProc
  <2>2. proc' \notin WaitingProc /\ proc' \notin RevealProc
    BY <2>1, KindsDiffer
  <2>3. Mined(n)' /\ ~Waits(n)' /\ results'[n] = results[n]
    BY <1>1, <1>4, NonceStep
  <2>4. CommitSent'
    BY <1>3, <1>5, <1>7, <2>1, <2>3 DEF CommitSent
  <2>5. ReceiptSettled' /\ Explained(failure)'
    BY <1>1, <1>7, FailureKept DEF ReceiptSettled, CompleteReceipt
  <2> QED
    BY <2>2, <2>4, <2>5 DEF RevealWaits, RevealSent
<1>8. CASE /\ e = None /\ UNCHANGED <<disk, failure>>
           /\ proc' = Waiting(mined, s, Predecessor, FALSE)
  <2>1. proc'.pc = "waiting" /\ proc'.salt = s /\ proc'.commitBlock = mined /\ ~proc'.noWait
    BY <1>8 DEF Waiting
  <2>2. proc' \notin SendingProc /\ proc' \notin RevealProc
    BY <2>1 DEF SendingProc, RevealProc
  <2>3. RevealWaits'
    BY <1>5, <1>8, <2>1 DEF RevealWaits
  <2>4. ReceiptSettled' /\ Explained(failure)'
    BY <1>1, <1>8, DiskKept, FailureKept
  <2> QED
    BY <2>2, <2>3, <2>4 DEF CommitSent, RevealSent
<1> QED
  BY <1>3, <1>6, <1>7, <1>8 DEF CommitMined

LEMMA ReceiptWrittenStep ==
  ASSUME CliInv, ReceiptWritten
  PROVE  CommitSent' /\ RevealWaits' /\ RevealSent' /\ ReceiptSettled' /\ Explained(failure)'
<1>1. Shapes /\ TypeOK /\ CommitSent /\ [CliNext]_cliVars
  BY DEF CliInv, ReceiptInv, CliNext, Process
<1>2. proc \in SendingProc /\ proc.pc = "writing"
  BY <1>1, Kinds DEF ReceiptWritten
<1>3. PICK n \in Nat, s \in Salt, mined \in {results[proc.nonce].block} : n = proc.nonce /\ s = proc.salt /\ mined = results[n].block
  BY <1>2 DEF SendingProc
<1>4. Settled(s, mined)
  BY <1>1, <1>2, <1>3 DEF CommitSent
<1>5. Settled(s, mined)'
  BY <1>1, <1>4, LiveKept DEF Settled
<1>6. /\ disk' = [salt |-> s, parent |-> proc.receiptParent, commitBlock |-> mined]
      /\ proc' = Idle \/ proc' = Waiting(mined, s, Predecessor, FALSE)
      /\ failure' = failure
  BY <1>3 DEF ReceiptWritten
<1>7. ReceiptSettled' /\ Explained(failure)'
  BY <1>1, <1>5, <1>6, FailureKept DEF ReceiptSettled
<1>8. CASE proc' = Waiting(mined, s, Predecessor, FALSE)
  <2>1. proc'.pc = "waiting" /\ proc'.salt = s /\ proc'.commitBlock = mined /\ ~proc'.noWait
    BY <1>8 DEF Waiting
  <2>2. proc' \notin SendingProc /\ proc' \notin RevealProc
    BY <2>1 DEF SendingProc, RevealProc
  <2>3. RevealWaits'
    BY <1>5, <2>1 DEF RevealWaits
  <2> QED
    BY <1>7, <2>2, <2>3 DEF CommitSent, RevealSent
<1> QED
  BY <1>6, <1>7, <1>8, IdleFits

LEMMA RevealMinedStep ==
  ASSUME CliInv, RevealMined
  PROVE  CommitSent' /\ RevealWaits' /\ RevealSent' /\ ReceiptSettled' /\ Explained(failure)'
<1>1. Shapes /\ RevealSent /\ [CliNext]_cliVars
  BY DEF CliInv, ReceiptInv, CliNext, Process
<1>2. proc \in RevealProc /\ proc.nonce <= Len(results) /\ proc' = Idle /\ disk' = disk
  BY <1>1, Kinds DEF RevealMined
<1>3. PICK n \in Nat, e \in {results[proc.nonce].error} : n = proc.nonce /\ e = results[n].error
  BY <1>2 DEF RevealProc
<1>4. Explained(e)
  BY <1>1, <1>2, <1>3 DEF RevealSent, Mined, Waits, Shapes
<1>5. Explained(e)' /\ failure' = e
  BY <1>1, <1>3, <1>4, ExplainedKept DEF CliInv, RevealMined
<1>6. Explained(failure)'
  BY <1>5 DEF Explained
<1> QED
  BY <1>1, <1>2, <1>6, IdleFits, DiskKept

LEMMA ReceiptStep == CliInv /\ [CliNext]_cliVars => ReceiptInv'
<1> SUFFICES ASSUME CliInv, [CliNext]_cliVars
             PROVE  CommitSent' /\ RevealWaits' /\ RevealSent' /\ ReceiptSettled' /\ Explained(failure)'
  BY FreshSaltsStep DEF CliInv, ReceiptInv
<1>1. CASE Crash
  <2>1. proc' = Idle /\ disk' = disk /\ failure' = failure
    BY <1>1 DEF Crash
  <2> QED
    BY <2>1, IdleFits, DiskKept, FailureKept
<1>2. CASE MineNext \/ ChainAdvances \/ AnchorPredecessor \/ OthersCommit \/ OthersClaim \/ UNCHANGED cliVars
  <2>1. proc' = proc /\ disk' = disk /\ failure' = failure
    BY <1>2 DEF MineNext, ChainAdvances, AnchorPredecessor, OthersCommit, OthersClaim, claimVars, cliVars
  <2> QED
    BY <2>1, ProcKept, DiskKept, FailureKept
<1> QED
  BY <1>1, <1>2, CommitStep, RevealStep, ResumeStep, CommitMinedStep, ReceiptWrittenStep, RevealMinedStep
     DEF CliNext, Process

LEMMA CliInvariant == CliSpec => []CliInv
<1>1. CliInit => CliInv
  <2> SUFFICES ASSUME CliInit PROVE CliInv
    OBVIOUS
  <2>1. TypeOK
    BY DEF CliInit, Init, TypeOK, Indices, Record, EmptyRecord, Commitment, EmptyCommitment, AnyHash, AnyAddr
  <2>2. Shapes
    BY DEF CliInit, Init, Shapes, CompleteReceipt
  <2>3. Explained(None)
    BY ClaimAssumption DEF Explained, Errors
  <2>4. proc \notin SendingProc /\ proc \notin WaitingProc /\ proc \notin RevealProc
    BY KindsDiffer DEF CliInit
  <2>5. ReceiptInv
    BY <2>3, <2>4 DEF CliInit, ReceiptInv, FreshSalts, CommitSent, RevealWaits, RevealSent,
                      ReceiptSettled, CompleteReceipt
  <2> QED
    BY <2>1, <2>2, <2>5 DEF CliInv
<1>2. CliInv /\ [CliNext]_cliVars => CliInv'
  <2> SUFFICES ASSUME CliInv, [CliNext]_cliVars PROVE CliInv'
    OBVIOUS
  <2>1. [Next]_vars
    BY StepOfRegistry DEF CliInv
  <2>2. TypeOK'
    BY <2>1, TypeStep DEF CliInv
  <2>3. Shapes'
    BY ShapesStep DEF CliInv, ReceiptInv
  <2> QED
    BY <2>2, <2>3, ReceiptStep DEF CliInv
<1> QED
  BY <1>1, <1>2, PTL DEF CliSpec

\* The client only ever calls the contract: under it, crashes and front-runners included, the chain
\* behaves as the registry specifies, so every theorem about the registry holds of it.
THEOREM ClientOfRegistry == CliSpec => Spec
<1>1. CliInit => Init
  BY DEF CliInit
<1>2. CliInv /\ [CliNext]_cliVars => [Next]_vars
  BY StepOfRegistry DEF CliInv
<1> QED
  BY <1>1, <1>2, CliInvariant, PTL DEF CliSpec, Spec

\* Either user of the model is a client.
LEMMA UserIsClient == UserSpec => CliSpec
<1>1. UserInit => CliInit
  BY DEF UserInit
<1>2. [UserNext]_userVars => [CliNext]_cliVars
  BY DEF UserNext, userVars
<1> QED
  BY <1>1, <1>2, PTL DEF UserSpec, CliSpec

\* A receipt that can be read can be used, whatever crashed, was retried or overwritten, and a
\* reveal that fails all the same fails because the digest is taken, or was told not to wait.
THEOREM ReceiptUsable == UserSpec => []ReceiptServes
<1>1. CliInv => ReceiptServes
  <2> SUFFICES ASSUME CliInv PROVE ReceiptServes
    OBVIOUS
  <2>1. FailuresExplained
    BY DEF CliInv, ReceiptInv, Explained, FailuresExplained, EarlyAllowed
  <2>2. ReceiptOpens
    <3> SUFFICES ASSUME CompleteReceipt, ~isAnchored(Digest)
                 PROVE  commitments[UserCommitment(disk.salt)]
                          = [committer |-> User, blockNumber |-> disk.commitBlock]
      BY DEF ReceiptOpens
    <3> DEFINE c == commitments[UserCommitment(disk.salt)]
    <3>1. disk \in Receipt
      BY DEF CliInv, Shapes
    <3>2. UserCommitment(disk.salt) \in CommitmentHash
      BY <3>1, Constants DEF UserCommitment, commitmentOf, CommitmentHash, Receipt
    <3>3. c \in Commitment
      BY <3>2 DEF CliInv, TypeOK
    <3>4. c.committer = User /\ c.blockNumber = disk.commitBlock
      BY DEF CliInv, ReceiptInv, ReceiptSettled, Settled, Live
    <3> QED
      BY <3>3, <3>4 DEF Commitment
  <2> QED
    BY <2>1, <2>2 DEF ReceiptServes
<1> QED
  BY <1>1, UserIsClient, CliInvariant, PTL

-----------------------------------------------------------------------------
\* How the digest may come by a record: the user's reveal is mined, or another account anchors it
\* or opens a commitment of its own, once the digest was broadcast.
UserRecords ==
  /\ MineNext /\ Head(mempool).fn = "reveal"
  /\ records'[Digest].contributor = User /\ records'[Digest].parent = Head(mempool).parent

OtherRecords ==
  /\ publicAt # 0 /\ publicAt' = publicAt
  /\ records'[Digest].contributor = Other /\ records'[Digest].blockNumber = block.number
  /\ records'[Digest].authorBound =>
       \E salt \in Salt :
         LET c == commitments[commitmentOf(Digest, Other, salt)]
         IN  c.committer # ZeroAddress /\ block.number > c.blockNumber + MIN_REVEAL_DELAY

LEMMA DigestRecorded ==
  ASSUME TypeOK, Shapes, [CliNext]_cliVars
  PROVE  records'[Digest] = records[Digest] \/ UserRecords \/ OtherRecords
<1>0. ZeroHash \in AnyHash
  BY DEF AnyHash
<1>1. CASE MineNext
  <2> DEFINE tx == Head(mempool)
  <2>1. tx \in Tx
    BY <1>1 DEF Shapes, MineNext
  <2>2. \/ records' = records
        \/ tx.fn = "reveal" /\ revealWithParent(User, Digest, tx.salt, tx.parent)
    BY <1>1 DEF MineNext, commit, vars, registryVars
  <2>3. ASSUME tx.fn = "reveal", revealWithParent(User, Digest, tx.salt, tx.parent)
        PROVE  UserRecords
    <3>1. WriteRecord(Digest, User, TRUE, tx.parent) /\ tx.parent \in AnyHash
      BY <2>1, <2>3 DEF revealWithParent, Tx
    <3>2. Written(Digest, User, TRUE, tx.parent)
      BY <3>1, WriteFacts, Constants
    <3> QED
      BY <1>1, <2>3, <3>2 DEF Written, UserRecords
  <2> QED
    BY <2>2, <2>3
<1>2. CASE OthersClaim
  <2>1. publicAt # 0 /\ publicAt' = publicAt
    BY <1>2 DEF OthersClaim, claimVars
  <2>2. CASE anchor(Other, Digest)
    <3>1. Written(Digest, Other, FALSE, ZeroHash)
      BY <1>0, <2>2, WriteFacts, Constants DEF anchor, anchorWithParent
    <3> QED
      BY <2>1, <3>1 DEF Written, OtherRecords
  <2>3. ASSUME NEW salt \in Salt, reveal(Other, Digest, salt) PROVE OtherRecords
    <3>1. /\ WriteRecord(Digest, Other, TRUE, ZeroHash)
          /\ commitments[commitmentOf(Digest, Other, salt)].committer # ZeroAddress
          /\ block.number > commitments[commitmentOf(Digest, Other, salt)].blockNumber + MIN_REVEAL_DELAY
      BY <2>3 DEF reveal, revealWithParent, Mature
    <3>2. Written(Digest, Other, TRUE, ZeroHash)
      BY <1>0, <3>1, WriteFacts, Constants
    <3> QED
      BY <2>1, <3>1, <3>2 DEF Written, OtherRecords
  <2> QED
    BY <1>2, <2>2, <2>3 DEF OthersClaim
<1>3. CASE AnchorPredecessor
  <2>1. WriteRecord(Predecessor, Other, FALSE, ZeroHash) /\ Predecessor \in ContentHash
    BY <1>3, Constants DEF AnchorPredecessor, anchor, anchorWithParent, WriteRecord, Unclaimed, NonZero, AnyHash
  <2>2. Written(Predecessor, Other, FALSE, ZeroHash)
    BY <1>0, <2>1, WriteFacts, Constants
  <2> QED
    BY <2>2, Constants DEF Written
<1>4. CASE OthersCommit
  BY <1>4 DEF OthersCommit, commit, registryVars
<1>5. CASE ChainAdvances
  BY <1>5 DEF ChainAdvances, NewBlock, registryVars
<1>6. CASE vhCommit \/ vhClaim \/ vhReveal \/ Process \/ Crash \/ UNCHANGED cliVars
  BY <1>6 DEF vhCommit, vhClaim, SendCommit, vhReveal, Process, CommitMined, ReceiptWritten,
              SendReveal, RevealMined, Crash, vars, registryVars, cliVars
<1> QED
  BY <1>1, <1>2, <1>3, <1>4, <1>5, <1>6 DEF CliNext

\* The digest is broadcast once.
LEMMA PublicAtKept ==
  ASSUME Shapes, [CliNext]_cliVars, publicAt # 0
  PROVE  publicAt' = publicAt
<1>1. CASE vhCommit \/ vhClaim
  <2>1. PICK salt \in Salt \ usedSalts :
          publicAt' = IF CommitTx(salt).fn = "reveal" /\ publicAt = 0 THEN block.number ELSE publicAt
    BY <1>1, CommitOutcome DEF Sent, Refused, CommitTx
  <2> QED
    BY <2>1
<1>2. CASE SendReveal
  BY <1>2, RevealOutcome DEF Sent, Refused
<1>3. CASE vhReveal \/ CommitMined \/ ReceiptWritten \/ RevealMined \/ Crash \/ MineNext
  BY <1>3 DEF vhReveal, CommitMined, ReceiptWritten, RevealMined, Crash, MineNext
<1>4. CASE ChainAdvances \/ AnchorPredecessor \/ OthersCommit \/ OthersClaim \/ UNCHANGED cliVars
  BY <1>4 DEF ChainAdvances, AnchorPredecessor, OthersCommit, OthersClaim, claimVars, cliVars
<1> QED
  BY <1>1, <1>2, <1>3, <1>4 DEF CliNext, Process

\* Another account registers a commitment to the digest only when it can know the digest.
OthersLate ==
  \A salt \in Salt :
    LET c == commitments[commitmentOf(Digest, Other, salt)]
    IN  c.committer # ZeroAddress => publicAt # 0 /\ c.blockNumber >= publicAt

LEMMA OthersCommitment ==
  ASSUME TypeOK, Shapes, [CliNext]_cliVars, NEW salt \in Salt
  PROVE  LET c == commitmentOf(Digest, Other, salt)
         IN  \/ commitments'[c] = commitments[c]
             \/ commitments'[c].committer = ZeroAddress
             \/ commitments'[c].blockNumber = block.number /\ publicAt # 0
<1> DEFINE c == commitmentOf(Digest, Other, salt)
<1>0. ZeroHash \in AnyHash /\ c \in CommitmentHash
  BY Constants DEF AnyHash, commitmentOf, CommitmentHash
<1>1. ASSUME NEW a, NEW d, commit(a, d)
      PROVE  \/ commitments'[c] = commitments[c]
             \/ d = c /\ commitments'[c].blockNumber = block.number
  <2>1. commitments' = [commitments EXCEPT ![d] = [committer |-> a, blockNumber |-> block.number]]
    BY <1>1 DEF commit
  <2>2. c \in CommitmentHash /\ commitments \in [CommitmentHash -> Commitment]
    BY <1>0 DEF TypeOK
  <2> HIDE DEF c
  <2> QED
    BY <2>1, <2>2
<1>2. \A s \in Salt : UserCommitment(s) # c
  BY Constants DEF UserCommitment, commitmentOf
<1>3. \A i \in DOMAIN mempool : mempool[i] \in Tx
  BY DEF Shapes
<1>4. CASE MineNext
  <2> DEFINE tx == Head(mempool)
  <2>1. tx \in Tx
    BY <1>4 DEF Shapes, MineNext
  <2>2. tx.salt \in Salt /\ tx.parent \in AnyHash
    BY <2>1 DEF Tx
  <2>3. \/ UNCHANGED vars
        \/ commit(User, UserCommitment(tx.salt))
        \/ revealWithParent(User, Digest, tx.salt, tx.parent)
    BY <1>4 DEF MineNext
  <2> HIDE DEF tx
  <2>4. CASE commit(User, UserCommitment(tx.salt))
    BY <1>1, <1>2, <2>2, <2>4
  <2>5. CASE revealWithParent(User, Digest, tx.salt, tx.parent)
    BY <1>0, <2>2, <2>5, RevealConsumes, Constants
  <2> QED
    BY <2>3, <2>4, <2>5 DEF vars
<1>5. CASE OthersCommit
  <2>1. CASE \E i \in DOMAIN mempool :
               mempool[i].fn = "commit" /\ commit(Other, UserCommitment(mempool[i].salt))
    <3>1. PICK i \in DOMAIN mempool : commit(Other, UserCommitment(mempool[i].salt))
      BY <2>1
    <3>2. mempool[i].salt \in Salt
      BY <1>3, <3>1 DEF Tx
    <3> QED
      BY <1>1, <1>2, <3>1, <3>2
  <2>2. CASE publicAt # 0 /\ \E s \in Salt : commit(Other, commitmentOf(Digest, Other, s))
    BY <1>1, <2>2
  <2> QED
    BY <1>5, <2>1, <2>2 DEF OthersCommit
<1>6. CASE OthersClaim
  <2>1. CASE anchor(Other, Digest)
    BY <2>1 DEF anchor, anchorWithParent
  <2>2. ASSUME NEW s \in Salt, reveal(Other, Digest, s)
        PROVE  commitments'[c] = commitments[c] \/ commitments'[c].committer = ZeroAddress
    BY <1>0, <2>2, RevealConsumes, Constants DEF reveal
  <2> QED
    BY <1>6, <2>1, <2>2 DEF OthersClaim
<1>7. CASE ChainAdvances \/ AnchorPredecessor
  BY <1>7 DEF ChainAdvances, NewBlock, AnchorPredecessor, anchor, anchorWithParent
<1>8. CASE vhCommit \/ vhClaim \/ vhReveal \/ Process \/ Crash \/ UNCHANGED cliVars
  BY <1>8 DEF vhCommit, vhClaim, SendCommit, vhReveal, Process, CommitMined, ReceiptWritten,
              SendReveal, RevealMined, Crash, vars, cliVars
<1> QED
  BY <1>4, <1>5, <1>6, <1>7, <1>8 DEF CliNext


LEMMA CopierStep ==
  ASSUME TypeOK, Shapes, OthersLate, CopierWindow, [CliNext]_cliVars
  PROVE  OthersLate' /\ CopierWindow'
<1>0. block.number \in Nat /\ publicAt \in Nat /\ publicAt <= block.number
  BY DEF Shapes, TypeOK
<1>1. publicAt # 0 => publicAt' = publicAt
  BY PublicAtKept
<1>2. OthersLate'
  <2> SUFFICES ASSUME NEW salt \in Salt,
                      commitments'[commitmentOf(Digest, Other, salt)].committer # ZeroAddress
               PROVE  /\ publicAt' # 0
                      /\ commitments'[commitmentOf(Digest, Other, salt)].blockNumber >= publicAt'
    BY DEF OthersLate, commitmentOf
  <2> QED
    BY <1>0, <1>1, OthersCommitment DEF OthersLate
<1>3. CopierWindow'
  <2>1. CASE records'[Digest] = records[Digest]
    BY <1>1, <2>1 DEF CopierWindow
  <2>2. CASE UserRecords
    BY <2>2, Constants DEF UserRecords, CopierWindow
  <2>3. CASE OtherRecords
    <3>1. records'[Digest].authorBound => block.number > publicAt + MIN_REVEAL_DELAY
      <4>1. SUFFICES ASSUME records'[Digest].authorBound PROVE block.number > publicAt + MIN_REVEAL_DELAY
        OBVIOUS
      <4>2. PICK salt \in Salt :
              /\ commitments[commitmentOf(Digest, Other, salt)].committer # ZeroAddress
              /\ block.number > commitments[commitmentOf(Digest, Other, salt)].blockNumber + MIN_REVEAL_DELAY
        BY <2>3, <4>1 DEF OtherRecords
      <4>3. commitments[commitmentOf(Digest, Other, salt)].blockNumber \in Nat
        BY Constants DEF TypeOK, commitmentOf, CommitmentHash, Commitment
      <4> QED
        BY <1>0, <4>2, <4>3 DEF OthersLate, MIN_REVEAL_DELAY
    <3> QED
      BY <1>0, <2>3, <3>1 DEF OtherRecords, CopierWindow, MIN_REVEAL_DELAY
  <2> QED
    BY <2>1, <2>2, <2>3, DigestRecorded
<1> QED
  BY <1>2, <1>3

\* Nobody else holds a record of the digest before it was broadcast, and an author-bound one is at
\* least the delay younger: the user's own reveal has that many blocks to be mined first.
THEOREM CopiersAreLate == UserSpec => []CopierWindow
<1>1. CliInit => OthersLate /\ CopierWindow
  <2> SUFFICES ASSUME CliInit PROVE OthersLate /\ CopierWindow
    OBVIOUS
  <2>1. \A salt \in Salt : commitmentOf(Digest, Other, salt) \in CommitmentHash
    BY Constants DEF commitmentOf, CommitmentHash
  <2>2. OthersLate
    BY <2>1 DEF CliInit, Init, OthersLate, EmptyCommitment
  <2>3. CopierWindow
    BY Constants DEF CliInit, Init, CopierWindow, EmptyRecord
  <2> QED
    BY <2>2, <2>3
<1>2. CliInv /\ (OthersLate /\ CopierWindow) /\ [CliNext]_cliVars => (OthersLate /\ CopierWindow)'
  BY CopierStep DEF CliInv
<1> QED
  BY <1>1, <1>2, UserIsClient, CliInvariant, PTL DEF CliSpec

-----------------------------------------------------------------------------
\* Whatever a user who never runs vh claim leaves anywhere names the predecessor asked for: the
\* running process, the receipt, the reveals under way and the record.
EdgeProc ==
  /\ proc \in SendingProc => proc.cmd = "commit" /\ proc.receiptParent = Predecessor
  /\ proc \in WaitingProc => proc.parent = Predecessor

EdgeDisk == CompleteReceipt => disk.parent = Predecessor

EdgeSent == \A i \in DOMAIN mempool : mempool[i].fn = "reveal" => mempool[i].parent = Predecessor

EdgeInv == EdgeProc /\ EdgeDisk /\ EdgeSent /\ EdgeKept

LEMMA EdgeRecorded ==
  ASSUME TypeOK, Shapes, EdgeSent, EdgeKept, [CliNext]_cliVars
  PROVE  EdgeKept'
<1>1. CASE records'[Digest] = records[Digest]
  BY <1>1 DEF EdgeKept
<1>2. CASE UserRecords
  <2>1. mempool \in Seq(Tx) /\ mempool # <<>>
    BY <1>2 DEF UserRecords, MineNext, Shapes
  <2>2. 1 \in DOMAIN mempool /\ Head(mempool) = mempool[1]
    BY <2>1
  <2> QED
    BY <1>2, <2>2 DEF UserRecords, EdgeSent, EdgeKept
<1>3. CASE OtherRecords
  BY <1>3, Constants DEF OtherRecords, EdgeKept
<1> QED
  BY <1>1, <1>2, <1>3, DigestRecorded

\* A reveal that joins the mempool is the running process's.
LEMMA EdgeBroadcast ==
  ASSUME Shapes, EdgeSent, EdgeProc, [CliNext]_cliVars
  PROVE  EdgeSent'
<1>0. mempool \in Seq(Tx)
  BY DEF Shapes
<1>1. ASSUME NEW tx \in Tx, mempool' = Append(mempool, tx), tx.fn = "reveal" => tx.parent = Predecessor
      PROVE  EdgeSent'
  <2>1. \A i \in DOMAIN mempool' : \/ i \in DOMAIN mempool /\ mempool'[i] = mempool[i]
                                   \/ mempool'[i] = tx
    BY <1>0, <1>1
  <2> QED
    BY <1>1, <2>1 DEF EdgeSent
<1>2. CASE mempool' = mempool
  BY <1>2 DEF EdgeSent
<1>3. CASE vhCommit \/ vhClaim
  <2>1. PICK salt \in Salt : mempool' = Append(mempool, CommitTx(salt)) \/ mempool' = mempool
    BY <1>3, CommitOutcome DEF Sent, Refused
  <2>2. CommitTx(salt) \in Tx /\ CommitTx(salt).fn # "reveal"
    BY CallTypes
  <2> QED
    BY <1>1, <1>2, <2>1, <2>2
<1>4. CASE SendReveal
  <2>1. /\ proc \in WaitingProc
        /\ mempool' = Append(mempool, RevealTx(proc.salt, proc.parent)) \/ mempool' = mempool
    BY <1>4, RevealOutcome DEF Sent, Refused
  <2>2. proc.salt \in Salt /\ proc.parent \in AnyHash /\ proc.parent = Predecessor
    BY <2>1 DEF WaitingProc, EdgeProc
  <2>3. /\ RevealTx(proc.salt, proc.parent) \in Tx
        /\ RevealTx(proc.salt, proc.parent).parent = Predecessor
    BY <2>2, CallTypes
  <2> QED
    BY <1>1, <1>2, <2>1, <2>3
<1>5. CASE MineNext
  <2>1. mempool # <<>> /\ mempool' = Tail(mempool)
    BY <1>5 DEF MineNext
  <2>2. \A i \in DOMAIN mempool' : i + 1 \in DOMAIN mempool /\ mempool'[i] = mempool[i + 1]
    BY <1>0, <2>1
  <2> QED
    BY <2>2 DEF EdgeSent
<1>6. CASE vhReveal \/ CommitMined \/ ReceiptWritten \/ RevealMined \/ Crash
  BY <1>2, <1>6 DEF vhReveal, CommitMined, ReceiptWritten, RevealMined, Crash
<1>7. CASE ChainAdvances \/ AnchorPredecessor \/ OthersCommit \/ OthersClaim \/ UNCHANGED cliVars
  BY <1>2, <1>7 DEF ChainAdvances, AnchorPredecessor, OthersCommit, OthersClaim, claimVars, cliVars
<1> QED
  BY <1>3, <1>4, <1>5, <1>6, <1>7 DEF CliNext, Process

LEMMA EdgeCarried ==
  ASSUME Shapes, EdgeProc, EdgeDisk, [CliNext]_cliVars,
         proc'.pc = "commit_sent" => proc'.cmd = "commit"
  PROVE  EdgeProc' /\ EdgeDisk'
<1>1. ASSUME proc' = Idle, disk' = disk PROVE EdgeProc' /\ EdgeDisk'
  BY <1>1, KindsDiffer DEF EdgeProc, EdgeDisk, CompleteReceipt
<1>2. ASSUME proc' = proc, disk' = disk PROVE EdgeProc' /\ EdgeDisk'
  BY <1>2 DEF EdgeProc, EdgeDisk, CompleteReceipt
<1>3. \A n, s, noWait : LET p == Waiting(n, s, Predecessor, noWait)
                        IN  p.parent = Predecessor /\ p \notin SendingProc
  BY DEF Waiting, SendingProc
<1>4. CASE vhCommit \/ vhClaim
  <2>1. CASE proc' = Idle /\ disk' = disk
    BY <1>1, <2>1
  <2>2. CASE \E salt \in Salt, cmd \in {"commit", "claim"}, persist \in BOOLEAN,
                receiptParent \in {Predecessor, ZeroHash} :
               /\ cmd = "commit" => receiptParent = Predecessor
               /\ proc' = [pc |-> "commit_sent", cmd |-> cmd, salt |-> salt, persist |-> persist,
                           receiptParent |-> receiptParent, nonce |-> NewNonce]
               /\ disk' = disk
    <3>1. proc'.pc = "commit_sent" /\ proc'.cmd = "commit" /\ proc'.receiptParent = Predecessor
      BY <2>2
    <3> QED
      BY <2>2, <3>1 DEF EdgeProc, EdgeDisk, CompleteReceipt, WaitingProc
  <2> QED
    BY <1>4, <2>1, <2>2, CommitOutcome DEF Sent, Refused
<1>5. CASE SendReveal
  <2>1. disk' = disk /\ (proc' = Idle \/ proc' = [pc |-> "reveal_sent", nonce |-> NewNonce])
    BY <1>5, RevealOutcome DEF Sent, Refused
  <2> QED
    BY <1>1, <2>1 DEF EdgeProc, EdgeDisk, CompleteReceipt, SendingProc, WaitingProc
<1>6. CASE vhReveal
  <2>1. PICK noWait \in NoWait : /\ CompleteReceipt /\ disk' = disk
                                 /\ proc' = Waiting(disk.commitBlock, disk.salt, disk.parent, noWait)
    BY <1>6 DEF vhReveal
  <2> QED
    BY <1>3, <2>1 DEF EdgeProc, EdgeDisk, CompleteReceipt
<1>7. CASE CommitMined
  <2>1. proc \in SendingProc
    BY <1>7, Kinds DEF CommitMined
  <2>2. CASE proc' = Idle /\ disk' = disk
    BY <1>1, <2>2
  <2>3. CASE disk' = Partial /\ proc' = [proc EXCEPT !.pc = "writing"]
    <3>1. proc' \in SendingProc /\ proc'.cmd = proc.cmd /\ proc'.receiptParent = proc.receiptParent
      BY <2>1, <2>3 DEF SendingProc
    <3>2. proc' \notin WaitingProc
      BY <3>1, KindsDiffer
    <3> QED
      BY <2>1, <2>3, <3>1, <3>2 DEF EdgeProc, EdgeDisk, CompleteReceipt
  <2>4. CASE disk' = disk /\ \E n : proc' = Waiting(n, proc.salt, Predecessor, FALSE)
    BY <1>3, <2>4 DEF EdgeProc, EdgeDisk, CompleteReceipt
  <2> QED
    BY <1>7, <2>2, <2>3, <2>4 DEF CommitMined
<1>8. CASE ReceiptWritten
  <2>1. proc \in SendingProc
    BY <1>8, Kinds DEF ReceiptWritten
  <2>2. disk'.parent = Predecessor
    BY <1>8, <2>1 DEF ReceiptWritten, EdgeProc
  <2>3. proc' = Idle \/ \E n : proc' = Waiting(n, proc.salt, Predecessor, FALSE)
    BY <1>8 DEF ReceiptWritten
  <2> QED
    BY <1>3, <2>2, <2>3, KindsDiffer DEF EdgeProc, EdgeDisk
<1>9. CASE RevealMined \/ Crash
  BY <1>1, <1>9 DEF RevealMined, Crash
<1>10. CASE MineNext \/ ChainAdvances \/ AnchorPredecessor \/ OthersCommit \/ OthersClaim \/ UNCHANGED cliVars
  BY <1>2, <1>10 DEF MineNext, ChainAdvances, AnchorPredecessor, OthersCommit, OthersClaim, claimVars, cliVars
<1> QED
  BY <1>4, <1>5, <1>6, <1>7, <1>8, <1>9, <1>10 DEF CliNext, Process

\* Who keeps to vh commit and vh reveal never loses the lineage edge asked for, through whatever
\* crashes and resumptions the record came about.
THEOREM EdgeSurvives == UserSpec => []SplitKeepsEdge
<1>1. UserInit => EdgeInv
  BY Constants, KindsDiffer
     DEF UserInit, CliInit, Init, EdgeInv, EdgeProc, EdgeDisk, EdgeSent, EdgeKept, CompleteReceipt, EmptyRecord
<1>2. CliInv /\ (split => EdgeInv) /\ [UserNext]_userVars => (split => EdgeInv)'
  <2> SUFFICES ASSUME CliInv, split => EdgeInv, [UserNext]_userVars, split' PROVE EdgeInv'
    OBVIOUS
  <2>1. CASE UserNext
    <3>1. EdgeInv /\ CliNext /\ (proc'.pc = "commit_sent" => proc'.cmd = "commit")
      BY <2>1 DEF UserNext
    <3> QED
      BY <3>1, EdgeRecorded, EdgeBroadcast, EdgeCarried DEF CliInv, EdgeInv
  <2>2. CASE UNCHANGED userVars
    BY <2>2 DEF userVars, cliVars, claimVars, vars, registryVars, EdgeInv, EdgeProc, EdgeDisk, EdgeSent,
                EdgeKept, CompleteReceipt
  <2> QED
    BY <2>1, <2>2
<1>3. (split => EdgeInv) => SplitKeepsEdge
  BY DEF EdgeInv, SplitKeepsEdge
<1> QED
  BY <1>1, <1>2, <1>3, UserIsClient, CliInvariant, PTL DEF UserSpec
=============================================================================
