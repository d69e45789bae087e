------------------------------ MODULE ClaimCli ------------------------------
(***************************************************************************)
(* The command-line client of cli/claim.js and cli/receipt.js that claims  *)
(* one digest on the registry: vh commit, vh reveal and the one-shot vh    *)
(* claim, run one after the other by one user whose machine may crash at   *)
(* any point, against a chain other accounts write to as well.             *)
(*                                                                         *)
(* The registry is the chain's state.  A transaction of the user waits in  *)
(* the mempool, where everyone can read it, and is mined in nonce order;   *)
(* what wait() will return for it is kept in results.  A process keeps its *)
(* salt in memory only, and the receipt file is the one thing a crash      *)
(* leaves behind.                                                          *)
(***************************************************************************)
EXTENDS ContributionRegistry

CONSTANTS User, Other,   \* the claimant, and everybody else
          Digest,        \* the content the user claims
          Predecessor,   \* the parent the user names with --parent, or ZeroHash
          Commands,      \* the vh commands in use: "commit", "reveal", "claim"
          NoWait,        \* the values of runReveal's noWait option in use
          MaxCrash,      \* how many crashes are modelled
          None,          \* no file, no error
          Partial        \* a file whose writing has begun and not ended

\* What the contract's custom errors are called.
Errors == {"CommitmentExists", "NoSuchCommitment", "RevealTooSoon", "AlreadyAnchored", "UnknownParent"}

ASSUME ClaimAssumption ==
  /\ User \in Addr /\ Other \in Addr /\ User # Other
  /\ Digest \in ContentHash /\ Predecessor \in AnyHash \ {Digest}
  /\ Commands \subseteq {"commit", "reveal", "claim"} /\ NoWait \subseteq BOOLEAN
  /\ MaxCrash \in Nat
  /\ None \notin Errors

VARIABLES proc,       \* the running vh process, if any
          disk,       \* the receipt file at the path the user names
          mempool,    \* the user's transactions that are not mined yet, by nonce
          results,    \* what became of the mined ones, by nonce
          usedSalts,  \* the salts drawn so far
          crashes,    \* the number of crashes so far
          publicAt,   \* the block in which the digest first left the user's machine, or 0
          failure     \* the last error a vh process ended with

claimVars == <<proc, disk, mempool, results, usedSalts, crashes, publicAt, failure>>
cliVars == <<vars, claimVars>>

Idle == [pc |-> "idle"]

\* A receipt that is complete passes _validate; a half-written one does not parse.
Receipt == [salt: Salt, parent: AnyHash, commitBlock: Nat]

CompleteReceipt == disk \notin {None, Partial}

\* provider.getBlockNumber(): the last block that is mined.
getBlockNumber == block.number - 1

CommitTx(salt) == [fn |-> "commit", salt |-> salt, parent |-> ZeroHash]

\* Mutant: the content hash is passed where the predecessor belongs.
RevealTxSwapped(salt, parent) == [fn |-> "reveal", salt |-> salt, parent |-> Digest]

RevealTx(salt, parent) == [fn |-> "reveal", salt |-> salt, parent |-> parent]

UserCommitment(salt) == commitmentOf(Digest, User, salt)

(***************************************************************************)
(* The revert a call of the user meets, in the order the contract checks,  *)
(* when it is executed in a block of the given number.                     *)
(***************************************************************************)
CommitError(salt) ==
  IF commitments[UserCommitment(salt)].committer # ZeroAddress THEN "CommitmentExists" ELSE None

RevealError(number, salt, parent) ==
  LET c == commitments[UserCommitment(salt)]
  IN  IF c.committer = ZeroAddress THEN "NoSuchCommitment"
      ELSE IF number <= c.blockNumber + MIN_REVEAL_DELAY THEN "RevealTooSoon"
      ELSE IF isAnchored(Digest) THEN "AlreadyAnchored"
      ELSE IF parent # ZeroHash /\ ~isAnchored(parent) THEN "UnknownParent"
      ELSE None

TxError(number, tx) ==
  IF tx.fn = "commit" THEN CommitError(tx.salt) ELSE RevealError(number, tx.salt, tx.parent)

CliInit ==
  /\ Init
  /\ proc = Idle
  /\ disk = None
  /\ mempool = <<>>
  /\ results = <<>>
  /\ usedSalts = {}
  /\ crashes = 0
  /\ publicAt = 0
  /\ failure = None

-----------------------------------------------------------------------------
(***************************************************************************)
(* Sending.  ethers estimates the gas of a call first, on the last mined   *)
(* or on the pending block as the node pleases, and throws the revert it   *)
(* meets instead of broadcasting.  A broadcast reveal shows the digest to  *)
(* everyone.                                                               *)
(***************************************************************************)
NextNonce == Len(results) + Len(mempool) + 1

Send(tx, next) ==
  \E number \in {getBlockNumber, block.number} :
    LET error == TxError(number, tx)
    IN  IF error = None
        THEN /\ mempool' = Append(mempool, tx)
             /\ proc' = next
             /\ publicAt' = IF tx.fn = "reveal" /\ publicAt = 0 THEN block.number ELSE publicAt
             /\ UNCHANGED failure
        ELSE /\ failure' = error
             /\ proc' = Idle
             /\ UNCHANGED <<mempool, publicAt>>

(***************************************************************************)
(* vh commit (runCommit) and the first leg of vh claim (runClaim): draw a  *)
(* salt, send commit().  The receipt of vh commit carries --parent, the    *)
(* one of vh claim is built without it.                                    *)
(***************************************************************************)
SendCommit(cmd, persist, receiptParent) ==
  /\ proc.pc = "idle"
  /\ cmd \in Commands
  /\ \E salt \in Salt \ usedSalts :
       /\ usedSalts' = usedSalts \cup {salt}
       /\ Send(CommitTx(salt),
               [pc |-> "commit_sent", cmd |-> cmd, salt |-> salt, persist |-> persist,
                receiptParent |-> receiptParent, nonce |-> NextNonce])
  /\ UNCHANGED <<vars, disk, results, crashes>>

\* Mutant: vh commit drops --parent from the receipt.
CommitWithoutEdge == SendCommit("commit", TRUE, ZeroHash)

vhCommit == SendCommit("commit", TRUE, Predecessor)

vhClaim == \E persist \in BOOLEAN : SendCommit("claim", persist, ZeroHash)

Waiting(commitBlock, salt, parent, noWait) ==
  [pc |-> "waiting", commitBlock |-> commitBlock, salt |-> salt, parent |-> parent,
   noWait |-> noWait]

\* Mutant: the status of the mined commit is not looked at.
WaitIgnored ==
  /\ proc.pc = "commit_sent"
  /\ proc.nonce <= Len(results)
  /\ LET r == results[proc.nonce]
     IN  /\ UNCHANGED failure
         /\ IF proc.persist
            THEN /\ disk' = Partial
                 /\ proc' = [proc EXCEPT !.pc = "writing"]
            ELSE /\ UNCHANGED disk
                 /\ proc' = Waiting(r.block, proc.salt, Predecessor, FALSE)
  /\ UNCHANGED <<vars, mempool, results, usedSalts, crashes, publicAt>>

\* commitSent.wait() returns or throws; then the file is opened for writing, which empties it.
CommitMined ==
  /\ proc.pc = "commit_sent"
  /\ proc.nonce <= Len(results)
  /\ LET r == results[proc.nonce]
     IN  \/ /\ r.error # None
            /\ failure' = r.error
            /\ proc' = Idle
            /\ UNCHANGED disk
         \/ /\ r.error = None /\ proc.persist
            /\ disk' = Partial
            /\ proc' = [proc EXCEPT !.pc = "writing"]
            /\ UNCHANGED failure
         \/ /\ r.error = None /\ ~proc.persist
            /\ proc' = Waiting(r.block, proc.salt, Predecessor, FALSE)
            /\ UNCHANGED <<disk, failure>>
  /\ UNCHANGED <<vars, mempool, results, usedSalts, crashes, publicAt>>

\* writeReceipt is done; vh commit exits, vh claim goes on to wait.
ReceiptWritten ==
  /\ proc.pc = "writing"
  /\ LET mined == results[proc.nonce].block
     IN  /\ disk' = [salt |-> proc.salt, parent |-> proc.receiptParent, commitBlock |-> mined]
         /\ proc' = IF proc.cmd = "commit" THEN Idle
                    ELSE Waiting(mined, proc.salt, Predecessor, FALSE)
  /\ UNCHANGED <<vars, mempool, results, usedSalts, crashes, publicAt, failure>>

(***************************************************************************)
(* vh reveal (runReveal): everything comes from the receipt.  readReceipt  *)
(* throws on a missing or half-written file and nothing happens.           *)
(***************************************************************************)
vhReveal ==
  /\ proc.pc = "idle"
  /\ "reveal" \in Commands
  /\ CompleteReceipt
  /\ \E noWait \in NoWait :
       proc' = Waiting(disk.commitBlock, disk.salt, disk.parent, noWait)
  /\ UNCHANGED <<vars, disk, mempool, results, usedSalts, crashes, publicAt, failure>>

\* _waitRevealWindow: poll until the last mined block is past the delay.
WindowOver(commitBlock) == getBlockNumber > commitBlock + MIN_REVEAL_DELAY

SendReveal ==
  /\ proc.pc = "waiting"
  /\ proc.noWait \/ WindowOver(proc.commitBlock)
  /\ Send(RevealTx(proc.salt, proc.parent), [pc |-> "reveal_sent", nonce |-> NextNonce])
  /\ UNCHANGED <<vars, disk, results, usedSalts, crashes>>

RevealMined ==
  /\ proc.pc = "reveal_sent"
  /\ proc.nonce <= Len(results)
  /\ failure' = results[proc.nonce].error
  /\ proc' = Idle
  /\ UNCHANGED <<vars, disk, mempool, results, usedSalts, crashes, publicAt>>

\* The process or the machine dies: memory is gone, the file and the mempool stay.
Crash ==
  /\ proc.pc # "idle"
  /\ crashes < MaxCrash
  /\ crashes' = crashes + 1
  /\ proc' = Idle
  /\ UNCHANGED <<vars, disk, mempool, results, usedSalts, publicAt, failure>>

-----------------------------------------------------------------------------
(***************************************************************************)
(* The chain.  A mined transaction either takes effect as the contract     *)
(* specifies or reverts and changes nothing.                               *)
(***************************************************************************)
MineNext ==
  /\ mempool # <<>>
  /\ LET tx    == Head(mempool)
         error == TxError(block.number, tx)
     IN  /\ results' = Append(results, [error |-> error, block |-> block.number])
         /\ mempool' = Tail(mempool)
         /\ \/ error # None /\ UNCHANGED vars
            \/ error = None /\ tx.fn = "commit" /\ commit(User, UserCommitment(tx.salt))
            \/ /\ error = None /\ tx.fn = "reveal"
               /\ revealWithParent(User, Digest, tx.salt, tx.parent)
  /\ UNCHANGED <<proc, disk, usedSalts, crashes, publicAt, failure>>

ChainAdvances == NewBlock /\ UNCHANGED claimVars

\* Somebody anchors the predecessor, which is public.
AnchorPredecessor == anchor(Other, Predecessor) /\ UNCHANGED claimVars

\* The others know what they can read: a commitment in the mempool, and the digest from the
\* moment a reveal of it was broadcast.
OthersCommit ==
  /\ \/ \E i \in DOMAIN mempool :
          mempool[i].fn = "commit" /\ commit(Other, UserCommitment(mempool[i].salt))
     \/ publicAt # 0 /\ \E salt \in Salt : commit(Other, commitmentOf(Digest, Other, salt))
  /\ UNCHANGED claimVars

OthersClaim ==
  /\ publicAt # 0
  /\ \/ anchor(Other, Digest)
     \/ \E salt \in Salt : reveal(Other, Digest, salt)
  /\ UNCHANGED claimVars

Process == CommitMined \/ ReceiptWritten \/ SendReveal \/ RevealMined

CliNext ==
  \/ vhCommit \/ vhClaim \/ vhReveal
  \/ Process
  \/ Crash
  \/ MineNext
  \/ ChainAdvances
  \/ AnchorPredecessor
  \/ OthersCommit
  \/ OthersClaim

CliSpec == CliInit /\ [][CliNext]_cliVars

\* A process that is alive runs on, miners include transactions and extend the chain, the named
\* predecessor gets anchored, and the user retries vh reveal while there is a receipt.
Fairness ==
  /\ WF_cliVars(Process)
  /\ WF_cliVars(MineNext)
  /\ WF_cliVars(ChainAdvances)
  /\ WF_cliVars(AnchorPredecessor)
  /\ WF_cliVars(vhReveal)

FairCliSpec == CliSpec /\ Fairness
-----------------------------------------------------------------------------
(***************************************************************************)
(* Properties.                                                             *)
(***************************************************************************)
Tx == [fn: {"commit", "reveal"}, salt: Salt, parent: AnyHash]

\* The registry keeps its types and the client's state has its shape.
CliTypeOK ==
  /\ TypeOK
  /\ proc.pc \in {"idle", "commit_sent", "writing", "waiting", "reveal_sent"}
  /\ CompleteReceipt => disk \in Receipt
  /\ mempool \in Seq(Tx)
  /\ usedSalts \subseteq Salt
  /\ crashes \in 0 .. MaxCrash
  /\ publicAt \in 0 .. block.number

\* A receipt that can be read can be used: until the digest is anchored, the chain holds the
\* commitment it opens, registered by the user in the very block the receipt names, whatever
\* crashed, was retried or was overwritten in between.
ReceiptOpens ==
  CompleteReceipt /\ ~isAnchored(Digest) =>
    commitments[UserCommitment(disk.salt)] = [committer |-> User, blockNumber |-> disk.commitBlock]

\* A vh process fails for a reason the user can act on: a reveal finds no commitment or a taken
\* digest only when the digest is indeed anchored, and a reveal that waited is never too soon.
FailuresExplained ==
  /\ failure \in {"NoSuchCommitment", "AlreadyAnchored"} => isAnchored(Digest)
  /\ failure = "RevealTooSoon" => TRUE \in NoWait

\* The lineage edge survives: a record the user obtained for the digest names the predecessor
\* the user asked for, through whatever crashes and resumptions it came about.
EdgeKept ==
  records[Digest].contributor = User => records[Digest].parent = Predecessor

\* Nobody else holds a record of the digest before it was broadcast in a reveal, and an
\* author-bound one is at least the delay younger than that broadcast: the user's own reveal,
\* which needs no further commitment, has that many blocks to be mined first.
CopierWindow ==
  records[Digest].contributor = Other =>
    /\ publicAt # 0 /\ records[Digest].blockNumber >= publicAt
    /\ records[Digest].authorBound => records[Digest].blockNumber > publicAt + MIN_REVEAL_DELAY

\* A readable receipt leads to an anchored digest, if the modelled chain is long enough for its
\* window and the user does not replace the file.
ReceiptLeadsToRecord ==
  \A salt \in Salt :
    (CompleteReceipt /\ disk.salt = salt /\ disk.commitBlock + MIN_REVEAL_DELAY + 2 <= MaxBlock)
      ~> (isAnchored(Digest) \/ ~(CompleteReceipt /\ disk.salt = salt))

\* The salt of every commitment of the user that is registered and not yet opened is on the disk
\* or in the memory of a running process.
SaltDurable ==
  \A salt \in Salt :
    (commitments[UserCommitment(salt)].committer = User /\ ~isAnchored(Digest)) =>
      \/ CompleteReceipt /\ disk.salt = salt
      \/ proc.pc \in {"commit_sent", "writing", "waiting"} /\ proc.salt = salt
=============================================================================
