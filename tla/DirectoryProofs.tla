-------------------------- MODULE DirectoryProofs --------------------------
(***************************************************************************)
(* Directories and their proofs: vh anchor <dir>, vh verify <dir> and      *)
(* vh prove (cli/anchor.js, cli/verify.js, cli/prove.js, cli/hash.js), the *)
(* portable proof artifact, and vh verify-proof (cli/proof.js).            *)
(*                                                                         *)
(* A directory is hashed file by file while somebody may be editing it;    *)
(* vh prove --anchor hashes it twice.  The artifact travels by any means,  *)
(* so that any of its fields may have been changed when it is verified.    *)
(* The registry is what isAnchored needs of it, the set of anchored roots. *)
(***************************************************************************)
EXTENDS MerkleTree

CONSTANTS Path,             \* the file names, numbered in the order of the walk
          Content,          \* the digests of the contents a file may have
          LeafValue(_, _),  \* pathLeaf's 32-byte value for a path and a content
          MaxEdits,         \* how often a file is written, renamed or removed
          MaxAnchored,      \* how many roots are anchored
          MaxTamper,        \* how many fields of an artifact are changed
          None

ASSUME PathLeafAssumption ==
  /\ Path \subseteq Nat /\ Content \subseteq Nat
  /\ \A p, q \in Path, c, d \in Content :
       /\ LeafValue(p, c) \in Nat
       /\ LeafValue(p, c) = LeafValue(q, d) => p = q /\ c = d

VARIABLES dir,        \* the working tree: the content of each file that exists
          job,        \* the running vh command, if any
          anchored,   \* the roots the registry holds, each with the entries it was built from
          artifact,   \* the proof file
          output,     \* what the step just taken reported to the user, if anything
          edits, tampered

dirVars == <<dir, job, anchored, artifact, output, edits, tampered>>

Idle == [pc |-> "idle"]

isAnchored(root) == \E a \in anchored : a.root = root

pathLeaf(relPath, contentHash) == Digest(LeafValue(relPath, contentHash))

\* hashEntries: the leaves in the order of the walk, which sorting makes irrelevant.
leavesOf(entries) ==
  LET leaves == {pathLeaf(e[1], e[2]) : e \in entries}
  IN  CHOOSE s \in [1 .. Cardinality(entries) -> leaves] :
        \A leaf \in leaves : \E k \in DOMAIN s : s[k] = leaf

hashEntries(entries) == buildTree(leavesOf(entries))

\* leafFor and proofFor: the file is looked up by its path in the sorted tree.
buildProof(entries, target) ==
  LET content == (CHOOSE e \in entries : e[1] = target)[2]
      leaf    == pathLeaf(target, content)
      sorted  == sortedLeaves(leavesOf(entries))
      index   == (CHOOSE k \in DOMAIN sorted : sorted[k] = leaf) - 1
  IN  [root |-> Root(hashEntries(entries)), leaf |-> leaf, contentHash |-> content,
       relPath |-> target, proof |-> proofForIndex(hashEntries(entries), index)]

\* What vh prove reports.
Proved(built, accepted) == [cmd |-> "prove", built |-> built, accepted |-> accepted]

DirInit ==
  /\ dir \in UNION {[S -> Content] : S \in SUBSET Path}
  /\ job = Idle
  /\ anchored = {}
  /\ artifact = None
  /\ output = None
  /\ edits = 0
  /\ tampered = 0

-----------------------------------------------------------------------------
(***************************************************************************)
(* The working tree is edited at any time.                                 *)
(***************************************************************************)
WriteFile(p, c) ==
  /\ edits < MaxEdits /\ edits' = edits + 1
  /\ dir' = [q \in DOMAIN dir \cup {p} |-> IF q = p THEN c ELSE dir[q]]
  /\ output' = None
  /\ UNCHANGED <<job, anchored, artifact, tampered>>

RemoveFile(p) ==
  /\ edits < MaxEdits /\ edits' = edits + 1
  /\ p \in DOMAIN dir
  /\ dir' = [q \in DOMAIN dir \ {p} |-> dir[q]]
  /\ output' = None
  /\ UNCHANGED <<job, anchored, artifact, tampered>>

RenameFile(p, q) ==
  /\ edits < MaxEdits /\ edits' = edits + 1
  /\ p \in DOMAIN dir /\ p # q
  /\ dir' = [x \in (DOMAIN dir \ {p}) \cup {q} |-> IF x = q THEN dir[p] ELSE dir[x]]
  /\ output' = None
  /\ UNCHANGED <<job, anchored, artifact, tampered>>

(***************************************************************************)
(* Hashing: listFiles names the files first, then each one is read.        *)
(***************************************************************************)
Hashing(cmd, target, dryRun, anchorFirst) ==
  [pc |-> "reading", cmd |-> cmd, todo |-> DOMAIN dir, got |-> {}, target |-> target,
   dryRun |-> dryRun, anchorFirst |-> anchorFirst, built |-> None]

\* An empty directory is an error.
vhAnchor ==
  /\ job = Idle
  /\ dir # <<>>
  /\ job' = Hashing("anchor", None, FALSE, FALSE)
  /\ output' = None
  /\ UNCHANGED <<dir, anchored, artifact, edits, tampered>>

\* The target must be a file of the directory when the command starts.
vhProve(target, dryRun, anchorFirst) ==
  /\ job = Idle
  /\ target \in DOMAIN dir
  /\ dryRun => ~anchorFirst
  /\ job' = Hashing("prove", target, dryRun, anchorFirst)
  /\ output' = None
  /\ UNCHANGED <<dir, anchored, artifact, edits, tampered>>

\* vh verify <dir>, which needs no key.
vhVerify ==
  /\ job = Idle
  /\ dir # <<>>
  /\ job' = Hashing("verify", None, FALSE, FALSE)
  /\ output' = None
  /\ UNCHANGED <<dir, anchored, artifact, edits, tampered>>

\* The next file of the walk.  One that is gone by now makes the command fail.
ReadFile(p) ==
  /\ job.pc = "reading"
  /\ p \in job.todo /\ \A q \in job.todo : p <= q
  /\ job' = IF p \in DOMAIN dir
            THEN [job EXCEPT !.todo = @ \ {p}, !.got = @ \cup {<<p, dir[p]>>}]
            ELSE Idle
  /\ output' = None
  /\ UNCHANGED <<dir, anchored, artifact, edits, tampered>>

HashDone == job.pc = "reading" /\ job.todo = {}

\* vh anchor, and the anchoring leg of vh prove --anchor, which ends the command when the
\* registry already holds the root (AlreadyAnchored).
SubmitRoot ==
  /\ HashDone
  /\ job.cmd \in {"anchor", "prove_anchor"}
  /\ LET root == Root(hashEntries(job.got))
     IN  IF isAnchored(root)
         THEN job' = Idle /\ UNCHANGED anchored
         ELSE /\ Cardinality(anchored) < MaxAnchored
              /\ anchored' = anchored \cup {[root |-> root, entries |-> job.got]}
              /\ job' = IF job.cmd = "anchor" THEN Idle ELSE [job EXCEPT !.pc = "checking"]
  /\ output' = None
  /\ UNCHANGED <<dir, artifact, edits, tampered>>

\* getRecord: NotAnchored is a MISMATCH.
VerifyDone ==
  /\ HashDone
  /\ job.cmd = "verify"
  /\ output' = [cmd |-> "verify", entries |-> job.got,
                status |-> IF isAnchored(Root(hashEntries(job.got))) THEN "MATCH" ELSE "MISMATCH"]
  /\ job' = Idle
  /\ UNCHANGED <<dir, anchored, artifact, edits, tampered>>

\* buildProof has hashed the directory: --dry-run writes the artifact, --anchor hashes again.
ProofBuilt ==
  /\ HashDone
  /\ job.cmd = "prove"
  /\ LET built == buildProof(job.got, job.target)
     IN  \/ /\ job.dryRun
            /\ artifact' = built /\ tampered' = 0
            /\ output' = Proved(built, FALSE)
            /\ job' = Idle
         \/ /\ ~job.dryRun /\ job.anchorFirst
            /\ job' = IF dir = <<>> THEN Idle
                      ELSE [job EXCEPT !.cmd = "prove_anchor", !.todo = DOMAIN dir,
                                       !.got = {}, !.built = built]
            /\ output' = None /\ UNCHANGED <<artifact, tampered>>
         \/ /\ ~job.dryRun /\ ~job.anchorFirst
            /\ job' = [job EXCEPT !.pc = "checking", !.built = built]
            /\ output' = None /\ UNCHANGED <<artifact, tampered>>
  /\ UNCHANGED <<dir, anchored, edits>>

\* isAnchored, then verifyLeaf, then the artifact: a root that is not anchored is an error.
CheckOnChain ==
  /\ job.pc = "checking"
  /\ LET b == job.built
     IN  IF isAnchored(b.root)
         THEN /\ output' = Proved(b, verifyLeaf(b.root, b.leaf, b.proof))
              /\ artifact' = b /\ tampered' = 0
         ELSE output' = None /\ UNCHANGED <<artifact, tampered>>
  /\ job' = Idle
  /\ UNCHANGED <<dir, anchored, edits>>

(***************************************************************************)
(* The artifact is an untrusted container.  It is changed between two      *)
(* commands: no command but verify-proof reads it.                         *)
(***************************************************************************)
Nodes == UNION {LET layers == hashEntries(a.entries)
                IN  UNION {{layers[l][k] : k \in DOMAIN layers[l]} : l \in DOMAIN layers} :
                  a \in anchored}

Tamper ==
  /\ artifact # None /\ job = Idle
  /\ tampered < MaxTamper /\ tampered' = tampered + 1
  /\ \/ \E p \in Path : artifact' = [artifact EXCEPT !.relPath = p]
     \/ \E c \in Content : artifact' = [artifact EXCEPT !.contentHash = c]
     \/ \E p \in Path, c \in Content : artifact' = [artifact EXCEPT !.leaf = pathLeaf(p, c)]
     \/ \E v \in Nodes : artifact' = [artifact EXCEPT !.leaf = v]
     \/ \E a \in anchored : artifact' = [artifact EXCEPT !.root = a.root]
     \/ \E k \in 0 .. Len(artifact.proof) :
          artifact' = [artifact EXCEPT !.proof = SubSeq(@, k + 1, Len(@))]
  /\ output' = None
  /\ UNCHANGED <<dir, job, anchored, edits>>

\* Mutant: the leaf is taken from the file, not derived from path and content again.
offlineOkTrusting(a) == Fold(a.leaf, a.proof) = a.root

\* recomputeFold: the leaf is derived again, and the proof folded from it.
offlineOk(a) == /\ a.leaf = pathLeaf(a.relPath, a.contentHash)
                /\ Fold(a.leaf, a.proof) = a.root

\* Without a provider the verdict stays REJECTED, however well the artifact folds.
vhVerifyProof(provider) ==
  /\ artifact # None /\ job = Idle
  /\ LET a == artifact
         root == Fold(a.leaf, a.proof)
         status == IF ~offlineOk(a) \/ ~provider THEN "REJECTED"
                   ELSE IF ~isAnchored(root) THEN "NOT_ANCHORED"
                   ELSE IF verifyLeaf(root, a.leaf, a.proof) THEN "ACCEPTED" ELSE "REJECTED"
     IN  output' = [cmd |-> "verify-proof", provider |-> provider, status |-> status]
  /\ UNCHANGED <<dir, job, anchored, artifact, edits, tampered>>

-----------------------------------------------------------------------------
DirNext ==
  \/ \E p \in Path : RemoveFile(p) \/ ReadFile(p)
  \/ \E p \in Path, c \in Content : WriteFile(p, c)
  \/ \E p, q \in Path : RenameFile(p, q)
  \/ vhAnchor \/ vhVerify
  \/ \E p \in Path, dryRun, anchorFirst \in BOOLEAN : vhProve(p, dryRun, anchorFirst)
  \/ SubmitRoot \/ VerifyDone \/ ProofBuilt \/ CheckOnChain
  \/ Tamper
  \/ \E provider \in BOOLEAN : vhVerifyProof(provider)

DirSpec == DirInit /\ [][DirNext]_dirVars
-----------------------------------------------------------------------------
(***************************************************************************)
(* Properties.                                                             *)
(***************************************************************************)
\* A root stands for one set of path and content pairs: vh verify reports MATCH exactly when the
\* files it read, names and contents, are the files some anchoring command read, whatever the
\* sizes of the two trees, and however a file was renamed, swapped or edited in between.
VerifyExact ==
  (output # None /\ output.cmd = "verify") =>
    (output.status = "MATCH" <=> \E a \in anchored : a.entries = output.entries)

\* What vh verify-proof accepts was anchored: some directory whose root the registry holds had a
\* file of that path with that content, whichever field of the artifact was changed on its way
\* and whatever became of the working tree.
AcceptedWasAnchored ==
  (output # None /\ output.cmd = "verify-proof" /\ output.status = "ACCEPTED") =>
    \E a \in anchored : <<artifact.relPath, artifact.contentHash>> \in a.entries

\* An artifact nobody changed is never called a forgery: with a provider it is accepted, or its
\* root is not anchored.
GenuineNotRejected ==
  (output # None /\ output.cmd = "verify-proof" /\ output.provider /\ tampered = 0) =>
    output.status = IF isAnchored(artifact.root) THEN "ACCEPTED" ELSE "NOT_ANCHORED"

\* vh prove reports a proof as accepted only for a root the registry holds, built from entries
\* that include the file, also when --anchor hashed the directory a second time after an edit.
ReportedRootAnchored ==
  (output # None /\ output.cmd = "prove" /\ output.accepted) =>
    \E a \in anchored : /\ a.root = output.built.root
                        /\ <<output.built.relPath, output.built.contentHash>> \in a.entries
=============================================================================
