# A verification project for verifyhash

verifyhash anchors content hashes on a chain, binds them to their authors by
commit and reveal, proves that a file belongs to an anchored directory, and
builds a non-transferable reputation on top.  Beside it lives `einvoice/`, a
validator of electronic invoices whose rules are compared with the official
Schematron by a differential harness; it is most of the repository's Python.
This directory holds TLA+ specifications of both, the TLC configurations that
check them on small instances, and proofs, checked by TLAPS for every instance,
about the contracts, their clients and readers, the hashes and seals, the XML
intake, the parallel gate and the generated files beside it.  `PROJECT.json` lists
components, runs, hazards, theorems and findings, and the source lines each
definition stands for.

## The system

| part | state | operations | what is hard |
| --- | --- | --- | --- |
| `contracts/ContributionRegistry.sol` | records by digest, the insertion order, an index per contributor, pending commitments, event logs | `anchor`, `anchorWithParent`, `commit`, `reveal`, `revealWithParent`; paged readers; `verifyLeaf` | accounts racing for a digest, the maturation window, edges to records that must exist, indexes that must agree |
| `contracts/ReputationSBT.sol`, `ReputationGate.sol`, `cli/core/reputation-points.js` | minted digests, points per account, a total | `mint`, `mintBatch`, `requireReputation`, `autoHonor`; the same points recomputed off chain | a batch that fails in the middle, several copies of one number |
| `cli/claim.js`, `cli/receipt.js` | a process, its salt, a receipt file, transactions in the mempool | `vh commit`, `vh reveal`, `vh claim` | crashes between sending and saving, retries, copied transactions, an off-by-one between node and contract |
| `cli/list.js`, `cli/reputation.js`, `cli/lineage.js` | what has been read so far | page by page walks of the registry | transactions mined between two pages, nodes behind each other |
| `cli/hash.js`, `prove.js`, `proof.js`, `anchor.js`, `verify.js` | a working tree, a proof artifact, the anchored roots | `vh anchor`, `vh verify`, `vh prove`, `vh verify-proof` | a tree edited while it is hashed; an artifact that anybody may have changed |
| `verifier-py/verify_vh.py` | a directory, a sealed artifact | verify a seal, an issuer, a revocation, `--exact-dir` | edits and links between two reads; key recovery |
| `einvoice/_xmlsec.py`, `pdf_container.py` | a stack of open elements; objects and trailers of a PDF | build a tree within bounds; extract the invoice of a hybrid PDF | off-by-one bounds, incremental updates, tokens of several spellings |
| `einvoice/parser*.py`, `rules*.py`, `codelists.py`, `validate.py` | none between invoices | parse UBL or CII, run some 350 rules over two syntaxes and three layers | two parsers that must agree, nine near copies of the VAT rules, rounding |
| `einvoice/syntax_binding*.py` | none | compile XPath tests, match contexts through an index | node-set comparisons, the order in which rules claim a node |
| `einvoice/report.py`, `remediation.py`, `cli.py`, `config.py`, `receipt.py`, `action/run.py` | a process, its temporary and output files | nine report formats, batch and diff reports, the baseline gate, exit codes, the CI action | files rewritten between two reads, signals, many ways to say one verdict |
| `einvoice/differential.py` | a verdict cache with deltas, a pool of workers | generate mutations, grade them with two validators, compare | two gates on one cache, killed processes, a cache key that misses an input |
| `einvoice/verify_live.py` | findings so far | compare a served site with the committed one | a deploy under way |
| `einvoice/gen_*.py`, `coverage.py`, `verify_attestation.py`, `test_determinism.py` | the generated files of the package | twelve generators, the check that they reproduce, the attestation and its verifier | generators that read each other's output, a death between two writes, a file taken from another revision |
| `cli/journal*.js`, `cli/core/agent-*.js`, `cli/core/fulfill-intake.js`, licenses, revocations, seals, `trustledger/` | event chains, issued licenses, closed periods | append, seal, record, issue, reconcile | truncated files, repeated deliveries, times |

The registry is the shared state of the first half.  The token and the gate read
it by calls in the same transaction; the client writes to it by transactions
that wait in a mempool; readers and provers query it by calls that are answered
at different moments.  In the second half the data flow in one direction:
container, tree, invoice model, findings, report, exit code.  What is shared
there is files, which others rewrite, the generated files, which generators compute from
one another, and the cache directory of the harness.

## Modules

### Registry, reputation and clients

`ContributionRegistry` is the contract: one action per external function that
writes, `NewBlock` for the chain's clock, the paged readers as operators.  A call
that reverts changes nothing, so the `require`s and `revert`s are the guards.
`keccak256` is an injective constructor: a commitment *is* the triple of what it
hashes, which other accounts do not take apart.  `uri` is dropped; nothing reads
it.  `RegistryLedger` says what the registry promises without its layout: an
append-only sequence of entries with distinct digests, parents among the earlier
entries, and author-bound entries claimed beforehand.  `ImplementsLedger`
instantiates it with the sequence read off `hashByIndex` and the claims read off
the `Committed` events.

`ReputationSBT` extends the registry with token, gate and off-chain projection.
`mintBatch` is one action, as a transaction is; `mintLoop` is the loop of the code.
`ClaimCli` puts the client in front of the registry: a process that may crash
between any two of its awaits, a receipt whose writing takes two steps, a mempool
everybody reads, gas estimation against the last mined or the pending block, and
an account that does whatever it can with what it has seen.
`RegistryReaders` interleaves the three walks with the registry's actions, every
call answered by the chain as it is, or by a node that is a prefix behind.

`MerkleTree` has the tree, its proofs and the fold, each as the loop of the code: a
layer is pushed as long as the last one has several nodes, and an index halved on
every layer.  `DirectoryProofs` has the
commands: listing and reading the files are separate steps, edits happen between
any two, and a field of the artifact is changed before it is verified.
`SealVerify` is the Python verifier: arguments, artifact, one read per entry with
its confinement check, the scan of `--exact-dir`, and the decision with its text
and JSON surfaces, on a directory that is edited, linked and renamed meanwhile.
`EcRecover` is its elliptic curve, with the curve as a parameter.

### Invoices

`Documents` is what an invoice says, independent of syntax, and the edits an
author makes.  `InvoiceModel` builds from it what each of the two parsers hands to
the rules.  Amounts are thousandths of a unit, so that two decimals, three
decimals and every rounding differ; codes are listed, unlisted or padded with
blanks.  `CoreRules`, `VatRules`, `XRechnungRules` and `PeppolRules` have one
operator per rule or per family of rules that the code writes out by hand, each
the set of rule identifiers it fires, and `Validate` the layers and the verdict.
`UblMutations` and `CiiMutations` are the harness's generated invoices: each
mutation with the rule it is made for, as an edit of a base.  `MCInvoice` says
what an accepted invoice is worth, and that every mutation bites.

`DiffGate` is the parallel gate: parents and workers as processes, shards, slots,
the cache with its deltas, its temporary name and its salt; the two validators
are arbitrary verdicts per document, and per version of the sources for ours
(`GateCorpus`).  A replayed verdict is looked up at its key (`KeptAt`).  `Reports` and `ReportSurfaces` are the
reports as the findings, ranks and counts each format carries, and the baseline
gate; `Escapes` the three annotation escapings on strings.  `Cli` is the console
script from arguments and configuration to the exit code, with one step per read
and per write, signals between them and files rewritten meanwhile.  A handler only
decides on an `answer`; writing it (`FillBuffer`: a full buffer leaves early), the
`finally` clause (`Return`) and the `Flush` of `main` are steps of their own, and a
signal or a reader that has gone (`BrokenPipe`) may come between any two, so that
stdout is left with nothing, a part or all of the document.  `ActionRun` is
the CI action with a child process per file and format.  `XmlIntake` is the parser
handlers with their bounds and the insertion points; `PdfContainer` the container
and its tokenizer; `SyntaxBinding` the compiled
assertions beside an XPath semantics written down independently (`XTrue`).
`VerifyLive` is the deployment check, one GET a step, against a server that is
being copied to.

`CoverageMatrix` is what the generators compute, as functions of a source tree `s`,
a record of the rule registries, the curated tables, the vendored artifacts and the
corpora.  Prose and layout are left out, and a digest is what it digests.
`TrustArtifacts` has the files: `surface` maps each to its content, which may be
absent or torn, and `writer` is the generator that runs.  `Start` reads everything
and has all texts, as each `main` does before its first write; `Open` truncates a
target, `Close` completes it, and the attestation goes through a temporary file.
Between runs the sources are edited and a single file is taken from another
revision or removed; a run may be killed at any step.  `gen_coverage` reads the
remediation catalog and `gen_remediation` the matrix, so `Rebuilt` runs the
generators in an order with repetitions.  Two simplifications: one generator runs
at a time, and the corpora are always there.

### Model-checking modules

An `MC*` module gives a specification its finite sets.  `MCClaimCli`,
`MCLaggingReaders` and `MCDiffGate` check one specification each; `ReputationSBT`,
with the registry in it, is checked as it is.  `MCProofs`, `MCReports`, `MCIntake` and
`MCReleases` check components that do not act on each other in one state space: a
variable `part` names the component that runs, chosen initially, each action is
guarded by its part, and the variables of the others stay empty.  A behaviour is
thus one of a single component, and nothing is lost but the product, which would
say nothing more.  `MCInvoice` has a `topic` in the same role.  `MCProofs`,
`MCReleases` and, for the parser, `MCIntake` keep the constants of their components
open, for the proofs; their configurations close them.

Operators commented as mutants are plausible mistakes; replacing the definition
they stand below by each of them makes TLC find the property listed with it in
`PROJECT.json` violated.

## Runs

| run | bounds | shows |
| --- | --- | --- |
| `reputation` | two accounts, two digests, four blocks, batches of up to two with duplicates | author-bound records were committed to beyond the delay and opened by nobody else; storage, indexes and logs are one ledger, which implements `RegistryLedger`; every point stands for one record, batches are atomic, the oracle agrees |
| `claim` | a user and another account, one salt, two crashes, a predecessor that is anchored at any time, six blocks, reveals that wait for the window or do not | a receipt on the disk opens a commitment and leads to an anchored digest (liveness); failures explain themselves; who keeps to commit and reveal never loses an edge; a copier is too late |
| `claim_one_shot` | `vh claim --parent --receipt`, one crash, `vh reveal` | finding 1 |
| `readers` | three digests, pages of two, walks of two hops, calls through one node or through lagging ones | what is reported is a prefix, a path, a consistent score; through lagging nodes still the account's first records and one chain |
| `proofs` | three names, two contents, one edit, two roots, one changed field; two sealed files among four places, links, one edit, one changed field or signature, all argument orders of interest; a curve of order 31 over 43 elements | acceptance means that what was anchored or sealed is what was read; what is genuine is accepted; rejections are true; recovery returns the signer |
| `seal_linked` | the same, the directory reached by a link | finding 2 |
| `invoice` | six topics (below), one to three edits each | an accepted invoice adds up and a cent off in a total, a tax total or a line is caught; verdicts do not depend on order or syntax; the national layers leave nothing half specified; every generated mutation bites |
| `diff_gate` | two gates at once on one version of the sources, two legs, two shards, one fault | the cache is a memo of live runs; a gate's report is exact and grades each invoice once |
| `releases` | gates one after the other over an edit of the sources, one fault; a site of an index, three rule pages, a two-file engine, two stale files, one copied during the check; twelve generators and their sixteen files over three revisions of the sources, one edit, one generator run, possibly killed | cached verdicts are about the tree they are replayed for and survive crashes; PASS means the committed bytes; files that reproduce are what the sources say, an attestation that verifies pins what is there, a rebuild gets there unless two files block each other; every check ends (liveness) |
| `reports` | two files of a dozen contents, all formats, languages, thresholds; two rewrites; hundreds of command lines and configurations, signals; texts of four characters | formats agree; a captured baseline only tightens; exit codes mean the verdict, and a verdict code comes with the whole document; artifact and console back the exit; texts come back; no temporary file stays |
| `report_syntax_binding` | the same | finding 3 |
| `intake` | PDF files with two incremental updates; texts of three bytes in every spelling; XML streams of ten events under bounds of three levels and four elements; every document of four elements over the assertion grammar; orders of rules | the invoice in force is extracted; tokens are read back; a tree is the document; insertion points lead on; compiled assertions and claiming agree with XPath and Schematron |

The bounds are small because the interesting cases need little: a race needs two
accounts, the delay one block less and one more, a page boundary one record more
than a page, a lone Merkle node three leaves, a lost verdict one killed process
and another gate, a stale read one rewrite between two reads.  An XPath test of
the grammar relates at most three elements below the root; a bound of three
levels and four elements is reached, exceeded and, after closing an element,
reached again.  The topics of `invoice` are `totals` (start documents whose lines,
charges and VAT balance; one document total, tax total or line net amount moved, not those of rows or allowances), `categories` (all nine VAT categories
on lines, allowances and rows, two edits), `shapes` (every optional element
absent, empty, padded or repeated, in both syntaxes), `german`, `peppol` and
`catalog`.  One edit per rule input is enough where a rule is a function of one
element; where rules only together imply a property, the bound is two or three.
Edits, blocks, crashes, rewrites, faults, copies and lengths are capped by
constants named `Max...` that occur in guards.  `claim` has one salt: with two, the
last block of the instance comes before the second commitment can mature, and
the liveness property would fail for want of blocks.

Deadlock is not checked: a capped chain ends, a command ends, a user may run no
more commands.

### Fairness

Two runs state it.  `claim`: a process that is alive goes on, miners include the
user's transactions and add blocks, the named predecessor is anchored at some
time, and the user runs `vh reveal` while there is a receipt, as the documents
tell them to.  `releases`: the operating system runs each parent and each worker
that is not killed, and a GET answers or times out (`verify_live.py` gives
`urlopen` a timeout).  All of it is weak.  Crashes, kills, edits, copies and the
steps of other accounts are not fair, and a run whose parent was killed need
not end.

## Findings

1. `vh claim --parent P --receipt f` writes a receipt without `P`
   (`cli/claim.js:790`).  Resumed after a crash it anchors the digest without its
   edge, and a record is immutable.
2. `verify_vh.py:318` compares an unresolved path with the resolved base: a genuine
   sealed directory that is reached by a symbolic link is refused.
3. A batch whose only fatal is a syntax-binding finding exits 0
   (`report.py:685`), where `REPORT-SCHEMA.md:95` says that such a finding drives
   a nonzero exit code.

The modules state further promises of comments and documents that the models do
not keep.  They are not among the runs; each is shown violated by adding the
named property of its instance to the checks of the component.

| property | module | what the code does |
| --- | --- | --- |
| `RevealedByRegistrant` | `ContributionRegistry` | any account can register a commitment, the one bound in it reveals; the comment at `ContributionRegistry.sol:132` speaks of the registrant |
| `SaltDurable` | `ClaimCli` | `vh commit` writes its receipt after the commit is mined (`cli/claim.js:504-536`): a crash in between loses the salt |
| `ListHasNoHole`, `InteriorIsPresent` | `RegistryReaders` | a short page from a lagging node is followed by the next full one (`cli/list.js:64`); a missing interior parent ends a walk as if complete (`cli/lineage.js:180`) |
| `LineSumAsOfficial` | `MCInvoice`, topic `mills` | BR-CO-10 rounds the stated sum too (`rules.py:1241`), so 10.004 passes for 10.00 |
| `CacheIsMemo` with `EditWhileGrading = TRUE`, `Overlapping = FALSE`, `MaxVersion = 2` | `DiffGate` | the salt is taken after the package was imported (`differential.py:799`), so an edit in between stores old verdicts under the new salt |
| `FailsAsEntrypoint` | `ActionRun` | the action counts SARIF levels, which carry no syntax-binding findings (`run.py:468`) |
| `FormatKeepsExit` | `Cli` | with `--format` a PDF's container findings count for `--fail-on`, without it they do not (`cli.py:1206`) |
| `BatchNeverCrashes` | `Cli` | an unreadable batch member ends the process with a traceback (`report.py:648`) |
| `ReparseNeverFails`, `ReceiptIsAboutItsHash` | `Cli` | a file is read twice (`cli.py:2120`, `receipt.py:93`) and may be rewritten in between |
| `SignalLeavesNoTemp` | `Cli` | a signal between `mkstemp` and the `try` leaves the file (`cli.py:1944`) |
| `DescendantIsEvery` | `SyntaxBinding` | `//X` never selects the document element (`syntax_binding_eval.py:294`) |
| `XrefStreamRefused`, `BodyForgesNothing`, `NeverPartial` | `PdfContainer` | the last `trailer` and the first `endstream` are found by searching for the words (`pdf_container.py:1076`, `1026`, `1057`) |
| `StagingCanPass` | `VerifyLive` | with another origin the expected tags change and the expected bytes do not (`verify_live.py:690`) |

Where such a promise is false, the property that is checked is the one that
still holds: what `PayloadIsRead` says of extraction is about files as ordinary
writers produce them (`OrdinaryFile`), `ArtifactBacksExit` about what the action's
own artifact says,
`TempIsRemoved` about every exit from inside the guarded region, `ExitMeansVerdict`
about the codes 0, 1, 2 and 3: after 130, 141 and 143 there may be a part of a document
on stdout, or all of it, and `EXIT-CODES.md` promises only that nothing further is
written.  `FiresAsOfficial` compares the asserts with the official claiming on those
orders of rules in which no rule takes only some of the elements of a later one
(`NoPartialClaim`): the detector of shadowed asserts knows no other shape
(`syntax_binding_eval.py:1370`) and leaves a future one to the differential gate.
`RebuildsUnlessStuck` is about files that do not block each other (`Stuck`): with the
matrix and the packaged catalog torn, `gen_coverage` cannot read what `gen_remediation`
would write, nor the reverse, and no run of a generator ends that.

## Proofs

Seven modules hold theorems about the specifications, and `InductionLemmas` what
several of them need.  They hold for every value of the constants that satisfies
the assumptions named beside them.

| module | theorems | for any |
| --- | --- | --- |
| `ContributionRegistryProofs` | `TypeCorrect`, `Enumeration`, `Lineage`, `AppendOnly`, `AuthorBound`, `OpenedByBound`, `LedgerExact`, `Refinement` | accounts, digests, salts, blocks and timestamps |
| `ReputationSBTProofs` | `RegistryUntouched`, `Audited`, `NeverTaken`, `Backed` | the same, thresholds, batches of any length |
| `ClaimCliProofs` | `ClientOfRegistry`, `ReceiptUsable`, `CopiersAreLate`, `EdgeSurvives` | crashes, retries, salts and whatever the other account copies |
| `ReadersProofs` | `SyncedExact`, `LaggingSound` | page sizes, depths, records, lag of each node |
| `DiffGateProofs` | `ReplayIsLive`, `ShardsAddUp`, `VersionsApart`, `NoVerdictIsLost`, `VerdictOfTheSite`, `ReproducedMeansTrue`, `RebuildConverges` | corpora, legs, shards, cores, versions, faults, verdicts of the validators; sites, older states of their files, copies during the check, failed GETs; revisions of the sources, edits, generator runs and deaths |
| `FileProofs` | `RootBinds`, `ProofSound`, `ProofComplete`, `AcceptedAnchored`, `SealGenuine`, `SealClosed`, `SealTruthful` | lists of leaves, proofs of any length; paths, contents, edits, roots, changed fields, argument lists |
| `XmlProofs` | `BuiltIsTheDocument`, `InsertionNeverGuesses` | tags, bounds on depth and count, documents; catalogs, reported rules, any number of insertions |

The assumptions: `ZeroAssumption` (the zero hash and address are no digest and no
account) and number types in the registry and the token; in `ClaimAssumption`
that user and copier are two accounts and the predecessor another digest; in
`GateCorpus` that the corpus is finite, its legs light or heavy and a verdict the
one of its document; in `PathLeafAssumption` and `SealAssumption` that the hash of
a path and a content tells them apart, that there is something to seal, and that
places inside a directory are none outside; in `SiteParts` and `SiteBodies` what a
tree consists of and that files with other bytes have another `build`; in
`SiteIsInOrder` that the committed tree passes the checker's own tests, as the tree
the generator writes does; in `ReleasesBuild` that no generator aborts on a committed
revision whose own files are in place; in `DocumentAssumption` that the bounds are
numbers and an element is named unlike the marks of the other events; in
`PathAssumption` that a catalog path is a sequence of steps and every reported rule has
a catalog entry.  TLC evaluates them in every run that uses them.

Four theorems about the gate have a hypothesis of their own.  `ReplayIsLive` and
`ShardsAddUp` are about `StillSpec`, in which the sources stand still.
`VersionsApart` and `NoVerdictIsLost` let them be edited, any number of times, but
between gates (`~EditWhileGrading`); an edit under a running gate breaks the first
(see Findings).  `NoVerdictIsLost` has one gate at a time (`~Overlapping`): of two
that consolidate at once the later one replaces the other's `cache.json`.

The arguments.

- *The registry.*  Every writing function leaves the storage alone or writes
  exactly one record (`StepWritesAtMostOneRecord`).  A new record stays out of the
  way of the old ones only if positions and records are in bijection: `LedgerInv`
  adds the enumeration and the order of the edges to the types, and `ExactInv` the
  order of the blocks, the index per account and the logs.  `AuthorBoundCommitted`
  becomes inductive with `PendingLogged`: a pending commitment has its event with
  the same block.  For the refinement, a write appends one entry to the mapped
  sequence, `commit` is a claim or a stutter, `NewBlock` a stutter.
- *The token.*  `SBTInv`: an account's points are the number of its minted digests,
  which are author-bound; `BackedInv`: what the event log replays to, and what an
  off-chain reading of the records gives, is that number.  The loops of the code
  are followed from a function that satisfies their equations (`IsLoop`).
- *The client.*  `ReceiptInv` says at each step of a process what its salt, its
  receipt and its transactions in the mempool are worth; it is the strengthening
  that lets `ReceiptServes` survive a crash at any await.  `OthersLate` dates every
  commitment another account can have made by the broadcast of the reveal;
  `EdgeInv` carries the predecessor.  The chain itself takes registry steps only
  (`ClientOfRegistry`), which brings the registry's theorems in.
- *The readers.*  `DatedInv`: a node's answers are those of a prefix; `ReaderInv`: what
  was gathered so far is that of a prefix no longer than any node that answers
  next, or, through lagging nodes, a chain of records that exist.
- *The gate.*  `GateInv` has the types, what a worker holds of its shard
  (`WorkersInv`) and what a parent has merged (`ParentsInv`): every key in the
  cache, in a delta, in a temporary file and in a process's memory carries the
  verdict of a live run.  Exactness sums cardinalities of disjoint shards
  (`SumOfCardinalities`).  `OneGate` adds that gates follow one another, for
  `NoVerdictIsLost`.
- *The served site.*  `LiveInv`: as long as nothing was found, a file that is not the
  committed one still has the GET ahead that decides about it (`PendingInv`), the
  engine's after the manifest's (`ManifestFirst`), and the manifest that was read
  is the committed one (`DigestInv`): a manifest without a difference is that one
  (`ManifestIsRead`).  Copies only ever bring committed files, so the bytes of a
  file that was right when it was read are right at the end.
- *The generated files.*  `ArtInv`: the sources are a revision, and every file, as well
  as every text a generator is about to write, is torn, absent, or of a shape some run
  writes (`Sound`).  The matrix depends on the catalog only through its German
  messages, the catalog on the matrix only through its titles, so a fixed point is the
  one the sources determine (`ReproducedMeansTrue`), and from any state that is not
  stuck two rounds of parity list, matrix and catalog reach it; the rest is computed
  from these in the order of `RebuildOrder` (`Agrees` is the set of files that are right
  so far).  A state that is stuck stays so under every generator (`StuckStays`).
- *Trees and directories.*  `buildTree` makes a tower of layers, each of the members of
  the one below (`LayersFacts`); its sort permutes the leaves (`SortedFacts`).  The
  domain tags give every value a height, so that from equal roots down the members
  of the layers are equal, whatever the sizes (`TreesBind`), and a proof of any
  length ends in a leaf (`FoldedLeaf`).  `DirInv` says which walk every anchored root
  came from and what an artifact holds that nobody changed; with it every answer
  is true (`DirSays`).
- *Seals.*  `SealInv` is `GenuineInv` (what the producer sealed, and that an unedited
  directory holds it), `CarriedInv` (what became of the artifact on its way: a
  signature by the producer is on the genuine seal) and `RunInv`: the classes of a
  run, matched, changed, missing and escaped, are true of the directory as long
  as nobody edited it since the run began, and the listing of `--exact-dir` holds, or
  is still to hold, whatever was there before and after an edit.  TLC checked it
  on every state of the `proofs` instance before it was proved.
- *The intake.*  `XmlInv` says what the tree, the stack and the line counter are of the
  events read so far (`Parsed`), though the parser never looks back at them: the
  k-th element is the one of the k-th start tag.  For the insertion points, `TreeInv`:
  what was built is a tree with every parent before its children, and whatever was
  inserted last led on to its place.  The walk down a path and the reached sets of the
  definition go together round by round (`WalkFollows`, `Rounds`), and a new last
  element changes neither for the elements before it (`InsertedLeadsOn`).

Induction over the steps of a loop is done with sets instead of predicates: the
indices at which a fact holds are a set that contains the first and with each
index the next (`IntervalInduction`, `InductionFromOne`).  It reaches recursive
functions over an interval, hence the loops above.

Only model-checked:

- liveness, since fairness and `ENABLED` are out of the prover's reach:
  `ReceiptLeadsToRecord`, `EveryCheckEnds`;
- the invoice rules, parsers and mutations (`AcceptedAddsUp`, `OneCentIsCaught`,
  `VerdictIsIndependent`, `LayersHold`, `CatalogBites`), whose modules sum and scan by
  folds over the lists of an invoice;
- `SignerIsRecovered`, which would need the group law of a curve;
- the reports and the console script (`SurfacesAgree`, `RatchetTightens`,
  `ArtifactBacksExit`, `ExitMeansVerdict`, `TempIsRemoved`, `TextSurvivesEscaping`), and the
  rest of the intake (`PayloadIsRead`, `FiresAsOfficial`): scanners and evaluators that
  recurse over texts, documents and expressions.

## What the models leave out

Cryptography is an injective constructor, except for the key recovery, which is
computed on a small curve.  Texts are classes that the rules tell apart: a regular
expression is the set of classes it accepts, a code list one listed and one
unlisted code per distinction.  Wording, layout, markup and namespaces are left
out, and of the parsers the order of elements inside a group.  The Schematron
processor, zlib, the web server and the CI runner are external.

Smaller simplifications, where a module is coarser than the code:

- `Cli`: errors of a write to stdout other than a broken pipe, a second signal, and a
  signal during the interpreter's own shutdown;
- `DiffGate.DumpMerged`: two parents that write through the one temporary name leave
  the merge of one of them or a file that does not parse, never a splice of both that
  does;
- `PdfContainer`: objects are found by number, generations are dropped
  (`pdf_container.py:1102`), and the bytes of a string are not decoded, as UTF-16BE
  or otherwise (`pdf_container.py:966`);
- `PeppolRules`: the rules on a price hold of credit notes too, but no property looks
  at a credit note under that layer.

Not modelled, by component:

- the journal, agent sessions, webhook fulfilment, licenses, revocations, seals
  and trust ledger, all JavaScript: candidates for later work, in the order below;
- the registry identity preflight: read-only calls ending in a yes or an error;
- command front ends, the verification service, site, scripts and examples:
  argument parsing, formatting and deployment;
- of the e-invoice generators those of the site and of its documents: single processes
  that print from the files `TrustArtifacts` has; the web bundle: a copy of the package, kept equal by
  a test of the repository;
- the JavaScript, Go and Rust verifiers: they re-implement what `SealVerify` models.

## Plan

1. Proofs: of the reports the ratchet and the exit codes.
2. `JournalLog`: the journal's hash chain with a crash in the middle of an append,
   and its RFC 6962 log with inclusion and consistency proofs.
3. `FulfillIntake`: payment events that are lost, repeated and reordered against the
   store of processed events; one license per payment.
4. `TrustAsOf`, `AgentSession`, `TrustLedger`: verdicts as of a time, the session's
   event chain, the chain of closed periods.
