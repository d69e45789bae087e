--------------------------- MODULE TrustArtifacts ---------------------------
(***************************************************************************)
(* The generated files of the e-invoice package and who writes them.  A    *)
(* generator reads the sources and some of the files, aborts or has all    *)
(* its texts, and only then writes its targets one after the other: a      *)
(* plain open("w") leaves a torn file when the process dies, the           *)
(* attestation goes through a temporary file.  gen_coverage reads the      *)
(* packaged remediation catalog, gen_remediation the titles of the matrix: *)
(* each needs what the other wrote.  Between two runs the sources are      *)
(* edited, and a single file is taken from another revision or removed.    *)
(***************************************************************************)
EXTENDS CoverageMatrix

CONSTANTS
    Trees,       \* the revisions of the sources
    Committed,   \* those whose files were committed with them, and reproduce
    MaxEdits,    \* bound on edits, and on files removed or taken from another revision
    MaxRuns,     \* bound on generator runs
    MaxKills     \* bound on killed runs

VARIABLES
    sources,     \* the source tree on disk
    surface,     \* the content of every generated file
    writer,         \* the generator that runs: what is left to write; Idle
    edits, runs, kills

artifactVars == <<sources, surface, writer, edits, runs, kills>>

TargetsOf ==
    [coverage |-> <<"matrix", "page">>,             \* coverage_matrix.json, COVERAGE.md
     remediation |-> <<"catalog", "packaged">>,     \* remediation_catalog.json, twice
     cii_parity |-> <<"parity">>, syntax_binding |-> <<"bindings">>,
     known_open_audit |-> <<"audit">>, api_contract |-> <<"api">>,
     export |-> <<"rules", "coverage">>,            \* export/rules.json, export/coverage.json
     rules_doc |-> <<"rulesPage">>, testsuite_conformance |-> <<"suite">>,
     sbom |-> <<"sbom">>, examples |-> <<"reports">>,
     attestation |-> <<"attestation", "packagedAttestation">>]

Generators == DOMAIN TargetsOf
TargetSet(g) == {TargetsOf[g][i] : i \in DOMAIN TargetsOf[g]}
Files == UNION {TargetSet(g) : g \in Generators}

\* remediation.default_catalog_path: the packaged copy, else the root one.
PackagedCatalog(f) == IF f.packaged = Absent THEN f.catalog ELSE f.packaged

\* TRUST_ARTIFACTS.
Attested(f) == [api |-> f.api, parity |-> f.parity, matrix |-> f.matrix, audit |-> f.audit,
                catalog |-> f.catalog, bindings |-> f.bindings]

Aborts(g, s, f) ==
    CASE g = "coverage" -> MatrixAborts(s, PackagedCatalog(f)) \/ PageAborts(f.parity, f.bindings)
      [] g = "remediation" -> CatalogAborts(s, f.matrix)
      [] g = "cii_parity" -> ParityAborts(s, f.matrix)
      [] g = "known_open_audit" -> AuditAborts(s, f.matrix, f.bindings)
      [] g = "export" -> ExportAborts(f.matrix, f.catalog, f.bindings)
      [] g = "rules_doc" -> ~Whole(PackagedCatalog(f))
      [] g = "attestation" -> AttestationAborts(f.rules, f.coverage, f.suite, f.sbom, Attested(f))
      [] OTHER -> FALSE

\* coverage_matrix.json and the page printed of it.
WithMatrix(s, f, matrix) ==
    [f EXCEPT !.matrix = matrix, !.page = Page(s, matrix, f.parity, f.bindings)]

\* The files once g has written all its targets: what main computes before it writes.
Written(g, s, f) ==
    CASE g = "coverage" -> WithMatrix(s, f, Matrix(s, PackagedCatalog(f)))
      [] g = "remediation" -> [f EXCEPT !.catalog = Catalog(s, f.matrix),
                                        !.packaged = Catalog(s, f.matrix)]
      [] g = "cii_parity" -> [f EXCEPT !.parity = Parity(s, f.matrix)]
      [] g = "syntax_binding" -> [f EXCEPT !.bindings = BindingCatalog(s)]
      [] g = "known_open_audit" -> [f EXCEPT !.audit = Audit(s, f.bindings)]
      [] g = "api_contract" -> [f EXCEPT !.api = ApiContract(s)]
      [] g = "export" -> [f EXCEPT !.rules = ExportedRules(f.matrix, f.catalog),
                                   !.coverage = ExportedCoverage(s, f.matrix, f.bindings)]
      [] g = "rules_doc" -> [f EXCEPT !.rulesPage = RulesPage(PackagedCatalog(f))]
      [] g = "testsuite_conformance" -> [f EXCEPT !.suite = Suite(s)]
      [] g = "sbom" -> [f EXCEPT !.sbom = Sbom(s)]
      [] g = "examples" -> [f EXCEPT !.reports = Examples(s)]
      [] g = "attestation" ->
            LET text == Attestation(s, f.rules, f.coverage, f.suite, f.sbom, Attested(f))
            IN [f EXCEPT !.attestation = text, !.packagedAttestation = text]

\* The files after a run of g that nothing interrupts.
Run(g, s, f) == IF Aborts(g, s, f) THEN f ELSE Written(g, s, f)

\* The order that settles everything: the syntax-binding catalog, then parity list, matrix
\* and remediation catalog in turns, then what is computed from them.
RebuildOrder ==
    <<"syntax_binding", "cii_parity", "coverage", "remediation", "cii_parity", "coverage",
      "remediation", "cii_parity", "coverage", "known_open_audit", "api_contract", "export",
      "rules_doc", "testsuite_conformance", "sbom", "examples", "attestation">>
Rebuilt(s, f) ==
    LET built[k \in 0..Len(RebuildOrder)] ==
            IF k = 0 THEN f ELSE Run(RebuildOrder[k], s, built[k - 1])
    IN built[Len(RebuildOrder)]

\* What the sources alone say every file is.
TrueCatalog(s) == Catalog(s, [rules |-> RuleTable(s)])
TruthOf(s, catalog, matrix, bindings) ==
    LET parity == Parity(s, matrix)
        audit == Audit(s, bindings)
        rules == ExportedRules(matrix, catalog)
        coverage == ExportedCoverage(s, matrix, bindings)
        attestation == Attestation(s, rules, coverage, Suite(s), Sbom(s),
            [api |-> ApiContract(s), parity |-> parity, matrix |-> matrix, audit |-> audit,
             catalog |-> catalog, bindings |-> bindings])
    IN [matrix |-> matrix, page |-> Page(s, matrix, parity, bindings), catalog |-> catalog,
        packaged |-> catalog, parity |-> parity, bindings |-> bindings, audit |-> audit,
        api |-> ApiContract(s), rules |-> rules, coverage |-> coverage, rulesPage |-> RulesPage(catalog),
        suite |-> Suite(s), sbom |-> Sbom(s), reports |-> Examples(s),
        attestation |-> attestation, packagedAttestation |-> attestation]

Truth(s) == TruthOf(s, TrueCatalog(s), Matrix(s, TrueCatalog(s)), BindingCatalog(s))

\* No generator aborts on sources whose own files are in place.
Buildable(s) == \A g \in Generators : ~Aborts(g, s, Truth(s))

----------------------------------------------------------------------------
Idle == [gen |-> "none", out |-> <<>>, left |-> <<>>, open |-> FALSE]

ArtifactsInit ==
    /\ sources \in Committed /\ surface = Truth(sources)
    /\ writer = Idle /\ edits = 0 /\ runs = 0 /\ kills = 0

\* Somebody edits the sources, or checks out another revision of them.
EditSources ==
    /\ writer = Idle /\ edits < MaxEdits
    /\ \E s \in Trees \ {sources} : sources' = s
    /\ edits' = edits + 1
    /\ UNCHANGED <<surface, writer, runs, kills>>

\* One generated file comes from another revision, by a merge or a checkout, or is removed.
TakeOther(x) ==
    /\ writer = Idle /\ edits < MaxEdits
    /\ \E content \in {Truth(s)[x] : s \in Committed \ {sources}} \cup {Absent} :
          surface' = [surface EXCEPT ![x] = content]
    /\ edits' = edits + 1
    /\ UNCHANGED <<sources, writer, runs, kills>>

\* The generator has read everything and has its texts (main, up to its first write).
Start(g) ==
    /\ writer = Idle /\ runs < MaxRuns /\ ~Aborts(g, sources, surface)
    /\ LET new == Written(g, sources, surface)
       IN writer' = [gen |-> g, out |-> [x \in TargetSet(g) |-> new[x]],
                  left |-> TargetsOf[g], open |-> FALSE]
    /\ runs' = runs + 1
    /\ UNCHANGED <<sources, surface, edits, kills>>

\* open(path, "w") truncates; _atomic_write_text opens another file.
Open ==
    /\ writer # Idle /\ ~writer.open
    /\ surface' = IF writer.gen = "attestation" THEN surface
                  ELSE [surface EXCEPT ![Head(writer.left)] = Torn]
    /\ writer' = [writer EXCEPT !.open = TRUE]
    /\ UNCHANGED <<sources, edits, runs, kills>>

\* The file is written whole and closed, or the temporary one takes its place.
Close ==
    /\ writer # Idle /\ writer.open
    /\ surface' = [surface EXCEPT ![Head(writer.left)] = writer.out[Head(writer.left)]]
    /\ writer' = IF Len(writer.left) = 1 THEN Idle
              ELSE [writer EXCEPT !.left = Tail(writer.left), !.open = FALSE]
    /\ UNCHANGED <<sources, edits, runs, kills>>

Killed ==
    /\ writer # Idle /\ kills < MaxKills
    /\ writer' = Idle /\ kills' = kills + 1
    /\ UNCHANGED <<sources, surface, edits, runs>>

ArtifactsNext ==
    \/ EditSources \/ Open \/ Close \/ Killed
    \/ \E x \in Files : TakeOther(x)
    \/ \E g \in Generators : Start(g)

----------------------------------------------------------------------------
\* test_determinism.py: every generator, run again, gives the committed bytes; read from a
\* copy of the tree, so no run sees what another wrote.
Reproduces(g, s, f) ==
    ~Aborts(g, s, f) /\ f = Written(g, s, f)
AllReproduced(s, f) == \A g \in Generators : Reproduces(g, s, f)

\* Mutant: the pinned corpus is not walked again.
VerifyTrusting(s, f) ==
    LET pinned == f.attestation IN
    /\ Whole(pinned) /\ ~Aborts("attestation", s, f)
    /\ Written("attestation", s, f).attestation = pinned
    /\ \A x \in DOMAIN pinned.artifacts : f[x] # Absent /\ f[x] = pinned.artifacts[x]

\* verify_attestation.verify: the attestation recomputed, the corpus walked again, the trust
\* artifacts hashed again.
VerifyPasses(s, f) ==
    LET pinned == f.attestation IN
    /\ Whole(pinned) /\ ~Aborts("attestation", s, f)
    /\ Written("attestation", s, f).attestation = pinned
    /\ \A c \in DOMAIN pinned.corpus : CorpusDigest(s, c) = pinned.corpus[c]
    /\ \A x \in DOMAIN pinned.artifacts : f[x] # Absent /\ f[x] = pinned.artifacts[x]

\* Files that reproduce are the ones their sources determine, though matrix and catalog are
\* each computed from the other and the catalog lies there twice; and an attestation that
\* verifies pins this corpus, this version and the artifacts on disk (test_determinism.py,
\* verify_attestation.py).
PassingMeansTrue ==
    /\ AllReproduced(sources, surface) => surface = Truth(sources)
    /\ VerifyPasses(sources, surface) =>
         LET pinned == surface.attestation IN
         /\ pinned.corpus = [c \in Corpora |-> CorpusDigest(sources, c)]
         /\ pinned.artifacts = Attested(surface) /\ pinned.version = sources.version

\* What gen_coverage cannot get past: it reads the remediation catalog and the parity list,
\* one of them cannot be read, and the generator that would write it anew does not take the
\* matrix on disk, which only gen_coverage writes.
Stuck(s, f) ==
    \/ ~Whole(PackagedCatalog(f))
       /\ (~Whole(f.matrix) \/ ~(EngineFireable(s) \subseteq DOMAIN f.matrix.rules))
    \/ f.parity = Torn /\ ParityAborts(s, f.matrix)

Restored(s, f) == AllReproduced(s, f) /\ VerifyPasses(s, f)

\* Whatever was edited, taken from elsewhere or cut short, the generators bring every file
\* back to what the sources say, unless matrix and catalog, or matrix and parity list, block
\* each other; and then no run of a generator ends that (gen_coverage.py main,
\* gen_remediation.py main, gen_cii_parity.py main).
RebuildsUnlessStuck ==
    writer = Idle /\ sources \in Committed =>
        IF Stuck(sources, surface)
        THEN \A g \in Generators : Stuck(sources, Run(g, sources, surface))
        ELSE Restored(sources, Rebuilt(sources, surface))
=============================================================================
