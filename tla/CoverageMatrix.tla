--------------------------- MODULE CoverageMatrix ---------------------------
(***************************************************************************)
(* What the generators of the e-invoice package compute: the matrix of     *)
(* rules against the official Schematron artifacts, its page, the          *)
(* remediation catalog, the CII parity list, the syntax-binding catalog,   *)
(* the audit, the exports and the attestation (coverage.py,                *)
(* syntax_binding.py, gen_*.py).                                           *)
(*                                                                         *)
(* s is a source tree, a record of what the generators read that is not    *)
(* generated:                                                              *)
(*   core, deUbl, deCii, pepUbl, pepCii   the rule registries, sets of ids *)
(*   proven     [ubl, cii], the ids each differential leg grades           *)
(*   title, flag, frames   of each rule; the texts with a German rendering *)
(*   cen, kosit            [ubl, cii], the vendored artifacts;             *)
(*   cenSource             the CEN sources of the UBL one                  *)
(*   vacuous, codelist, ciiDeferred, ublReason, defects                    *)
(*                         the curated tables of exclusions and reasons    *)
(*   grammar, claimed      what the syntax-binding evaluator compiles, and *)
(*                         the CII asserts an earlier rule claims          *)
(*   audited               the classified known-open ids                   *)
(*   notes, openNotes      the credit-note cases, the known-open ones      *)
(*   suite, rest           the documents of the test suite, the rest of    *)
(*                         the corpus                                      *)
(*   version, api, samples the package, its signatures, the example reports*)
(* An artifact is a sequence of rules [context, asserts], an assert        *)
(* [id, flag, test, german]; its text is <<its id, its test>>.  Prose and  *)
(* layout are left out, a digest is what it digests, and an order by id    *)
(* makes a list of a set, so it is left out too.                           *)
(***************************************************************************)
EXTENDS Naturals, FiniteSets, Sequences

CONSTANTS
    Family,       \* of an assert id: core, cius, extension, cvd-tmp, peppol or binding
    Canonical,    \* the rule an assert id belongs to
    CiiOnly,      \* the rules source_key takes from the CII artifact
    TestTokens    \* the tokens classify looks for in a test

Bindings == {"ubl", "cii"}

\* The content of a file that is not there, and of one cut short.
Absent == [state |-> "absent"]
Torn == [state |-> "torn"]
Whole(content) == content # Torn /\ content # Absent

----------------------------------------------------------------------------
\* The registries and the artifacts

EngineFireable(s) == s.core \cup s.deUbl \cup s.deCii \cup s.pepUbl \cup s.pepCii
DeRules(s, b) == IF b = "ubl" THEN s.deUbl ELSE s.deCii
PepRules(s, b) == IF b = "ubl" THEN s.pepUbl ELSE s.pepCii

Places(artifact) == UNION {{<<r, a>> : a \in DOMAIN artifact[r].asserts} : r \in DOMAIN artifact}
Precedes(p, q) == p[1] < q[1] \/ (p[1] = q[1] /\ p[2] <= q[2])

\* The first assert of an id wins; one without an id is not indexed.
AssertIndex(artifact) ==
    LET at(p) == artifact[p[1]].asserts[p[2]]
        named == {p \in Places(artifact) : at(p).id # ""}
        those(id) == {p \in named : at(p).id = id}
        first(same) == CHOOSE p \in same : \A q \in same : Precedes(p, q)
        entry(p) == [flag |-> IF at(p).flag = "" THEN "fatal" ELSE at(p).flag,
                     test |-> at(p).test, text |-> <<at(p).id, at(p).test>>,
                     german |-> at(p).german, context |-> artifact[p[1]].context,
                     vacuous |-> at(p).test = "true()"]
    IN [id \in {at(p).id : p \in named} |-> entry(first(those(id)))]

Indexed(artifact, families) == {id \in DOMAIN AssertIndex(artifact) : Family[id] \in families}
BrFamilies == {"core", "cius", "extension", "cvd-tmp"}
KositFamilies == {"cius", "extension", "cvd-tmp"}

----------------------------------------------------------------------------
\* The rule table

Severity(flag) == IF flag = "fatal" THEN "fatal" ELSE "warning"

\* A Peppol rule that only the CII registry has is not a row.
MatrixIds(s) == s.core \cup s.deUbl \cup s.deCii \cup s.pepUbl

RuleTable(s) ==
    LET ubl(id) == id \in s.proven.ubl /\ id \notin s.deCii \ s.deUbl
        cii(id) == id \in s.proven.cii
        syntax(id) == IF cii(id) /\ (ubl(id) \/ id \in s.deUbl \cup s.pepUbl) THEN "both"
                      ELSE IF cii(id) THEN "cii" ELSE "ubl"
    IN [id \in MatrixIds(s) |->
          [title |-> s.title[id], family |-> Family[id], syntax |-> syntax(id),
           severity |-> Severity(s.flag[id]), flag |-> s.flag[id],
           proof |-> [ubl |-> ubl(id), cii |-> cii(id)]]]

----------------------------------------------------------------------------
\* Exclusions, gap and families

\* An id both CEN artifacts ship as test="true()", and nothing else accounts for.
Tautologies(artifact) ==
    LET index == AssertIndex(artifact) IN {id \in DOMAIN index : index[id].vacuous}
OfficialTautologies(s) ==
    {id \in Tautologies(s.cen.ubl) \cap Tautologies(s.cen.cii) : Family[id] \in BrFamilies}
      \ (EngineFireable(s) \cup s.vacuous \cup s.codelist)

DeliberateExclusions(s) == s.vacuous \cup s.codelist \cup OfficialTautologies(s)

Gap(s, b) ==
    LET index == AssertIndex(s.cen[b])
        universe == Indexed(s.cen[b], BrFamilies)
        missing == universe \ (MatrixIds(s) \cup DeliberateExclusions(s))
    IN [universe |-> Cardinality(universe),
        implemented |-> Cardinality(universe \cap MatrixIds(s)),
        excluded |-> Cardinality(universe \cap DeliberateExclusions(s)),
        fireableMissing |-> Cardinality({id \in missing : ~index[id].vacuous}),
        others |-> Cardinality(DOMAIN index \ universe),
        missing |-> {<<id, index[id]>> : id \in missing}]

GapOverlaps(s) ==
    \E b \in Bindings :
        Indexed(s.cen[b], BrFamilies) \cap MatrixIds(s) \cap DeliberateExclusions(s) # {}

KositExcluded(s, b) ==
    IF b = "ubl" THEN {}
    ELSE s.ciiDeferred \cup {id \in s.deUbl \ s.deCii : Family[id] = "extension"}

KositFireable(s, b) == Indexed(s.kosit[b], KositFamilies) \ Tautologies(s.kosit[b])
KositImplemented(s, b) == {id \in DeRules(s, b) : Family[id] \in KositFamilies}

\* An id the artifact does not carry, one on both sides, one on neither.
KositAborts(s) ==
    \E b \in Bindings :
        \/ ~(KositImplemented(s, b) \subseteq Indexed(s.kosit[b], KositFamilies))
        \/ KositFireable(s, b) \cap KositImplemented(s, b) \cap KositExcluded(s, b) # {}
        \/ ~(KositFireable(s, b) \subseteq KositImplemented(s, b) \cup KositExcluded(s, b))

KositGap(s, b) ==
    LET universe == Indexed(s.kosit[b], KositFamilies) IN
    [universe |-> Cardinality(universe), tautologies |-> universe \ KositFireable(s, b),
     implemented |-> KositFireable(s, b) \cap KositImplemented(s, b),
     excluded |-> KositFireable(s, b) \cap KositExcluded(s, b)]

\* The Peppol rules KoSIT ships: the CII artifact may split one over two asserts.
PeppolUniverse(s, b) == {Canonical[id] : id \in Indexed(s.kosit[b], {"peppol"})}

PeppolFamily(s) ==
    LET row(b) == [asserts |-> Indexed(s.kosit[b], {"peppol"}),
                   implemented |-> PeppolUniverse(s, b) \cap PepRules(s, b),
                   open |-> Cardinality(PeppolUniverse(s, b) \ PepRules(s, b))]
        all == PeppolUniverse(s, "ubl") \cup PeppolUniverse(s, "cii")
        listed(id, b) == {<<a, AssertIndex(s.kosit[b])[a]>> :
                             a \in {x \in Indexed(s.kosit[b], {"peppol"}) : Canonical[x] = id}}
    IN [ubl |-> row("ubl"), cii |-> row("cii"), implemented |-> s.pepUbl \cup s.pepCii,
        worklist |-> {[id |-> id, ubl |-> listed(id, "ubl"), cii |-> listed(id, "cii")] :
                         id \in all \ (s.pepUbl \cup s.pepCii)}]

CvdTmpRules(s, b) == {id \in DeRules(s, b) : Family[id] = "cvd-tmp"}
CvdTmpFamily(s) ==
    LET fam(b) == Indexed(s.kosit[b], {"cvd-tmp"})
        row(b) == [asserts |-> {<<id, AssertIndex(s.kosit[b])[id]>> : id \in fam(b)},
                   implemented |-> fam(b) \cap CvdTmpRules(s, b),
                   open |-> Cardinality(fam(b) \ CvdTmpRules(s, b))]
        implemented == CvdTmpRules(s, "ubl") \cup CvdTmpRules(s, "cii")
        listed(id, b) == IF id \in fam(b) THEN {AssertIndex(s.kosit[b])[id]} ELSE {}
    IN [ubl |-> row("ubl"), cii |-> row("cii"), implemented |-> implemented,
        worklist |-> {[id |-> id, ubl |-> listed(id, "ubl"), cii |-> listed(id, "cii")] :
                         id \in (fam("ubl") \cup fam("cii")) \ implemented}]

\* The engine against the verdicts the credit-note corpus states of itself; a case is
\* [scope, wants, fires].
CreditNotes(s) ==
    LET graded == {c \in s.notes : c.scope \in s.core}
    IN [total |-> Cardinality(s.notes), graded |-> Cardinality(graded),
        agree |-> Cardinality({c \in graded : c.wants = c.fires}),
        rules |-> Cardinality({c.scope : c \in graded}), open |-> s.openNotes]

\* The German messages the matrix counts, in the catalog it finds (load_catalog).
GermanMessages(catalog) ==
    [official |-> Cardinality({id \in DOMAIN catalog.rules : catalog.rules[id].message # <<>>}),
     total |-> Cardinality(DOMAIN catalog.rules)]

MatrixAborts(s, catalog) ==
    \/ \E id \in s.core \ s.proven.ubl : id \notin s.ublReason
    \/ ~Whole(catalog)
    \/ \E id \in DOMAIN catalog.rules :
          ~(catalog.rules[id].message # <<>> <=> catalog.rules[id].origin = "kosit")
    \/ GapOverlaps(s) \/ KositAborts(s)
    \/ \E b \in Bindings : ~(PepRules(s, b) \subseteq PeppolUniverse(s, b))
    \/ \E b \in Bindings : ~(CvdTmpRules(s, b) \subseteq Indexed(s.kosit[b], {"cvd-tmp"}))

Matrix(s, catalog) ==
    [rules |-> RuleTable(s), count |-> Cardinality(MatrixIds(s)),
     german |-> GermanMessages(catalog), notes |-> CreditNotes(s),
     vacuous |-> s.vacuous, tautologies |-> OfficialTautologies(s), codelist |-> s.codelist,
     deferred |-> s.ciiDeferred, considered |-> DeliberateExclusions(s),
     gap |-> [b \in Bindings |-> Gap(s, b)], kosit |-> [b \in Bindings |-> KositGap(s, b)],
     peppol |-> PeppolFamily(s), cvd |-> CvdTmpFamily(s)]

----------------------------------------------------------------------------
\* The syntax-binding asserts: syntax_binding.py, and who evaluates them

\* The shape of a test, by the first of the patterns that it contains.
Shape(test) ==
    LET has(token) == token \in TestTokens[test] IN
    CASE has("count(") -> "cardinality-count"
      [] ~has("count(") /\ has("datatype") -> "datatype-regex"
      [] ~has("count(") /\ ~has("datatype") /\ has("not(") -> "absence-restriction"
      [] TestTokens[test] \cap {"count(", "datatype", "not("} = {}
         /\ (has("exists(") \/ (has("group") /\ ~has("operator"))) -> "existence"
      [] OTHER -> "other-complex"
Shapes == {"cardinality-count", "datatype-regex", "absence-restriction", "existence",
           "other-complex"}

BindingAsserts(s, b) ==
    LET artifact == s.cen[b]
        at(p) == artifact[p[1]].asserts[p[2]]
    IN {[place |-> p, id |-> at(p).id, binding |-> b, context |-> artifact[p[1]].context,
         test |-> at(p).test, flag |-> IF at(p).flag = "" THEN "fatal" ELSE at(p).flag,
         shape |-> Shape(at(p).test)] :
            p \in {q \in Places(artifact) : at(q).id # "" /\ Family[at(q).id] = "binding"}}

Accounting(entries) ==
    [total |-> Cardinality(entries),
     shapes |-> [x \in {e.shape : e \in entries} |->
                    Cardinality({e \in entries : e.shape = x})]]

BindingCatalog(s) ==
    [entries |-> BindingAsserts(s, "ubl") \cup BindingAsserts(s, "cii"),
     accounting |-> [b \in Bindings |-> Accounting(BindingAsserts(s, b))]]

\* The entries of one binding that the evaluator accounts for; of the UBL asserts those of
\* the class other-complex are in no class of it.
CatalogEntries(catalog, b) ==
    {e \in (IF Whole(catalog) THEN catalog.entries ELSE {}) :
        e.binding = b /\ (b = "cii" \/ e.shape # "other-complex")}

\* Implemented: the context and the test compile, and no earlier rule claims the nodes.
ImplementedEntries(s, catalog, b) ==
    {e \in CatalogEntries(catalog, b) : /\ <<e.context, e.test>> \in s.grammar
                                        /\ b = "cii" => e.id \notin s.claimed}
ImplementedIds(s, catalog, b) == {e.id : e \in ImplementedEntries(s, catalog, b)}
KnownOpen(s, catalog) ==
    UNION {CatalogEntries(catalog, b) \ ImplementedEntries(s, catalog, b) : b \in Bindings}

----------------------------------------------------------------------------
\* COVERAGE.md

Glance(matrix) ==
    LET rows(field, value) == Cardinality({id \in DOMAIN matrix.rules :
                                              matrix.rules[id][field] = value})
    IN [total |-> Cardinality(DOMAIN matrix.rules), german |-> matrix.german,
        syntax |-> [x \in {"both", "ubl", "cii"} |-> rows("syntax", x)],
        severity |-> [x \in {"fatal", "warning"} |-> rows("severity", x)],
        fireableMissing |-> matrix.gap.ubl.fireableMissing + matrix.gap.cii.fireableMissing,
        tautologies |-> matrix.tautologies]

ExclusionSections(matrix) ==
    [vacuous |-> matrix.vacuous, tautologies |-> matrix.tautologies,
     codelist |-> matrix.codelist, deferred |-> matrix.deferred]

FamilySections(matrix) ==
    [considered |-> matrix.considered, gap |-> matrix.gap,
     peppol |-> matrix.peppol, cvd |-> matrix.cvd]

\* The section on CII parity: left out when cii_parity.json is not there.
ParitySection(parity) ==
    IF parity = Absent THEN <<>>
    ELSE LET of(class) == {e \in parity.entries : e.class = class} IN
         [listed |-> Cardinality(parity.entries),
          fireable |-> Cardinality(of("cii-fireable")),
          defective |-> {e.id : e \in of("cii-artifact-defective")},
          carried |-> {e.id : e \in {x \in of("binding-inapplicable") : x.carried}},
          absent |-> {e.id : e \in {x \in of("binding-inapplicable") : ~x.carried}}]

\* The accounting is read from the artifacts, the classes from the catalog on disk.
BindingSection(s, catalog) ==
    LET class(b, shape) ==
            LET entries == {e \in CatalogEntries(catalog, b) : e.shape = shape} IN
            [implemented |-> {e.id : e \in entries \cap ImplementedEntries(s, catalog, b)},
             open |-> {<<e.id, e.test, e.context>> :
                          e \in entries \ ImplementedEntries(s, catalog, b)},
             total |-> Cardinality(entries)]
    IN [accounting |-> BindingCatalog(s).accounting,
        implemented |-> [b \in Bindings |-> Cardinality(ImplementedIds(s, catalog, b))],
        rules |-> Cardinality(EngineFireable(s)),
        classes |-> [b \in Bindings |-> [shape \in Shapes |-> class(b, shape)]]]

\* Mutant: load_cii_parity opens a file that is not there.
PageNeedsParity(parity, bindings) == ~Whole(parity) \/ bindings = Torn

PageAborts(parity, bindings) == parity = Torn \/ bindings = Torn

Page(s, matrix, parity, bindings) ==
    [glance |-> Glance(matrix), rules |-> matrix.rules, notes |-> matrix.notes,
     exclusions |-> ExclusionSections(matrix), families |-> FamilySections(matrix),
     parity |-> ParitySection(parity), bindings |-> BindingSection(s, bindings)]

----------------------------------------------------------------------------
\* remediation_catalog.json

\* The assert a rule's wording is taken from; the last of the merged artifacts that has
\* the id wins.
Wording(s) ==
    LET xr == AssertIndex(s.kosit.ubl)
        core == AssertIndex(s.cenSource)
        cii == AssertIndex(s.kosit.cii)
        record(id, index, artifact) == [text |-> index[id].text, german |-> index[id].german,
                                        context |-> index[id].context, artifact |-> artifact]
    IN [id \in DOMAIN xr \cup DOMAIN core \cup DOMAIN cii |->
          IF id \in DOMAIN xr THEN record(id, xr, "kosit")
          ELSE IF id \in DOMAIN core THEN record(id, core, "cen") ELSE record(id, cii, "kosit")]

SourceKey(id) ==
    IF id \in CiiOnly THEN "xrechnung-cii"
    ELSE IF Family[id] \in KositFamilies \cup {"peppol"} THEN "xrechnung-ubl"
    ELSE "en16931-ubl"

\* What the rule requires, in English: the docstring of a national rule, the assert of another.
Requires(s, words, id) == IF id \in s.deUbl \cup s.deCii THEN s.title[id] ELSE words[id].text

OfficialGerman(words, id) == words[id].german /\ Family[id] # "peppol"

\* No assert, no title in the matrix on disk, no German rendering, German that is not KoSIT's.
Unworded(s, matrix, words) ==
    \E id \in EngineFireable(s) :
        \/ id \notin DOMAIN words
        \/ id \notin DOMAIN matrix.rules
        \/ ~OfficialGerman(words, id) /\ Requires(s, words, id) \notin s.frames
        \/ OfficialGerman(words, id) /\ words[id].artifact # "kosit"
CatalogAborts(s, matrix) == ~Whole(matrix) \/ Unworded(s, matrix, Wording(s))

CatalogEntry(s, words, id, title) ==
    [title |-> title, requires |-> Requires(s, words, id),
     location |-> words[id].context, severity |-> s.flag[id],
     source |-> SourceKey(id), assert |-> words[id].text,
     german |-> IF OfficialGerman(words, id) THEN words[id].text
                ELSE <<"translated", Requires(s, words, id)>>,
     origin |-> IF OfficialGerman(words, id) THEN "kosit" ELSE "translation",
     message |-> IF OfficialGerman(words, id) THEN words[id].text ELSE <<>>]

Catalog(s, matrix) ==
    LET words == Wording(s)
    IN [rules |-> [id \in EngineFireable(s) |->
                     CatalogEntry(s, words, id, matrix.rules[id].title)]]

----------------------------------------------------------------------------
\* cii_parity.json

\* The CII artifacts in order: CEN, then KoSIT.
CiiCarrier(s, id) ==
    IF id \in DOMAIN AssertIndex(s.cen.cii) THEN AssertIndex(s.cen.cii)[id]
    ELSE IF id \in DOMAIN AssertIndex(s.kosit.cii) THEN AssertIndex(s.kosit.cii)[id] ELSE Absent

UblOnly(matrix) == {id \in DOMAIN matrix.rules : matrix.rules[id].syntax = "ubl"}

\* defects: of a rule, "tautology" or the marker its CII context must still carry.
DefectHolds(kind, entry) ==
    IF kind = "tautology" THEN entry.vacuous ELSE entry.context = kind

ParityAborts(s, matrix) ==
    \/ ~Whole(matrix)
    \/ \E id \in UblOnly(matrix) \cap DOMAIN s.defects :
          LET entry == CiiCarrier(s, id) IN
          entry # Absent /\ ~DefectHolds(s.defects[id].kind, entry)

Parity(s, matrix) ==
    LET entry(id) ==
            LET carrier == CiiCarrier(s, id) IN
            [id |-> id, family |-> matrix.rules[id].family, carried |-> carrier # Absent,
             class |-> IF carrier = Absent THEN "binding-inapplicable"
                       ELSE IF id \in DOMAIN s.defects THEN s.defects[id].class
                       ELSE "cii-fireable",
             evidence |-> IF carrier # Absent /\ id \in DOMAIN s.defects
                          THEN <<carrier.context, carrier.test>> ELSE <<>>]
    IN [entries |-> {entry(id) : id \in UblOnly(matrix)}]

----------------------------------------------------------------------------
\* known_open_audit.json, export/, RULES.md

AuditAborts(s, matrix, bindings) ==
    \/ ~Whole(matrix) \/ ~Whole(bindings)
    \/ {e.id : e \in KnownOpen(s, bindings)} # s.audited
    \/ matrix.notes.open # {} \/ matrix.peppol.worklist # {} \/ matrix.cvd.worklist # {}

Audit(s, bindings) ==
    [entries |-> {<<e.id, e.binding, e.shape, e.test, e.context>> : e \in KnownOpen(s, bindings)}]

ProvenIn(row) == {b \in Bindings : row.proof[b]}
ExportAborts(matrix, catalog, bindings) ==
    \/ ~Whole(matrix) \/ ~Whole(catalog) \/ ~Whole(bindings)
    \/ \E id \in DOMAIN matrix.rules :
          ProvenIn(matrix.rules[id]) #
            (IF matrix.rules[id].syntax = "both" THEN Bindings ELSE {matrix.rules[id].syntax})
    \/ Cardinality(DOMAIN matrix.rules) # matrix.count

ExportedRules(matrix, catalog) ==
    [rules |-> [id \in DOMAIN matrix.rules |->
        [row |-> [x \in DOMAIN matrix.rules[id] \ {"flag"} |-> matrix.rules[id][x]],
         remedy |-> IF id \in DOMAIN catalog.rules      \* the fix is worded from requires
                    THEN <<catalog.rules[id].title, catalog.rules[id].requires>> ELSE <<>>]]]

ExportedCoverage(s, matrix, bindings) ==
    [rules |-> Cardinality(DOMAIN matrix.rules),
     bindings |-> [b \in Bindings |->
         [proven |-> Cardinality(ImplementedIds(s, bindings, b)),
          total |-> bindings.accounting[b].total]],
     universes |-> [b \in Bindings |->
         [x \in {"universe", "implemented", "excluded", "fireableMissing"} |-> matrix.gap[b][x]]]]

\* api_contract.json: the public signatures; examples/: the report of every sample invoice.
ApiContract(s) == [names |-> s.api]
Examples(s) == [reports |-> s.samples]

RulesPage(catalog) ==
    LET rules == catalog.rules
        of(f) == {id \in DOMAIN rules : Family[id] = f}
        graded(x) == {id \in DOMAIN rules : rules[id].severity = x}
    IN [sections |-> [f \in {Family[id] : id \in DOMAIN rules} |-> {<<id, rules[id]>> : id \in of(f)}],
        severities |-> [x \in {"fatal", "warning", "information"} |-> Cardinality(graded(x))]]

----------------------------------------------------------------------------
\* testsuite_conformance.json, sbom/bom.json, attestation.json

\* A document of the suite is [path, syntax, markers, accepted, fatal], markers those its
\* customization id contains.
Guideline(d) ==
    IF "extension" \in d.markers THEN "xrechnung-3.0-extension"
    ELSE IF "cvd" \in d.markers THEN "xrechnung-cvd"
    ELSE IF "ends in xrechnung_3.0" \in d.markers THEN "xrechnung-3.0"
    ELSE IF "xrechnung_3.0" \in d.markers THEN "other-xrechnung-guideline" ELSE "unknown"
ScopeClass(d) ==
    IF d.syntax \notin {"UBL", "CII"} THEN "unsupported-syntax"
    ELSE CASE Guideline(d) = "xrechnung-3.0-extension" -> "extension-guideline-out-of-scope"
           [] Guideline(d) = "xrechnung-cvd" -> "cvd-guideline-out-of-scope"
           [] Guideline(d) = "xrechnung-3.0" -> "in-scope-plain-cius"
           [] OTHER -> "unsupported-guideline"
DocumentRecord(d) ==
    [path |-> d.path, syntax |-> d.syntax, guideline |-> Guideline(d), scope |-> ScopeClass(d),
     accepted |-> d.accepted, fatal |-> d.fatal,
     reason |-> IF d.accepted THEN <<>> ELSE <<ScopeClass(d), d.fatal>>]

Suite(s) ==
    LET docs == {DocumentRecord(d) : d \in s.suite}
        scoped(syntax) == {d \in docs : d.scope = "in-scope-plain-cius" /\ d.syntax = syntax}
        tally(syntax) == [total |-> Cardinality(scoped(syntax)),
                          accepted |-> Cardinality({d \in scoped(syntax) : d.accepted})]
    IN [documents |-> docs, ubl |-> tally("UBL"), cii |-> tally("CII"),
        outOfScope |-> Cardinality({d \in docs : d.scope # "in-scope-plain-cius"})]

\* The digest of a vendored tree stands for its paths and bytes.
Corpora == {"cen-en16931", "xrechnung-schematron", "xrechnung-testsuite"}
CorpusDigest(s, name) ==
    CASE name = "cen-en16931" -> <<s.cen, s.cenSource, s.notes, s.rest>>
      [] name = "xrechnung-schematron" -> <<s.kosit, s.rest>>
      [] name = "xrechnung-testsuite" -> <<s.suite, s.rest>>

Sbom(s) == [version |-> s.version, components |-> [c \in Corpora |-> CorpusDigest(s, c)]]

RulesSection(exported) ==
    LET rules == exported.rules
        families == {rules[id].row.family : id \in DOMAIN rules}
    IN [count |-> Cardinality(DOMAIN rules),
        families |-> [f \in families |->
                         Cardinality({id \in DOMAIN rules : rules[id].row.family = f})],
        bindings |-> UNION {ProvenIn(rules[id].row) : id \in DOMAIN rules}]
CoverageSection(coverage) == [rules |-> coverage.rules, bindings |-> coverage.bindings]
SuiteSection(suite) == [ubl |-> suite.ubl, cii |-> suite.cii]

AttestationAborts(rules, coverage, suite, sbom, attested) ==
    \/ ~Whole(rules) \/ ~Whole(coverage) \/ ~Whole(suite) \/ ~Whole(sbom)
    \/ \E f \in DOMAIN attested : attested[f] = Absent
    \/ DOMAIN sbom.components = {}

\* attested: the trust artifacts as they are on disk, byte for byte.
Attestation(s, rules, coverage, suite, sbom, attested) ==
    [version |-> s.version, rules |-> RulesSection(rules), coverage |-> CoverageSection(coverage),
     suite |-> SuiteSection(suite), corpus |-> sbom.components, artifacts |-> attested]
=============================================================================
