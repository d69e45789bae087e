------------------------------ MODULE Reports ------------------------------
(***************************************************************************)
(* The report document einvoice/report.py builds for one input file, the   *)
(* batch document that wraps many, and the nine formats both are projected *)
(* into.  A file is abstracted to what its bytes hold for the validator:   *)
(*                                                                         *)
(*   kind       xml | notxml | pdf | pdfbroken | pdfopaque | unreadable |  *)
(*              receipt (a JSON receipt, no XML either)                    *)
(*   finds      the violations validate_root returns, per profile          *)
(*   container  the findings about a PDF container (always warnings)       *)
(*   sb         the severities of the syntax-binding findings              *)
(*                                                                         *)
(* A violation is [rule, severity, message, element, line, point]; a rule  *)
(* id is <<prefix, number>>; line and point are 0 when not known, a        *)
(* element is "" when there is none.  A document is kept as what a consumer*)
(* reads from it; markup, wording and escaping (see Escapes) are not here. *)
(***************************************************************************)
EXTENDS Integers, Sequences, FiniteSets, SequencesExt

CONSTANTS
    Catalog,           \* the rules of remediation_catalog.json, each with its German
    BatchRuleListCap   \* how many lines a capped listing shows (_BATCH_RULE_LIST_CAP
                       \* of report.py and _NON_FATAL_LIST_CAP of cli.py)

Profiles == {"en16931", "xrechnung"}
ReportFormats == {"json", "junit", "sarif", "gitlab", "github", "azure",
                  "html", "badge", "text"}
BatchFormats == {"json", "junit", "text"}
OutputFormats == {"text", "json"}

\* remediation.py: an uncatalogued rule gets empty remediation fields.
Catalogued(rule) == rule \in DOMAIN Catalog

\* official_message: only German, only when the catalog has message_de.
OfficialMessage(rule, lang) ==
    IF lang = "de" /\ Catalogued(rule) /\ Catalog[rule].messageDe THEN "de" ELSE "none"

\* resolve_message: the language of the message a human is shown.
ResolveMessage(rule, lang) ==
    IF OfficialMessage(rule, lang) = "de" THEN "de" ELSE "en"

----------------------------------------------------------------------------
\* The single-file report

Record(v) ==
    [rule |-> v.rule, severity |-> v.severity, message |-> v.message,
     field |-> v.element, line |-> v.line, point |-> v.point,
     help |-> Catalogued(v.rule)]

CountOf(records, severity) ==
    Len(SelectSeq(records, LAMBDA r : r.severity = severity))

ErrorReport(source, profile, code) ==
    [source |-> source, profile |-> profile, valid |-> FALSE, error |-> code,
     fatal |-> 0, warning |-> 0, count |-> 0, violations |-> <<>>,
     sbFatal |-> 0, sbWarning |-> 0]

ReportFromViolations(violations, source, profile) ==
    LET records == [i \in DOMAIN violations |-> Record(violations[i])]
        fatal == CountOf(records, "fatal")
    IN [source |-> source, profile |-> profile, valid |-> fatal = 0, error |-> "",
        fatal |-> fatal, warning |-> CountOf(records, "warning"),
        count |-> Len(records), violations |-> records,
        sbFatal |-> 0, sbWarning |-> 0]

\* A PDF's embedded invoice: the container findings join the violations, and
\* there is no syntax-binding section.
ReportFromInvoiceBytes(c, source, profile) ==
    IF c.kind = "pdfbroken"
    THEN ErrorReport(source, profile, "not-well-formed")
    ELSE ReportFromViolations(c.finds[profile] \o c.container, source, profile)

SyntaxBindingSection(c) ==
    LET fatal == Len(SelectSeq(c.sb, LAMBDA s : s = "fatal"))
    IN [fatal |-> fatal, warning |-> Len(c.sb) - fatal]

BuildReport(source, c, profile) ==
    CASE c.kind = "pdfopaque" -> ErrorReport(source, profile, "unsupported-container")
      [] c.kind \in {"pdf", "pdfbroken"} -> ReportFromInvoiceBytes(c, source, profile)
      [] c.kind \in {"notxml", "receipt"} -> ErrorReport(source, profile, "not-well-formed")
      [] c.kind = "xml" ->
            LET r == ReportFromViolations(c.finds[profile], source, profile)
                sb == SyntaxBindingSection(c)
            IN [r EXCEPT !.valid = r.valid /\ sb.fatal = 0,
                         !.sbFatal = sb.fatal, !.sbWarning = sb.warning]

\* report.main: the exit code of a single-file report.
ReportExit(r) ==
    IF r.error # "" THEN 3 ELSE IF r.fatal + r.sbFatal = 0 THEN 0 ELSE 1

----------------------------------------------------------------------------
\* The batch document.  A directory is a sequence of [name, hidden, ext, body]
\* in the order of the sorted walk.

CollectInvoiceFiles(dir) ==
    SelectSeq(dir, LAMBDA f : ~f.hidden /\ f.ext \in {"xml", "pdf"})

SumOf(reports, Get(_)) == FoldLeft(LAMBDA n, r : n + Get(r), 0, reports)

Fails(r) == r.error # "" \/ r.fatal > 0

BuildBatchFromFiles(files, profile) ==
    LET reports == [i \in DOMAIN files |->
                        BuildReport(files[i].name, files[i].body, profile)]
    IN [files |-> reports, count |-> Len(reports),
        fatal |-> SumOf(reports, LAMBDA r : r.fatal),
        warning |-> SumOf(reports, LAMBDA r : r.warning),
        violations |-> SumOf(reports, LAMBDA r : r.count),
        failed |-> Len(SelectSeq(reports, Fails))]

BuildBatch(dir, profile) == BuildBatchFromFiles(CollectInvoiceFiles(dir), profile)

BatchExit(batch) ==
    IF \E i \in DOMAIN batch.files : batch.files[i].fatal > 0 THEN 1
    ELSE IF \E i \in DOMAIN batch.files : batch.files[i].error # "" THEN 3
    ELSE 0

----------------------------------------------------------------------------
\* Text.  The position a human is shown is the line of the finding or, when it
\* has none, the line where the missing element belongs.

Position(v) ==
    IF v.line >= 1 THEN <<"at", v.line>>
    ELSE IF v.point >= 1 THEN <<"insert", v.point>> ELSE <<>>

SeverityRank(s) == CASE s = "fatal" -> 0 [] s = "warning" -> 1 [] s = "information" -> 2

RuleLess(a, b) == a[1] < b[1] \/ (a[1] = b[1] /\ a[2] < b[2])

FindingLess(a, b) ==
    LET ra == SeverityRank(a.severity) rb == SeverityRank(b.severity)
    IN ra < rb \/ (ra = rb /\ RuleLess(a.rule, b.rule))

Capped(s, cap) == SubSeq(s, 1, IF Len(s) < cap THEN Len(s) ELSE cap)
Omitted(s, cap) == IF Len(s) > cap THEN Len(s) - cap ELSE 0

\* A stable sort by FindingLess: where each finding lands, and the result.
SortedFindings(violations) ==
    LET lands == [i \in DOMAIN violations |-> 1 + Cardinality({j \in DOMAIN violations :
                    \/ FindingLess(violations[j], violations[i])
                    \/ ~FindingLess(violations[i], violations[j]) /\ j < i})]
    IN [k \in DOMAIN violations |->
            violations[CHOOSE i \in DOMAIN violations : lands[i] = k]]

Lines(findings, lang) ==
    [i \in DOMAIN findings |->
        [severity |-> findings[i].severity, rule |-> findings[i].rule,
         lang |-> ResolveMessage(findings[i].rule, lang),
         position |-> Position(findings[i])]]

BatchFileFindingLines(r) ==
    LET sorted == SortedFindings(r.violations)
    IN [total |-> Len(sorted), fatal |-> CountOf(sorted, "fatal"),
        shown |-> Lines(Capped(sorted, BatchRuleListCap), "en"),
        omitted |-> Omitted(sorted, BatchRuleListCap)]

\* How many files each rule broke, most frequent first, ties by the gravest
\* severity seen and then by id.
BatchRuleFrequency(batch) ==
    LET hits(rule) == {i \in DOMAIN batch.files :
                          \E v \in ToSet(batch.files[i].violations) : v.rule = rule}
        found == UNION {ToSet(batch.files[i].violations) : i \in DOMAIN batch.files}
        rules == {v.rule : v \in found}
        grave(rule) == CHOOSE k \in 0..2 :
                          /\ \E v \in found : v.rule = rule /\ SeverityRank(v.severity) = k
                          /\ \A v \in found : v.rule = rule => SeverityRank(v.severity) >= k
        before(a, b) ==
            LET na == Cardinality(hits(a)) nb == Cardinality(hits(b))
            IN \/ na > nb
               \/ na = nb /\ grave(a) < grave(b)
               \/ na = nb /\ grave(a) = grave(b) /\ RuleLess(a, b)
    IN [ordered |-> SetToSortSeq(rules, before),
        files |-> [rule \in rules |-> Cardinality(hits(rule))],
        gravest |-> [rule \in rules |-> grave(rule)]]

\* The one --explain line: the first listed rule that is fatal somewhere, else
\* the first listed.
BatchExplainHint(frequency) ==
    LET shown == Capped(frequency.ordered, BatchRuleListCap)
        fatal == SelectSeq(shown, LAMBDA rule : frequency.gravest[rule] = 0)
    IN IF shown = <<>> THEN <<>> ELSE IF fatal # <<>> THEN Head(fatal) ELSE Head(shown)

StatusOf(r) ==
    IF r.error # "" THEN "ERROR" ELSE IF r.fatal > 0 THEN "FAIL" ELSE "PASS"

BatchText(batch) ==
    LET frequency == BatchRuleFrequency(batch)
    IN [files |-> [i \in DOMAIN batch.files |->
                      [status |-> StatusOf(batch.files[i]),
                       block |-> BatchFileFindingLines(batch.files[i])]],
        passed |-> batch.count - batch.failed, failed |-> batch.failed,
        top |-> Capped(frequency.ordered, BatchRuleListCap),
        topOmitted |-> Omitted(frequency.ordered, BatchRuleListCap),
        hint |-> BatchExplainHint(frequency)]

\* The summary `einvoice validate` prints: a pass lists what is not fatal ...
PassText(violations, lang) ==
    [head |-> "PASS", total |-> Len(violations), fatal |-> 0, lead |-> <<>>,
     listed |-> Lines(Capped(violations, BatchRuleListCap), lang),
     omitted |-> Omitted(violations, BatchRuleListCap)]

\* ... and a failure leads with the first fatal finding and lists all the others.
FailText(violations, lang) ==
    LET lead == SelectInSeq(violations, LAMBDA v : v.severity = "fatal")
        others == RemoveAt(violations, lead)
    IN [head |-> "FAIL", total |-> Len(violations), fatal |-> CountOf(violations, "fatal"),
        lead |-> Lines(<<violations[lead]>>, lang),
        listed |-> Lines(Capped(others, BatchRuleListCap), lang),
        omitted |-> Omitted(others, BatchRuleListCap)]

PlainText(violations, lang) ==
    IF CountOf(violations, "fatal") = 0 THEN PassText(violations, lang)
    ELSE FailText(violations, lang)

BuildText(r, lang) == [head |-> StatusOf(r), lines |-> Lines(r.violations, lang)]

----------------------------------------------------------------------------
\* JUnit, SARIF, GitLab, GitHub, Azure and the badge

JUnitSuite(r) ==
    IF r.error # ""
    THEN [tests |-> 1, failures |-> 0, errors |-> 1,
          cases |-> <<[name |-> <<r.error>>, outcome |-> "error"]>>]
    ELSE [tests |-> Len(r.violations), failures |-> r.fatal, errors |-> 0,
          cases |-> [i \in DOMAIN r.violations |->
                        [name |-> r.violations[i].rule,
                         outcome |-> IF r.violations[i].severity = "fatal"
                                     THEN "failure" ELSE "system-out"]]]

JUnitBatch(batch) ==
    LET suites == [i \in DOMAIN batch.files |-> JUnitSuite(batch.files[i])]
    IN [suites |-> suites,
        tests |-> SumOf(suites, LAMBDA s : s.tests),
        failures |-> SumOf(suites, LAMBDA s : s.failures),
        errors |-> SumOf(suites, LAMBDA s : s.errors)]

SarifLevel(severity) ==
    CASE severity = "fatal" -> "error" [] severity = "warning" -> "warning" [] OTHER -> "note"

\* Rule ids in the order they first occur.
FirstOccurrences(ids) ==
    FoldLeft(LAMBDA seen, id : IF Contains(seen, id) THEN seen ELSE Append(seen, id),
             <<>>, ids)

BuildSarif(r) ==
    IF r.error # ""
    THEN [rules |-> <<>>,
          results |-> <<[rule |-> <<r.error>>, level |-> "error", print |-> <<<<r.error>>, "">>,
                         uri |-> "", line |-> 0]>>]
    ELSE [rules |-> FirstOccurrences([i \in DOMAIN r.violations |-> r.violations[i].rule]),
          results |-> [i \in DOMAIN r.violations |->
              LET v == r.violations[i] IN
              [rule |-> v.rule, level |-> SarifLevel(v.severity),
               print |-> <<v.rule, v.field>>,
               uri |-> IF v.field = "" /\ ~v.help THEN "" ELSE r.source,
               line |-> IF v.field = "" /\ ~v.help THEN 0 ELSE v.line]]]

\* Mutant: a parse error is only informational.
GitLabSeverityFatalOnly(severity) ==
    CASE severity = "fatal" -> "major" [] severity = "warning" -> "minor" [] OTHER -> "info"

GitLabSeverity(severity) ==
    CASE severity \in {"fatal", "error"} -> "major" [] severity = "warning" -> "minor"
      [] OTHER -> "info"

BuildGitLab(r) ==
    IF r.error # ""
    THEN <<[check |-> <<r.error>>, severity |-> GitLabSeverity("error"),
            print |-> <<<<r.error>>, r.source, 0>>]>>
    ELSE LET kept == SelectSeq(r.violations, LAMBDA v : v.severity # "information")
         IN [i \in DOMAIN kept |->
                [check |-> kept[i].rule, severity |-> GitLabSeverity(kept[i].severity),
                 print |-> <<kept[i].rule, r.source, kept[i].line>>]]

\* GitHub and Azure annotations; <<>> is the "conformant" comment line.
GithubLevel(severity) == IF severity = "fatal" THEN "error" ELSE "warning"

BuildGithub(r) ==
    IF r.error # ""
    THEN <<[level |-> "error", title |-> <<r.error>>, file |-> r.source, line |-> 0]>>
    ELSE [i \in DOMAIN r.violations |->
            [level |-> GithubLevel(r.violations[i].severity),
             title |-> r.violations[i].rule, file |-> r.source,
             line |-> r.violations[i].line]]

AzureLevel(severity) == IF severity = "fatal" THEN "error" ELSE "warning"

BuildAzure(r) ==
    IF r.error # ""
    THEN <<[type |-> "error", code |-> <<r.error>>, sourcepath |-> r.source, linenumber |-> 0]>>
    ELSE [i \in DOMAIN r.violations |->
            [type |-> AzureLevel(r.violations[i].severity),
             code |-> r.violations[i].rule, sourcepath |-> r.source,
             linenumber |-> r.violations[i].line]]

BuildBadge(r) ==
    CASE r.error # "" -> [color |-> "red", issues |-> 0]
      [] r.error = "" /\ r.fatal > 0 -> [color |-> "red", issues |-> r.fatal]
      [] r.error = "" /\ r.fatal = 0 /\ r.warning > 0 -> [color |-> "yellow", issues |-> r.warning]
      [] OTHER -> [color |-> "brightgreen", issues |-> 0]

----------------------------------------------------------------------------
\* HTML.  Every visible text of a finding has a language, and a mark that says
\* so when it is not the document's.

GermanOf(rule, part) == Catalogued(rule) /\ Catalog[rule][part]

HtmlFinding(v, lang) ==
    LET text(german, present) ==
            [shown |-> present,
             lang |-> IF lang = "de" /\ german THEN "de" ELSE "en",
             marked |-> lang # "en" /\ ~german]
    IN [rule |-> v.rule, severity |-> v.severity,
        title |-> text(GermanOf(v.rule, "titleDe"), v.help \/ GermanOf(v.rule, "titleDe")),
        fix |-> text(GermanOf(v.rule, "fixDe"), v.help \/ GermanOf(v.rule, "fixDe")),
        message |-> [shown |-> TRUE, lang |-> ResolveMessage(v.rule, lang),
                     marked |-> lang # "en" /\ OfficialMessage(v.rule, lang) = "none"],
        link |-> v.help, position |-> Position(v)]

BuildHtml(r, lang) ==
    IF r.error # ""
    THEN [banner |-> "parse-error", findings |-> <<>>, fallbackNote |-> FALSE, nonFatal |-> 0]
    ELSE LET findings == [i \in DOMAIN r.violations |-> HtmlFinding(r.violations[i], lang)]
         IN [banner |-> IF r.valid THEN "pass" ELSE "fail",
             findings |-> findings,
             fallbackNote |-> /\ findings # <<>> /\ lang # "en"
                              /\ \E i \in DOMAIN findings : findings[i].message.marked,
             nonFatal |-> r.count - r.fatal]

\* format_explain: found by exact id or, failing that, case-insensitively; the
\* language of each of its three texts.
FormatExplain(rule, lang) ==
    IF ~Catalogued(rule) THEN <<>>
    ELSE LET pick(part) == IF lang = "de" /\ Catalog[rule][part] THEN "de" ELSE "en"
         IN [title |-> pick("titleDe"), requires |-> ResolveMessage(rule, lang),
             fix |-> pick("fixDe"),
             provenance |-> IF lang = "de" THEN Catalog[rule].source ELSE "",
             offersGerman |-> lang # "de" /\ Catalog[rule].source # "none"
                              /\ (Catalog[rule].titleDe \/ Catalog[rule].fixDe)]

\* The language a document of this format is written in.
DocumentLang(format, lang) == IF format \in {"html", "text"} THEN lang ELSE "en"

\* render_report as the verdict a consumer of the format reads: does it fail?
RenderReport(r, format, lang) ==
    CASE format = "junit" -> JUnitSuite(r).failures + JUnitSuite(r).errors > 0
      [] format = "sarif" -> \E x \in ToSet(BuildSarif(r).results) : x.level = "error"
      [] format = "gitlab" -> \E x \in ToSet(BuildGitLab(r)) : x.severity = "major"
      [] format = "github" -> \E x \in ToSet(BuildGithub(r)) : x.level = "error"
      [] format = "azure" -> \E x \in ToSet(BuildAzure(r)) : x.type = "error"
      [] format = "html" -> BuildHtml(r, DocumentLang(format, lang)).banner # "pass"
      [] format = "badge" -> BuildBadge(r).color = "red"
      [] format = "text" -> BuildText(r, DocumentLang(format, lang)).head # "PASS"
      [] format = "json" -> ~r.valid

RenderBatch(batch, format) ==
    CASE format = "junit" -> JUnitBatch(batch).failures + JUnitBatch(batch).errors > 0
      [] format = "text" -> BatchText(batch).failed > 0
      [] format = "json" -> batch.failed > 0

----------------------------------------------------------------------------
\* The baseline diff: a violation is matched by (rule, field, message, severity)

\* Mutant: the rule is not part of the key.
DiffKeyByField(v) == <<"", v.field, v.message, v.severity>>

DiffKey(v) == <<v.rule, v.field, v.message, v.severity>>

\* The records of s left over when the pool of keys of t is used up from the left.
Unmatched(s, t) ==
    LET used(i) == Cardinality({j \in 1..i : DiffKey(s[j]) = DiffKey(s[i])})
        pool(k) == Cardinality({j \in DOMAIN t : DiffKey(t[j]) = k})
        left == {i \in DOMAIN s : used(i) > pool(DiffKey(s[i]))}
    IN [k \in 1..Cardinality(left) |->
            s[CHOOSE i \in left : Cardinality({j \in left : j <= i}) = k]]

MultisetDiff(current, baseline) ==
    LET fresh == Unmatched(current, baseline)
    IN [new |-> fresh, resolved |-> Unmatched(baseline, current),
        unchanged |-> Len(current) - Len(fresh)]

\* load_baseline and check_baseline_profile: what is refused.  A stored report is
\* a report record; "" is a baseline that declares no profile.
BaselineRefused(baseline, profile) ==
    baseline.profile # "" /\ baseline.profile # profile

BuildDiff(r, baseline) ==
    IF r.error # ""
    THEN [error |-> r.error, new |-> <<>>, resolved |-> <<>>, unchanged |-> 0, newFatal |-> 0]
    ELSE LET d == MultisetDiff(r.violations, baseline.violations)
         IN [error |-> "", new |-> d.new, resolved |-> d.resolved,
             unchanged |-> d.unchanged, newFatal |-> CountOf(d.new, "fatal")]

DiffExit(d) == IF d.error # "" THEN 3 ELSE IF d.newFatal = 0 THEN 0 ELSE 1
============================================================================
