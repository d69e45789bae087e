--------------------------- MODULE ReportSurfaces ---------------------------
(***************************************************************************)
(* A directory of invoices that people edit, the reports drawn from it in  *)
(* every format, and the baseline ratchet of a build: the stored report is *)
(* replaced only by a run that `--baseline` let through.                   *)
(***************************************************************************)
EXTENDS Reports

CONSTANTS
    Names,      \* the files of the directory, a sequence
    Bodies      \* the contents a file may have

VARIABLES
    bodies,     \* what each file holds
    profile,    \* the profile this directory is validated with
    stored,     \* the baseline report of the first file
    origin      \* history: the report the ratchet started from

vars == <<bodies, profile, stored, origin>>

Readable == {c \in Bodies : c.kind # "unreadable"}

Files == [i \in DOMAIN Names |->
            [name |-> Names[i], hidden |-> FALSE, ext |-> "xml", body |-> bodies[i]]]
ReportOf(i) == BuildReport(Names[i], bodies[i], profile)
Batch == BuildBatch(Files, profile)

SurfacesInit ==
    /\ bodies \in [DOMAIN Names -> Readable]
    /\ profile \in Profiles
    /\ stored = ReportOf(1)
    /\ origin = stored

\* Somebody edits an invoice.
EditFile ==
    \E i \in DOMAIN Names, c \in Readable :
        /\ c # bodies[i]
        /\ bodies' = [bodies EXCEPT ![i] = c]
        /\ UNCHANGED <<profile, stored, origin>>

\* A build gates the first file against the stored report and, when the gate
\* exits 0, stores the new report.
GateAndCapture ==
    /\ ~BaselineRefused(stored, profile)
    /\ DiffExit(BuildDiff(ReportOf(1), stored)) = 0
    /\ stored' = ReportOf(1)
    /\ UNCHANGED <<bodies, profile, origin>>

SurfacesNext == EditFile \/ GateAndCapture
SurfacesSpec == SurfacesInit /\ [][SurfacesNext]_vars

----------------------------------------------------------------------------
\* Every format of one report says the same about the file: the seven that read
\* fatal_count or the severities agree with each other, and json and html, which
\* read `valid`, differ from them only by the syntax-binding fatals (report.py
\* build_junit, build_sarif, build_gitlab, build_github, build_azure, build_html,
\* build_badge, build_text over one build_report dict).
SurfacesAgree ==
    \A i \in DOMAIN Names, lang \in {"en", "de"} :
        LET r == ReportOf(i) IN
        \A f \in ReportFormats :
            RenderReport(r, f, lang) = (Fails(r) \/ (f \in {"json", "html"} /\ r.sbFatal > 0))

\* No projection loses a finding: SARIF, GitHub and Azure carry each one, with
\* exactly one descriptor per rule; GitLab drops exactly the information findings;
\* a capped listing accounts for every finding, never shows a lesser finding while
\* hiding a fatal one, and the per-rule counts cover every rule that fired; the
\* summary on the terminal names or counts every finding once.
NothingHidden ==
    /\ \A i \in DOMAIN Names :
        LET r == ReportOf(i)
            sarif == BuildSarif(r)
            block == BatchFileFindingLines(r)
            plain == PlainText(r.violations, "de")
            fatalsShown == Cardinality({k \in DOMAIN block.shown :
                                            block.shown[k].severity = "fatal"})
        IN /\ r.error = "" =>
                /\ Len(sarif.results) = r.count
                /\ Len(BuildGithub(r)) = r.count /\ Len(BuildAzure(r)) = r.count
                /\ Len(BuildGitLab(r)) = r.fatal + r.warning
           /\ r.error = "" =>
                /\ ToSet(sarif.rules) = {x.rule : x \in ToSet(sarif.results)}
                /\ Len(sarif.rules) = Cardinality(ToSet(sarif.rules))
           /\ Len(block.shown) + block.omitted = r.count
           /\ block.fatal > fatalsShown => fatalsShown = Len(block.shown)
           /\ Len(plain.lead) + Len(plain.listed) + plain.omitted = r.count
           /\ \A rule \in {v.rule : v \in ToSet(r.violations)} : plain.omitted = 0 =>
                 Cardinality({k \in DOMAIN r.violations : r.violations[k].rule = rule})
                   = Len(SelectSeq(plain.lead \o plain.listed, LAMBDA x : x.rule = rule))
    /\ LET text == BatchText(Batch)
           frequency == BatchRuleFrequency(Batch)
       IN /\ Len(text.top) + text.topOmitted = Cardinality(DOMAIN frequency.files)
          /\ (\E i \in DOMAIN Names : ReportOf(i).count > 0) <=> text.hint # <<>>

\* The batch verdict is the worst of the single-file verdicts, in the exit code,
\* the JUnit totals and the text summary alike (batch_exit_code,
\* build_junit_batch, build_batch_text) — for files without a syntax-binding fatal.
BatchIsWorstFile ==
    (\A i \in DOMAIN Names : ReportOf(i).sbFatal = 0) =>
        LET exits == {ReportExit(ReportOf(i)) : i \in DOMAIN Names}
            junit == JUnitBatch(Batch)
        IN /\ BatchExit(Batch) = IF 1 \in exits THEN 1 ELSE IF 3 \in exits THEN 3 ELSE 0
           /\ Batch.failed = Cardinality({i \in DOMAIN Names : ReportExit(ReportOf(i)) # 0})
           /\ junit.errors = Cardinality({i \in DOMAIN Names : ReportExit(ReportOf(i)) = 3})
           /\ \A f \in BatchFormats : RenderBatch(Batch, f) <=> BatchExit(Batch) # 0

Occurrences(violations, key) ==
    Cardinality({i \in DOMAIN violations : DiffKey(violations[i]) = key})

\* The baseline diff is an exact multiset difference: what is new and what is
\* unchanged make up the current report, what is resolved and unchanged make up
\* the baseline, and the gate fails iff some fatal occurs more often than it did
\* (_multiset_diff, build_diff).
DiffIsExact ==
    LET r == ReportOf(1)
        d == BuildDiff(r, stored)
        keys == {DiffKey(v) : v \in ToSet(r.violations) \cup ToSet(stored.violations)}
    IN r.error = "" =>
        /\ Len(d.new) + d.unchanged = r.count
        /\ Len(d.resolved) + d.unchanged = stored.count
        /\ DiffExit(d) = 1 <=>
              \E k \in keys : k[4] = "fatal"
                              /\ Occurrences(r.violations, k) > Occurrences(stored.violations, k)

\* The ratchet only tightens: however often an invoice is edited and re-baselined
\* through the gate, no fatal ever occurs more often in the stored report than in
\* the report the ratchet started from.
RatchetTightens ==
    LET same(a, b) == /\ a.rule = b.rule /\ a.field = b.field
                      /\ a.message = b.message /\ a.severity = b.severity
        howOften(v, r) == Cardinality({i \in DOMAIN r.violations : same(v, r.violations[i])})
    IN \A v \in ToSet(stored.violations) :
            v.severity = "fatal" => howOften(v, stored) <= howOften(v, origin)

\* In a German HTML report every text still in English is marked lang="en", every
\* German one is not, and the fallback note appears iff a message fell back
\* (build_html, resolve_message, official_message).
EnglishIsMarked ==
    \A i \in DOMAIN Names :
        LET h == BuildHtml(ReportOf(i), "de")
            texts == UNION {{f.title, f.fix, f.message} : f \in ToSet(h.findings)}
        IN /\ \A t \in texts : t.shown => (t.marked <=> t.lang = "en")
           /\ h.fallbackNote <=> \E f \in ToSet(h.findings) : f.message.lang = "en"

\* What REPORT-SCHEMA.md and syntax_binding_eval.py say of a syntax-binding
\* fatal: it drives a nonzero exit code.
SyntaxBindingFatalBlocks ==
    (\E i \in DOMAIN Names : ReportOf(i).sbFatal > 0) => BatchExit(Batch) # 0
============================================================================
