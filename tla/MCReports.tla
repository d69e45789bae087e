----------------------------- MODULE MCReports -----------------------------
(***************************************************************************)
(* The components that report a verdict, model-checked in one state space: *)
(* the report formats and the baseline ratchet, the CI action, the console *)
(* script and the escapings.  A behaviour is one of a single component,    *)
(* the one `part` names; the variables of the others stay <<>>.            *)
(***************************************************************************)
EXTENDS Reports

VARIABLES
    part,                                                \* the component that runs
    bodies, profile, stored, origin,                     \* ReportSurfaces, ActionRun
    failOn, format, pc, at, merged, fatals, warnings, parseError,
    artifact, console, exit, graded, rewrites,           \* ActionRun
    disk, req, cfg, stdin, baseline, tmp, read, answer, out, code,   \* Cli
    text                                                 \* Escapes

directoryVars == <<bodies, profile>>
ratchetVars == <<stored, origin>>
actionVars == <<failOn, format, at, merged, fatals, warnings, parseError,
                artifact, console, exit, graded>>
processVars == <<pc, rewrites>>
cliVars == <<disk, req, cfg, stdin, baseline, tmp, read, answer, out, code>>
allVars == <<part, directoryVars, ratchetVars, actionVars, processVars, cliVars, text>>

MCNames == <<"a", "b">>

Finding(rule, severity, line, point) ==
    [rule |-> rule, severity |-> severity, message |-> "m", element |-> "e",
     line |-> line, point |-> point]

BrFatal == Finding(<<1, 2>>, "fatal", 3, 0)
BrFatal10 == Finding(<<1, 10>>, "fatal", 0, 7)
DeWarn == Finding(<<2, 1>>, "warning", 0, 0)
DeFatal == Finding(<<2, 1>>, "fatal", 0, 0)
InfoOnly == Finding(<<2, 3>>, "information", 4, 0)
Root == [Finding(<<3, 0>>, "fatal", 0, 0) EXCEPT !.element = ""]
FxWarn == Finding(<<4, 1>>, "warning", 0, 0)

MCCatalog ==
    (<<1, 2>>  :> [titleDe |-> TRUE, fixDe |-> TRUE, messageDe |-> FALSE, source |-> "translation"])
 @@ (<<1, 10>> :> [titleDe |-> FALSE, fixDe |-> TRUE, messageDe |-> FALSE, source |-> "translation"])
 @@ (<<2, 1>>  :> [titleDe |-> TRUE, fixDe |-> TRUE, messageDe |-> TRUE, source |-> "kosit"])
 @@ (<<2, 3>>  :> [titleDe |-> FALSE, fixDe |-> FALSE, messageDe |-> FALSE, source |-> "none"])

\* The same violations under both profiles.
Both(violations) == [p \in Profiles |-> violations]

Xml(finds, sb) == [kind |-> "xml", finds |-> finds, container |-> <<>>, sb |-> sb]
Other(kind) == [kind |-> kind, finds |-> Both(<<>>), container |-> <<>>, sb |-> <<>>]

MCBodies ==
    {Xml(Both(s), <<>>) : s \in {<<>>, <<BrFatal>>, <<InfoOnly>>, <<BrFatal, BrFatal>>,
        <<DeWarn, BrFatal10>>, <<DeWarn, BrFatal, BrFatal10, BrFatal>>, <<Root>>}}
    \cup {Xml([p \in Profiles |-> IF p = "xrechnung" THEN <<DeFatal>> ELSE <<DeWarn>>], <<>>),
          Xml(Both(<<>>), <<"fatal">>), Xml(Both(<<DeWarn>>), <<"warning">>),
          [kind |-> "pdf", finds |-> Both(<<>>), container |-> <<FxWarn>>, sb |-> <<>>]}
    \cup {Other(k) : k \in {"notxml", "pdfbroken", "unreadable"}}

MCActionBodies ==
    {Xml(Both(s), <<>>) : s \in {<<>>, <<BrFatal>>, <<DeWarn>>, <<DeWarn, BrFatal10, BrFatal>>}}
    \cup {[kind |-> "pdf", finds |-> Both(<<>>), container |-> <<FxWarn>>, sb |-> <<>>],
          Xml(Both(<<>>), <<"fatal">>), Other("notxml"), Other("unreadable")}

MCConsole == {"sarif", "json", "github"}

Default == [first |-> "", sub |-> "validate", path |-> "a", extra |-> 0, formats |-> {},
            failOn |-> "", lang |-> "", profile |-> "", baseline |-> "", json |-> FALSE,
            quiet |-> FALSE, verify |-> FALSE, show |-> FALSE, missing |-> FALSE,
            rule |-> <<1, 2>>]

\* Command lines that only the argument handling decides.
UsageRequests ==
    {[Default EXCEPT !.first = f, !.rule = r, !.lang = l, !.path = p] :
        f \in {"version", "help", "explain"}, r \in {<<1, 2>>, <<3, 0>>},
        l \in {"", "de", "fr"}, p \in {"", "a"}}
    \cup {[Default EXCEPT !.sub = s, !.path = p, !.extra = n, !.verify = v] :
        s \in {"validate", "validate-batch", "receipt", "info", "", "frob"}, p \in {"", "a"}, n \in 0..1, v \in BOOLEAN}
    \cup {[Default EXCEPT !.sub = s, !.formats = f, !.json = j, !.failOn = o, !.baseline = b] :
        s \in {"validate", "receipt"}, o \in {"", "warning", "loud"},
        f \in {{}, {"json"}, {"sarif"}, {"json", "text"}, {"yaml"}},
        j \in BOOLEAN, b \in {"", "stored"}}
    \cup {[Default EXCEPT !.sub = s, !.formats = f, !.show = TRUE] :
        s \in {"validate", "validate-batch"}, f \in {{}, {"json"}, {"sarif"}}}
    \cup {[Default EXCEPT !.sub = "validate-batch", !.formats = f, !.baseline = b] :
        f \in {{}, {"sarif"}}, b \in {"", "stored"}}
    \cup {[Default EXCEPT !.missing = TRUE], [Default EXCEPT !.profile = "peppol"]}

\* Command lines that grade something.
GradingRequests ==
    {[Default EXCEPT !.path = p, !.formats = f, !.failOn = o, !.quiet = q, !.profile = r] :
        p \in {"a", "-"}, f \in {{}, {"json"}, {"html"}, {"gitlab"}}, r \in {"", "xrechnung"},
        o \in {"", "warning", "information"}, q \in BOOLEAN}
    \cup {[Default EXCEPT !.sub = "validate-batch", !.path = p, !.formats = f, !.failOn = o,
                          !.quiet = q] :
        p \in {"dir", "*"}, f \in {{}, {"json"}, {"junit"}}, o \in {"", "warning"},
        q \in BOOLEAN}
    \cup {[Default EXCEPT !.sub = "receipt", !.verify = v] : v \in BOOLEAN}
    \cup {[Default EXCEPT !.baseline = "stored", !.formats = f, !.profile = r] :
        f \in {{}, {"json"}, {"sarif"}}, r \in {"", "xrechnung"}}

Table(t) == [state |-> "table", table |-> t]
Absent == [state |-> "absent", table |-> <<>>]
NoFiles == [einvoice |-> Absent, pyproject |-> Absent]

MCConfigs ==
    {NoFiles}
    \cup {[NoFiles EXCEPT !.einvoice = Table(t)] :
            t \in {[x \in {"format"} |-> "json"], [x \in {"fail-on"} |-> "warning"],
                   [x \in {"lang"} |-> "fr"], [x \in {"colour"} |-> "red"],
                   [x \in {"lang"} |-> "#int"]}}
    \cup {[einvoice |-> e, pyproject |-> [state |-> s, table |-> [x \in {"format"} |-> "json"]]] :
            e \in {Absent, Table([x \in {"lang"} |-> "de"])},
            s \in {"table", "notable", "notool", "broken"}}

PlainConfigs == {NoFiles, [NoFiles EXCEPT !.einvoice = Table([x \in {"fail-on"} |-> "warning"])]}

Receipt(ok) == [intact |-> ok, kind |-> "receipt", finds |-> Both(<<>>), container |-> <<>>,
                sb |-> <<>>]
Clean == Xml(Both(<<>>), <<>>)
Broken == Other("notxml")
Pdf(container) == [kind |-> "pdf", finds |-> Both(<<>>), container |-> container, sb |-> <<>>]

MCPaths == <<"a", "b">>
Inputs == {Clean, Xml(Both(<<DeWarn>>), <<>>), Xml(Both(<<BrFatal, InfoOnly>>), <<>>),
           Xml([p \in Profiles |-> IF p = "xrechnung" THEN <<DeFatal>> ELSE <<>>], <<"fatal">>),
           Pdf(<<>>), Broken, Other("pdfopaque"), Other("missing"), Other("unreadable"),
           Other("dangling"), Other("dir"), Receipt(TRUE), Receipt(FALSE)}
UsageDisks == {[p \in {"a", "b"} |-> Clean]}
MCDisks == {[p \in {"a", "b"} |-> IF p = "a" THEN x ELSE y] :
               x \in Inputs, y \in {Clean, Xml(Both(<<BrFatal>>), <<>>), Broken}}

MCStdins == {Clean, Xml(Both(<<BrFatal>>), <<>>), Pdf(<<>>), Broken, Other("closed"),
             Other("unreadable")}
OneStdin == {Clean}
MCRewritten == {Clean, Xml(Both(<<BrFatal>>), <<>>), Broken, Other("missing"), Pdf(<<>>)}

Stored(violations, under) ==
    [ReportFromViolations(violations, "a", under) EXCEPT !.profile = under]
MCBaselines == {Stored(<<BrFatal>>, "en16931"), Stored(<<>>, ""), Stored(<<>>, "xrechnung"),
                Stored(<<>>, "unreadable")}
OneBaseline == {Stored(<<BrFatal>>, "en16931")}

UsageOrStdin == UsageRequests \cup {q \in GradingRequests : q.path = "-"}

----------------------------------------------------------------------------
Surfaces == INSTANCE ReportSurfaces WITH Names <- MCNames, Bodies <- MCBodies
Action == INSTANCE ActionRun WITH
    Names <- MCNames, Bodies <- MCActionBodies, ConsoleFormats <- MCConsole, MaxRewrites <- 2
\* The console script twice: grading files that others rewrite, and parsing command
\* lines, configurations and standard input under signals.
Grading == INSTANCE Cli WITH
    Requests <- GradingRequests, Configs <- PlainConfigs, Paths <- MCPaths, Disks <- MCDisks,
    Stdins <- OneStdin, Rewritten <- MCRewritten, Baselines <- OneBaseline,
    MaxRewrites <- 1, Signals <- {}
Usage == INSTANCE Cli WITH
    Requests <- UsageOrStdin, Configs <- MCConfigs, Paths <- MCPaths, Disks <- UsageDisks,
    Stdins <- MCStdins, Rewritten <- MCRewritten, Baselines <- MCBaselines,
    MaxRewrites <- 0, Signals <- {130, 141, 143}
Text == INSTANCE Escapes WITH
    Chars <- {"%", "2", "5", "0", "C", "CR", ",", ":", ";", "]", " ", "ue"}, MaxText <- 4

NoDirectory ==
    /\ bodies = <<>> /\ profile = <<>>
NoRatchet ==
    /\ stored = <<>> /\ origin = <<>>
NoAction ==
    /\ failOn = <<>> /\ format = <<>> /\ at = <<>> /\ merged = <<>>
    /\ fatals = <<>> /\ warnings = <<>> /\ parseError = <<>>
    /\ artifact = <<>> /\ console = <<>> /\ exit = <<>> /\ graded = <<>>
NoProcess ==
    /\ pc = <<>> /\ rewrites = <<>>
NoCli ==
    /\ disk = <<>> /\ req = <<>> /\ cfg = <<>> /\ stdin = <<>>
    /\ baseline = <<>> /\ tmp = <<>> /\ read = <<>> /\ answer = <<>>
    /\ out = <<>> /\ code = <<>>

Init ==
    \/ /\ part = "surfaces" /\ Surfaces!SurfacesInit
       /\ NoAction /\ NoProcess /\ NoCli /\ text = <<>>
    \/ /\ part = "action" /\ Action!ActionInit
       /\ NoRatchet /\ NoCli /\ text = <<>>
    \/ /\ \/ part = "grading" /\ Grading!CliInit
          \/ part = "usage" /\ Usage!CliInit
       /\ NoDirectory /\ NoRatchet /\ NoAction /\ text = <<>>
    \/ /\ part = "text" /\ Text!EscapesInit
       /\ NoDirectory /\ NoRatchet /\ NoAction
       /\ NoProcess /\ NoCli

SurfacesStep ==
    /\ part = "surfaces" /\ Surfaces!SurfacesNext
    /\ UNCHANGED <<part, actionVars, processVars, cliVars, text>>
ActionStep ==
    /\ part = "action" /\ Action!ActionNext
    /\ UNCHANGED <<part, ratchetVars, cliVars, text>>
GradingStep ==
    /\ part = "grading" /\ Grading!CliNext
    /\ UNCHANGED <<part, directoryVars, ratchetVars, actionVars, text>>
UsageStep ==
    /\ part = "usage" /\ Usage!CliNext
    /\ UNCHANGED <<part, directoryVars, ratchetVars, actionVars, text>>
TextStep ==
    /\ part = "text" /\ (Text!TypeOne \/ (Len(text) = 4 /\ UNCHANGED text))
    /\ UNCHANGED <<part, directoryVars, ratchetVars, actionVars, processVars, cliVars>>

Next == SurfacesStep \/ ActionStep \/ GradingStep \/ UsageStep \/ TextStep
Spec == Init /\ [][Next]_allVars

----------------------------------------------------------------------------
\* Every format of one report passes the same verdict, and none of the projections,
\* caps and summaries loses a finding or hides a fatal one behind a lesser
\* (report.py build_* over one build_report dict); and the batch verdict is the worst of the
\* single files', in exit code, JUnit totals and summary alike (batch_exit_code), and HTML in
\* German marks each text it only has in English (build_html).
SurfacesAgree ==
    part = "surfaces" =>
        /\ Surfaces!SurfacesAgree /\ Surfaces!NothingHidden
        /\ Surfaces!BatchIsWorstFile /\ Surfaces!EnglishIsMarked

\* The baseline gate is an exact multiset difference, and however often an invoice is
\* edited and re-baselined through it, no fatal ever occurs more often than in the
\* report the ratchet started from (_multiset_diff, build_diff, diff_exit_code).
RatchetTightens == part = "surfaces" => Surfaces!DiffIsExact /\ Surfaces!RatchetTightens

\* The exit code of the CI action is backed by the artifact it uploaded, whatever was
\* rewritten between its children; the artifact holds every finding its children read,
\* and on an unchanging tree the action fails exactly when the report does (run).
ArtifactBacksExit ==
    part = "action" =>
        Action!ArtifactBacksExit /\ Action!ArtifactIsWhole /\ Action!AgreesWithReport

\* Whatever the format, --quiet, stdin or file: `validate` exits 3, 1 or 0 as the first
\* bytes it read and --fail-on demand, even when the file is rewritten meanwhile; the
\* document on stdout and a receipt pass the same verdict (_result_exit_code,
\* _run_validate_format, build_receipt).  A refused run leaves stdout empty, and one that
\* returns a verdict has delivered its document whole, whenever a signal landed and
\* whenever the reader left (main, EXIT-CODES.md).
ExitMeansVerdict ==
    /\ part = "grading" =>
           /\ Grading!ExitMeansVerdict /\ Grading!DocumentMatchesExit
           /\ Grading!ReceiptAgrees /\ Grading!NoHalfDocument
    /\ part = "usage" =>
           /\ Usage!ExitMeansVerdict /\ Usage!DocumentMatchesExit
           /\ Usage!ReceiptAgrees /\ Usage!NoHalfDocument

\* The staged copy of stdin is gone whenever the process is, unless a signal hit one of
\* the two windows outside both handlers (_main, _interrupted).
TempIsRemoved ==
    [][part = "usage" /\ code = -1 /\ code' # -1 /\ tmp' # "none" =>
            code' \in {130, 143} /\ pc \in Usage!SignalWindow]_allVars

\* What reads an annotation or an artifact URI recovers exactly the text that was
\* escaped, and no character that ends a property survives in it
\* (_github_escape_property, _azure_escape_property, _sarif_artifact_uri).
TextSurvivesEscaping ==
    part = "text" => Text!GithubRoundTrip /\ Text!AzureRoundTrip /\ Text!UriRoundTrip

\* What REPORT-SCHEMA.md says of a syntax-binding fatal: it drives a nonzero exit code.
SyntaxBindingFatalBlocks == part = "surfaces" => Surfaces!SyntaxBindingFatalBlocks
============================================================================
