----------------------------- MODULE ActionRun -----------------------------
(***************************************************************************)
(* action/run.py, the CI runner: it starts `python3 -m einvoice.report` as *)
(* a child process two or three times per file (SARIF, JSON when warnings  *)
(* count, the console format), merges the SARIF documents into one         *)
(* artifact and decides the exit code of the build.  Files may be          *)
(* rewritten between two children.                                         *)
(***************************************************************************)
EXTENDS Reports

CONSTANTS
    Names,          \* the collected invoice files, a sequence
    Bodies,         \* the contents a file may have
    ConsoleFormats, \* the console formats tried
    MaxRewrites     \* bound: edits while the action runs

VARIABLES
    bodies, profile, failOn, format,  \* the inputs
    pc, at,         \* the step, and the file it is about
    merged,         \* the SARIF document being merged
    fatals, warnings, parseError,
    artifact,       \* the merged document once written, <<>> before
    console,        \* how many children wrote console output
    exit,           \* the exit code, -1 while running
    graded,         \* history: the body each SARIF child read
    rewrites

vars == <<bodies, profile, failOn, format, pc, at, merged, fatals, warnings,
          parseError, artifact, console, exit, graded, rewrites>>

\* A child with --format sarif: no document when the file cannot be read.
SarifChild(i) == BuildSarif(BuildReport(Names[i], bodies[i], profile))
ChildExit(i) == ReportExit(BuildReport(Names[i], bodies[i], profile))

CountLevels(doc, level) == Len(SelectSeq(doc.results, LAMBDA x : x.level = level))

MergeSarif(into, doc) ==
    [rules |-> FirstOccurrences(into.rules \o doc.rules),
     results |-> into.results \o doc.results]

ActionInit ==
    /\ bodies \in [DOMAIN Names -> Bodies]
    /\ profile = "xrechnung"
    /\ failOn \in {"fatal", "warning"}
    /\ format \in ConsoleFormats
    /\ pc = "sarif" /\ at = 1
    /\ merged = [rules |-> <<>>, results |-> <<>>]
    /\ fatals = 0 /\ warnings = 0 /\ parseError = FALSE
    /\ artifact = <<>> /\ console = 0 /\ exit = -1
    /\ graded = <<>> /\ rewrites = 0

Stop(code) == pc' = "done" /\ exit' = code

\* A child that writes no document ends the action with 1, nothing written.
SarifFails ==
    /\ pc = "sarif" /\ at <= Len(Names)
    /\ bodies[at].kind = "unreadable"
    /\ Stop(1)
    /\ UNCHANGED <<bodies, profile, failOn, format, at, merged, fatals, warnings,
                   parseError, artifact, console, graded, rewrites>>

\* One SARIF child: its document is merged, its levels counted.  An input that
\* does not parse is only remembered; with fail-on warning a JSON child follows.
SarifPass ==
    /\ pc = "sarif" /\ at <= Len(Names)
    /\ bodies[at].kind # "unreadable"
    /\ LET doc == SarifChild(at)
           parsed == ChildExit(at) # 3
       IN /\ merged' = MergeSarif(merged, doc)
          /\ parseError' = (parseError \/ ~parsed)
          /\ fatals' = IF parsed THEN fatals + CountLevels(doc, "error") ELSE fatals
          /\ warnings' = IF parsed /\ failOn # "warning"
                         THEN warnings + CountLevels(doc, "warning") ELSE warnings
          /\ IF parsed /\ failOn = "warning"
             THEN pc' = "json" /\ at' = at
             ELSE pc' = "sarif" /\ at' = at + 1
    /\ graded' = Append(graded, bodies[at])
    /\ UNCHANGED <<bodies, profile, failOn, format, artifact, console, exit, rewrites>>

\* The JSON child for warning_count; a child without a document counts nothing.
JsonPass ==
    /\ pc = "json"
    /\ warnings' = warnings + (IF bodies[at].kind = "unreadable" THEN 0
                               ELSE BuildReport(Names[at], bodies[at], profile).warning)
    /\ pc' = "sarif" /\ at' = at + 1
    /\ UNCHANGED <<bodies, profile, failOn, format, merged, fatals, parseError,
                   artifact, console, exit, graded, rewrites>>

WriteArtifact ==
    /\ pc = "sarif" /\ at > Len(Names)
    /\ artifact' = <<merged>>
    /\ pc' = "console"
    /\ UNCHANGED <<bodies, profile, failOn, format, at, merged, fatals, warnings,
                   parseError, console, exit, graded, rewrites>>

\* The console leg prints the merged SARIF, one aggregate child, or one child per
\* file for a format without an aggregate shape.  Its exit code is not looked at.
ConsoleLeg ==
    /\ pc = "console"
    /\ console' = CASE format = "sarif" -> 0
                    [] format \in BatchFormats -> 1
                    [] OTHER -> Len(Names)
    /\ pc' = "decide"
    /\ UNCHANGED <<bodies, profile, failOn, format, at, merged, fatals, warnings,
                   parseError, artifact, exit, graded, rewrites>>

\* Mutant: an unparsable file outranks a fatal one.
DecideParseFirst ==
    /\ pc = "decide"
    /\ Stop(CASE Names = <<>> -> 0
              [] Names # <<>> /\ parseError -> 3
              [] OTHER -> IF fatals > 0 \/ (failOn = "warning" /\ warnings > 0) THEN 1 ELSE 0)
    /\ UNCHANGED <<bodies, profile, failOn, format, at, merged, fatals, warnings,
                   parseError, artifact, console, graded, rewrites>>

Decide ==
    /\ pc = "decide"
    /\ Stop(CASE Names = <<>> -> 0
              [] Names # <<>> /\ fatals > 0 -> 1
              [] Names # <<>> /\ fatals = 0 /\ failOn = "warning" /\ warnings > 0 -> 1
              [] OTHER -> IF parseError THEN 3 ELSE 0)
    /\ UNCHANGED <<bodies, profile, failOn, format, at, merged, fatals, warnings,
                   parseError, artifact, console, graded, rewrites>>

\* Another job of the build rewrites a file.
Rewrite ==
    /\ pc # "done" /\ rewrites < MaxRewrites
    /\ \E i \in DOMAIN Names, c \in Bodies :
          c # bodies[i] /\ bodies' = [bodies EXCEPT ![i] = c]
    /\ rewrites' = rewrites + 1
    /\ UNCHANGED <<profile, failOn, format, pc, at, merged, fatals, warnings,
                   parseError, artifact, console, exit, graded>>

ActionStep == SarifFails \/ SarifPass \/ JsonPass \/ WriteArtifact \/ ConsoleLeg \/ Decide
ActionNext == ActionStep \/ Rewrite \/ (pc = "done" /\ UNCHANGED vars)
ActionSpec == ActionInit /\ [][ActionNext]_vars

----------------------------------------------------------------------------
ErrorResults(doc) == {k \in DOMAIN doc.results : doc.results[k].level = "error"}
\* The rule of an error result that is an error code, not a rule id.
IsErrorCode(rule) == Len(rule) = 1

\* The exit code is backed by the artifact that was uploaded, whatever was rewritten
\* between the children: 0 leaves no error in it, 1 under fail-on fatal shows a
\* fatal rule, 3 an input that did not parse and no fatal rule (run, lines 437-534).
ArtifactBacksExit ==
    pc = "done" /\ artifact # <<>> =>
        LET doc == artifact[1]
            rules == {k \in ErrorResults(doc) : ~IsErrorCode(doc.results[k].rule)}
        IN /\ exit = 0 => ErrorResults(doc) = {}
           /\ exit = 1 /\ failOn = "fatal" => rules # {}
           /\ exit = 3 => rules = {} /\ ErrorResults(doc) # {}
           /\ rules # {} => exit = 1

\* The artifact holds every finding of every file as the SARIF children read them,
\* each rule described exactly once; without an artifact the build has failed.
ArtifactIsWhole ==
    /\ artifact # <<>> =>
         LET reports == [i \in DOMAIN graded |-> BuildReport(Names[i], graded[i], profile)]
         IN /\ Len(graded) = Len(Names)
            /\ Len(artifact[1].results)
                 = SumOf(reports, LAMBDA r : IF r.error # "" THEN 1 ELSE r.count)
            /\ Cardinality(ToSet(artifact[1].rules)) = Len(artifact[1].rules)
            /\ \A k \in DOMAIN artifact[1].results :
                 IsErrorCode(artifact[1].results[k].rule)
                 \/ Contains(artifact[1].rules, artifact[1].results[k].rule)
    /\ pc = "done" /\ artifact = <<>> => exit = 1

\* On an unchanging tree without syntax-binding fatals the action fails exactly when
\* `einvoice.report` does on the directory, plus, with fail-on warning, on a warning.
AgreesWithReport ==
    pc = "done" /\ rewrites = 0 /\ artifact # <<>>
      /\ (\A i \in DOMAIN Names : SyntaxBindingSection(bodies[i]).fatal = 0) =>
        LET reports == [i \in DOMAIN Names |-> BuildReport(Names[i], bodies[i], profile)]
            code == BatchExit([files |-> reports])
            warned == \E i \in DOMAIN Names : reports[i].warning > 0
        IN exit = IF failOn = "warning" /\ warned THEN 1 ELSE code

\* What the module's docstring says: with fail-on fatal the build fails as the
\* entry point itself would on one of the files.
FailsAsEntrypoint ==
    pc = "done" /\ failOn = "fatal" /\ rewrites = 0 /\ artifact # <<>>
      /\ (\E i \in DOMAIN Names : ChildExit(i) = 1) => exit = 1
============================================================================
