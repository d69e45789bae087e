-------------------------------- MODULE Cli --------------------------------
(***************************************************************************)
(* One run of the `einvoice` console script (einvoice/cli.py) as a process *)
(* among others: argument and config handling, staging stdin in a temp     *)
(* file, the reads of the input, the document on stdout and the exit code, *)
(* with signals, a closed pipe and other programs that rewrite the input   *)
(* between two reads.                                                      *)
(*                                                                         *)
(* A request is the parsed argv:                                           *)
(*   first     "" | "version" | "help" | "explain"   handled before all    *)
(*   sub       the subcommand word, "" when there is none                  *)
(*   path      its argument: a path of the disk, "-", or "" when missing   *)
(*   extra     further positional arguments                                *)
(*   formats   the values of --format; failOn, lang, profile, baseline the *)
(*             value of that flag or ""; json, quiet, verify, show         *)
(*   missing   some flag came last, without its value; rule: of --explain  *)
(***************************************************************************)
EXTENDS Reports

CONSTANTS
    Requests,      \* the command lines tried
    Configs,       \* the configuration trees tried
    Paths,         \* the paths of the disk, a sequence in sorted order
    Disks,         \* the initial contents of the disk, functions of the paths
    Stdins,        \* what stdin may deliver ("closed" is a kind too)
    Rewritten,     \* the bodies another program may write while the run lasts
    Baselines,     \* the stored reports --baseline may name
    MaxRewrites,   \* bound on those writes
    Signals        \* how a run may be cut short: 130 SIGINT, 143 SIGTERM, 141 a
                   \* closed pipe

VARIABLES
    disk,      \* path -> body
    req, cfg, stdin, baseline,   \* the inputs of this run
    pc,        \* where the process is
    tmp,       \* the staged stdin file: none | empty | full
    read,      \* history: the bodies read so far, in order
    answer,    \* the document being written and the status to return, <<>> before
    out,       \* what stdout has taken: <<>>, or the document, whole or cut short
    code,      \* the exit status; -1 running, -2 died with a traceback
    rewrites

vars == <<disk, req, cfg, stdin, baseline, pc, tmp, read, answer, out, code, rewrites>>
inputs == <<req, cfg, stdin, baseline>>

FailOnLevels == {"fatal", "warning", "information"}
Langs == {"en", "de"}
Subcommands == {"validate", "validate-batch", "receipt", "info"}
DelegatedFormats == ReportFormats \ OutputFormats

----------------------------------------------------------------------------
\* config.py: .einvoice.toml, when it exists, decides alone; else the
\* [tool.einvoice] table of pyproject.toml.  A file is [state, table], where
\* state is absent | broken | notable | table and table maps keys to values; a
\* value "#int" is not a string.

ValidateTable(table) ==
    \A k \in DOMAIN table : k \in {"format", "fail-on", "lang"} /\ table[k] # "#int"

NoConfig == [ok |-> TRUE, table |-> <<>>]

LoadConfig(files) ==
    IF files.einvoice.state # "absent"
    THEN [ok |-> files.einvoice.state = "table" /\ ValidateTable(files.einvoice.table),
          table |-> files.einvoice.table]
    ELSE CASE files.pyproject.state \in {"absent", "notool"} -> NoConfig
           [] files.pyproject.state \in {"broken", "notable"} ->
                 [ok |-> FALSE, table |-> <<>>]
           [] files.pyproject.state = "table" ->
                 [ok |-> ValidateTable(files.pyproject.table),
                  table |-> files.pyproject.table]

\* flag, else config, else default
Resolve(flag, key, default) ==
    LET table == LoadConfig(cfg).table IN
    IF flag # "" THEN flag ELSE IF key \in DOMAIN table THEN table[key] ELSE default

FormatFlag == IF req.formats = {} THEN "" ELSE CHOOSE f \in req.formats : TRUE
Format == Resolve(IF FormatFlag # "" THEN FormatFlag
                  ELSE IF req.json THEN "json" ELSE "", "format", "text")
FailOn == Resolve(req.failOn, "fail-on", "fatal")
Lang == Resolve(req.lang, "lang", "en")
Profile == IF req.profile = "" THEN "en16931" ELSE req.profile

----------------------------------------------------------------------------
\* The refusals of _main, in the order it meets them; each is exit 2

MissingValue == req.missing

BadFormat ==
    \/ Cardinality(req.formats) > 1
    \/ req.formats # {} /\ req.json
    \/ IF req.formats # {} THEN Format \notin ReportFormats ELSE Format \notin OutputFormats

BadFlags ==
    \/ MissingValue
    \/ ~LoadConfig(cfg).ok
    \/ BadFormat
    \/ Profile \notin Profiles
    \/ Lang \notin Langs
    \/ FailOn \notin FailOnLevels

BadCombination ==
    \/ /\ req.formats # {} /\ Format \in DelegatedFormats
       /\ req.sub \notin {"validate", "validate-batch"}
    \/ req.baseline # "" /\ (req.sub # "validate" \/ req.lang # "" \/ req.failOn # "")

BadArity ==
    CASE req.sub = "info" -> req.path # "" \/ req.extra > 0
      [] req.sub = "validate-batch" ->
            req.path = "" \/ req.extra > 0 \/ Format \notin BatchFormats
      [] OTHER -> \/ req.sub \notin Subcommands \/ req.path = "" \/ req.extra > 0
                  \/ (req.verify /\ req.sub # "receipt")

\* --explain is answered before every other flag is looked at.
ExplainCode ==
    IF req.missing \/ req.path # "" \/ req.lang \notin Langs \cup {""} THEN 2
    ELSE IF FormatExplain(req.rule, IF req.lang = "" THEN "en" ELSE req.lang) = <<>>
         THEN 1 ELSE 0

----------------------------------------------------------------------------
\* The end of a run.  A document is written to a buffered stdout in one piece or many
\* before _main returns; a buffer that fills goes down the pipe at once, the rest when
\* main flushes.  In between the reader may have gone and a signal may land.

Doc(kind, fails) == <<[kind |-> kind, fails |-> fails, whole |-> TRUE]>>
Cut(document) == <<[document[1] EXCEPT !.whole = FALSE]>>

\* Mutant: the finally clause is missing.
CleanupNothing == tmp' = tmp

\* The finally clause of _main: the staged file is unlinked.
Cleanup == tmp' = "none"

Exit(status) == pc' = "exited" /\ code' = status /\ Cleanup

\* A handler has decided: without a document on stdout, _main returns and the process
\* is over; otherwise the document has to be written first.
Finish(status, document) ==
    /\ IF document = <<>>
       THEN Exit(status) /\ UNCHANGED answer
       ELSE /\ pc' = "answering" /\ answer' = [status |-> status, document |-> document]
            /\ UNCHANGED <<tmp, code>>
    /\ UNCHANGED <<disk, inputs, out, rewrites>>

Goto(label) == pc' = label /\ UNCHANGED <<disk, inputs, answer, out, code, rewrites>>

Answering == pc \in {"answering", "flushing"}

\* The buffer fills while the document is written: a part of it goes down the pipe.
FillBuffer ==
    /\ pc = "answering" /\ out = <<>> /\ out' = Cut(answer.document)
    /\ UNCHANGED <<disk, inputs, pc, tmp, read, answer, code, rewrites>>

\* The document is written, the status computed, and _main returns.
Return == pc = "answering" /\ Goto("flushing") /\ Cleanup /\ UNCHANGED read

\* Mutant: main leaves the flush to the interpreter's shutdown, which cannot change
\* the exit code any more when the reader has gone.
FlushAtShutdown ==
    /\ pc = "flushing" /\ Exit(answer.status)
    /\ out' \in {out, answer.document}
    /\ UNCHANGED <<disk, inputs, read, answer, rewrites>>

\* main flushes stdout and returns the status.
Flush ==
    /\ pc = "flushing" /\ Exit(answer.status)
    /\ out' = answer.document
    /\ UNCHANGED <<disk, inputs, read, answer, rewrites>>

\* The reader of stdout has gone and a write or the flush fails: stdout is pointed at
\* devnull and keeps what the reader got.
BrokenPipe ==
    /\ Answering /\ 141 \in Signals /\ Exit(141)
    /\ UNCHANGED <<disk, inputs, read, answer, out, rewrites>>

CliInit ==
    /\ disk \in Disks /\ req \in Requests /\ cfg \in Configs
    /\ stdin \in Stdins /\ baseline \in Baselines
    /\ pc = "start" /\ tmp = "none" /\ read = <<>> /\ answer = <<>>
    /\ out = <<>> /\ code = -1 /\ rewrites = 0

\* version, help and explain: before the config is even read
Early ==
    /\ pc = "start" /\ req.first # ""
    /\ LET status == IF req.first = "explain" THEN ExplainCode ELSE 0
       IN Finish(status, IF status = 0 THEN Doc(req.first, FALSE) ELSE <<>>)
    /\ UNCHANGED read

Refuse ==
    /\ pc = "start" /\ req.first = ""
    /\ BadFlags \/ (~req.show /\ (BadCombination \/ BadArity))
    /\ Finish(2, <<>>) /\ UNCHANGED read

\* --show-config and info answer without reading any input.
ShowOrInfo ==
    /\ pc = "start" /\ req.first = "" /\ ~BadFlags
    /\ req.show \/ (req.sub = "info" /\ ~BadCombination /\ ~BadArity)
    /\ Finish(0, Doc(IF req.show THEN "config" ELSE "info", FALSE)) /\ UNCHANGED read

Accepted == pc = "start" /\ req.first = "" /\ ~req.show
            /\ ~BadFlags /\ ~BadCombination /\ ~BadArity

----------------------------------------------------------------------------
\* validate-batch: a directory is walked, a glob keeps regular files only.  A
\* member that cannot be read raises out of main.

BatchMembers ==
    SelectSeq(Paths, LAMBDA p : /\ disk[p].kind \notin {"missing", "dir"}
                                /\ req.path = "*" => disk[p].kind # "dangling")

CannotOpen(c) == c.kind \in {"unreadable", "missing", "dangling", "dir"}

Crosses(severity, failOn) == SeverityRank(severity) <= SeverityRank(failOn)

\* Mutant: the threshold is ignored.
ReportCrossesFatal(r, failOn) == r.fatal > 0

ReportCrosses(r, failOn) ==
    \E i \in DOMAIN r.violations : Crosses(r.violations[i].severity, failOn)

RunBatch ==
    /\ Accepted /\ req.sub = "validate-batch"
    /\ LET members == BatchMembers
           bodies == [i \in DOMAIN members |-> disk[members[i]]]
       IN IF \E i \in DOMAIN bodies : CannotOpen(bodies[i])
          THEN Finish(-2, <<>>) /\ read' = bodies
          ELSE LET batch == BuildBatchFromFiles(
                       [i \in DOMAIN members |-> [name |-> members[i], body |-> bodies[i]]],
                       Profile)
                   crosses == \E i \in DOMAIN batch.files :
                                  ReportCrosses(batch.files[i], FailOn)
               IN /\ Finish(IF crosses THEN 1 ELSE BatchExit(batch),
                            IF Format = "text" /\ req.quiet THEN <<>>
                            ELSE Doc("batch", RenderBatch(batch, Format)))
                  /\ read' = bodies

----------------------------------------------------------------------------
\* `validate -`: stdin is read whole, then staged in a temp file

ReadStdin ==
    /\ Accepted /\ req.sub = "validate" /\ req.path = "-"
    /\ IF stdin.kind \in {"closed", "unreadable"}
       THEN Finish(2, <<>>) ELSE Goto("data") /\ tmp' = tmp
    /\ UNCHANGED read

Mkstemp == pc = "data" /\ tmp' = "empty" /\ Goto("opened") /\ UNCHANGED read
EnterInnerTry == pc = "opened" /\ Goto("writing") /\ UNCHANGED <<tmp, read>>
WriteTemp == pc = "writing" /\ tmp' = "full" /\ Goto("staged") /\ UNCHANGED read
EnterTry == pc = "staged" /\ Goto("try") /\ UNCHANGED <<tmp, read>>

\* A named path: a directory, a dangling link or nothing there is refused.
Triage ==
    /\ Accepted /\ req.sub \in {"validate", "receipt"}
    /\ ~(req.sub = "validate" /\ req.path = "-")
    /\ IF req.path = "-" \/ disk[req.path].kind \in {"dir", "dangling", "missing"}
       THEN Finish(2, <<>>) ELSE Goto("try") /\ tmp' = tmp
    /\ UNCHANGED read

Staged == tmp # "none"
Input == IF Staged THEN stdin ELSE disk[req.path]
Read == read' = Append(read, Input)

\* Every OSError inside the outer try is one line on stderr and exit 2.
CannotRead ==
    /\ pc \in {"try", "hashed", "graded"} /\ CannotOpen(Input)
    /\ ~(pc = "graded" /\ Head(read).kind = "pdf")
    /\ Finish(2, <<>>) /\ UNCHANGED read

\* The kind of a body to a reader that knows XML only.
AsXml(c) == IF c.kind = "xml" THEN "xml" ELSE "notxml"

----------------------------------------------------------------------------
\* receipt: the bytes are read and hashed, then the path is read again and graded

ReceiptHash ==
    /\ pc = "try" /\ req.sub = "receipt" /\ ~req.verify /\ ~CannotOpen(Input)
    /\ Read /\ Goto("hashed") /\ UNCHANGED tmp

OkVerdict(c, profile) == AsXml(c) = "xml" /\ CountOf(c.finds[profile], "fatal") = 0

ReceiptGrade ==
    /\ pc = "hashed" /\ ~CannotOpen(Input)
    /\ Read
    /\ LET pass == OkVerdict(Input, Profile)
       IN Finish(IF pass THEN 0 ELSE 1, Doc("receipt", ~pass))

\* receipt --verify: re-hash the body of a stored receipt.
ReceiptVerify ==
    /\ pc = "try" /\ req.sub = "receipt" /\ req.verify /\ ~CannotOpen(Input)
    /\ Read
    /\ IF Input.kind # "receipt" THEN Finish(2, <<>>)
       ELSE Finish(IF Input.intact THEN 0 ELSE 1, Doc("verify", ~Input.intact))

----------------------------------------------------------------------------
\* validate --baseline: report.main with captured output; a run that printed no
\* document becomes exit 2.

ValidateBaseline ==
    /\ pc = "try" /\ req.sub = "validate" /\ req.baseline # "" /\ ~CannotOpen(Input)
    /\ Read
    /\ IF \/ FormatFlag \notin {"", "json"}
          \/ baseline.profile = "unreadable" \/ BaselineRefused(baseline, Profile)
       THEN Finish(2, <<>>)
       ELSE LET d == BuildDiff(BuildReport(req.path, Input, Profile), baseline)
            IN Finish(DiffExit(d), Doc("diff", d.newFatal > 0))

\* validate --format junit|sarif|gitlab|github|azure|html|badge
ValidateFormat ==
    /\ pc = "try" /\ req.sub = "validate" /\ req.baseline = ""
    /\ Format \in DelegatedFormats /\ ~CannotOpen(Input)
    /\ Read
    /\ LET r == BuildReport(req.path, Input, Profile)
       IN Finish(IF r.error # "" THEN 3 ELSE IF ReportCrosses(r, FailOn) THEN 1 ELSE 0,
                 Doc(Format, RenderReport(r, Format, Lang)))

\* validate in text or json: the input is graded ...
ValidatePlain ==
    /\ pc = "try" /\ req.sub = "validate" /\ req.baseline = ""
    /\ Format \in OutputFormats /\ ~CannotOpen(Input)
    /\ Read
    /\ IF Input.kind \in {"pdf", "xml"}
       THEN Goto("graded") /\ UNCHANGED tmp
       ELSE Finish(3, IF Format = "json" THEN Doc("json", TRUE) ELSE <<>>)

\* ... and parsed a second time for the syntax-binding section, from disk unless it
\* came out of a PDF.
ResultCrosses(c) == \E i \in DOMAIN c.finds[Profile] :
                        Crosses(c.finds[Profile][i].severity, FailOn)

PrintPlain ==
    /\ pc = "graded"
    /\ LET graded == Head(read)
           again == IF graded.kind = "pdf" THEN graded ELSE Input
           fails == CountOf(graded.finds[Profile], "fatal") > 0
       IN /\ graded.kind # "pdf" => ~CannotOpen(Input)
          /\ IF graded.kind # "pdf" /\ AsXml(again) # "xml"
             THEN Finish(-2, <<>>)
             ELSE Finish(IF ResultCrosses(graded) THEN 1 ELSE 0,
                         IF Format = "text" /\ req.quiet THEN <<>>
                         ELSE Doc(Format, fails))
          /\ read' = Append(read, again)

----------------------------------------------------------------------------
\* SIGINT or SIGTERM.  The outer finally and the inner except unlink the staged
\* file; between mkstemp and the inner try, and between the write and the outer
\* try, nothing does.
SignalWindow == {"opened", "staged"}

\* What of the document was written is flushed when the interpreter shuts down, unless
\* the signal broke off the write itself.
Interrupt ==
    /\ pc # "exited" /\ pc' = "exited" /\ \E s \in Signals \ {141} : code' = s
    /\ out' \in {out} \cup
          (IF Answering THEN {Cut(answer.document), answer.document} ELSE {})
    /\ IF pc \in SignalWindow THEN tmp' = tmp ELSE Cleanup
    /\ UNCHANGED <<disk, inputs, read, answer, rewrites>>

\* Another program writes, replaces or removes a file.
Rewrite ==
    /\ pc # "exited" /\ rewrites < MaxRewrites
    /\ \E p \in DOMAIN disk, c \in Rewritten :
          c # disk[p] /\ disk' = [disk EXCEPT ![p] = c]
    /\ rewrites' = rewrites + 1
    /\ UNCHANGED <<inputs, pc, tmp, read, answer, out, code>>

CliStep ==
    \/ Early \/ Refuse \/ ShowOrInfo \/ RunBatch
    \/ ReadStdin \/ Mkstemp \/ EnterInnerTry \/ WriteTemp \/ EnterTry \/ Triage
    \/ CannotRead \/ ReceiptHash \/ ReceiptGrade \/ ReceiptVerify
    \/ ValidateBaseline \/ ValidateFormat \/ ValidatePlain \/ PrintPlain
    \/ FillBuffer \/ Return \/ Flush \/ BrokenPipe

CliNext == CliStep \/ Interrupt \/ Rewrite \/ (pc = "exited" /\ UNCHANGED vars)
CliSpec == CliInit /\ [][CliNext]_vars

----------------------------------------------------------------------------
Validating == req.first = "" /\ ~req.show /\ req.sub = "validate" /\ req.baseline = ""

\* The exit code a reader of EXIT-CODES.md expects for one body.
GradeOf(c, failOn) ==
    IF c.kind \notin {"xml", "pdf"} THEN 3
    ELSE IF \E i \in DOMAIN c.finds[Profile] :
                SeverityRank(c.finds[Profile][i].severity) <= SeverityRank(failOn)
         THEN 1 ELSE 0

\* Whatever the format, --quiet, stdin or file, an XML input or a sound container:
\* `validate` exits 3, 1 or 0 as the first bytes it read and --fail-on demand, even
\* when the file is rewritten meanwhile (_run_validate_format, _result_exit_code).
ExitMeansVerdict ==
    Validating /\ code \in {0, 1, 3} /\ Head(read).container = <<>> =>
        code = GradeOf(Head(read), FailOn)

\* With the default threshold the document on stdout and the exit code agree, for
\* validate, validate-batch, receipt and receipt --verify alike: a consumer of one
\* is never contradicted by the other (syntax-binding fatals aside, which only html
\* reads and only the report sums up).
DocumentMatchesExit ==
    code \in {0, 1, 3} /\ out # <<>> /\ FailOn = "fatal"
      /\ (\A i \in DOMAIN read : "fatal" \notin ToSet(read[i].sb)) =>
        (out[1].fails <=> code # 0) \/ (out[1].kind = "diff" /\ code = 3)

\* EXIT-CODES.md: a refused run, or one that could not read its input, leaves
\* stdout empty.  A run that returns a verdict has delivered its document to the last
\* byte, unless it was told to be quiet or the text form reports an unparsable input on
\* stderr: half a document is left only by a run that was cut short and says so.
NoHalfDocument ==
    /\ code \in {2, -2} => out = <<>>
    /\ code \in {0, 1, 3} =>
         IF out # <<>> THEN out[1].whole
         ELSE \/ req.quiet /\ Format = "text"
              \/ code = 3 /\ Format = "text"
              \/ req.first = "explain" /\ code = 1

\* The staged copy of stdin is gone whenever the process is, unless a signal hit one
\* of the two windows outside both handlers.
TempIsRemoved ==
    [][code = -1 /\ code' # -1 /\ tmp' # "none" => code' \in {130, 143} /\ pc \in SignalWindow]_vars

\* A receipt is PASS exactly when `validate` would exit 0 on the same XML with the
\* same profile (build_receipt and _main grade through validate_file both).
ReceiptAgrees ==
    code \in {0, 1} /\ out # <<>> /\ out[1].kind = "receipt" /\ Last(read).kind = "xml" =>
        code = GradeOf(Last(read), "fatal")

----------------------------------------------------------------------------
\* What the repository says and the code does not keep.

\* cli.py:1168: `--format sarif` returns exactly the code the same command without
\* --format would.
FormatKeepsExit ==
    Validating /\ code \in {0, 1, 3} => code = GradeOf(Head(read), FailOn)

\* EXIT-CODES.md: an unreadable batch member becomes an ERROR entry, never a crash.
BatchNeverCrashes == req.sub = "validate-batch" => code # -2

\* cli.py:2115: the re-parse cannot raise NotWellFormed.
ReparseNeverFails == req.sub = "validate" => code # -2

\* receipt.py:31: identical input bytes and profile always yield the same receipt: the
\* verdict is the verdict of the bytes that were hashed.
ReceiptIsAboutItsHash ==
    out # <<>> /\ out[1].kind = "receipt" =>
        out[1].fails = ~OkVerdict(Head(read), Profile)

\* cli.py:2404: by the time the process ends on a signal the staged file is unlinked.
SignalLeavesNoTemp == pc = "exited" => tmp = "none"
============================================================================
