----------------------------- MODULE SealVerify -----------------------------
(***************************************************************************)
(* verifier-py/verify_vh.py: the offline verifier of evidence seals.       *)
(*                                                                         *)
(* A producer has sealed the files of a directory D and perhaps signed the *)
(* seal.  The artifact travels by any means, so that any of its fields may *)
(* have been changed, or the whole of it replaced, before it is verified;  *)
(* the directory is edited while the verifier reads it, file by file.      *)
(*                                                                         *)
(* keccak256 is the injective constructor of MerkleTree.  A signature is   *)
(* [by, over, onCurve]: recovered over another message it gives an address *)
(* nobody holds, and off the curve none.  EcRecover models the recovery.   *)
(* A relPath is [text, at, refused]: how it is spelled, the place it names *)
(* under the base directory (toPosixRel of the text) and whether its text  *)
(* alone is refused (absolute, empty, or with a "..").                     *)
(***************************************************************************)
EXTENDS MerkleTree, SequencesExt

CONSTANTS
    Inside,           \* places under the directory D
    Below,            \* those of them in its subdirectory
    Sealed,           \* the places the producer sealed
    Linkable,         \* places somebody may turn into a symbolic link ...
    LinkTo,           \* ... and what the links lead to; "out" is outside D
    Content,          \* what a file holds
    LeafValue(_, _),  \* path_leaf's 32-byte value for a path and a content
    RelPaths,         \* the spellings an artifact may use
    Argvs,            \* the command lines
    Bases,            \* "real" or "linked": whether the path of D holds a symbolic link
    MaxTamper, MaxEdits

VARIABLES
    fs, scannable,    \* the directory: what is where, and whether its subdirectory can be listed
    genuine,          \* the seal the producer made
    artifact,         \* the file to verify
    place,            \* whether that file lies in D, and how D is reached
    run, out,         \* the verifier, and what it answered
    tampered, edits
vars == <<fs, scannable, genuine, artifact, place, run, out, tampered, edits>>

Absent == <<"absent">>
File(c) == <<"file", c>>
Link(t) == <<"link", t>>
Producer == "P"
Forger == "M"
Null == "none"
Idle == [pc |-> "idle"]

----------------------------------------------------------------------------
\* The Merkle root and the signer

\* Mutant: the path is not part of the leaf.
PathLeafBare(rel, hash) == Digest(hash)

PathLeaf(rel, hash) == Digest(LeafValue(rel.at, hash))

RootFromFlat(flat) == Root(buildTree([i \in DOMAIN flat |-> PathLeaf(flat[i].rel, flat[i].hash)]))

TryRecover(message, sig) ==
    IF ~sig.onCurve THEN Null ELSE IF sig.over = message THEN sig.by ELSE "somebody"

----------------------------------------------------------------------------
\* Artifacts: [form, kind, block, seal, sig, claimed].  form is how the file itself
\* reads, block the first defect of the signature block, and seal the payload,
\* [kind, shape, files, root] with shape its first structural defect.

SealOf(files) ==
    [kind |-> "seal", shape |-> "ok", files |-> files, root |-> RootFromFlat(files)]
SealedBy(who, kind, files) ==
    [form |-> "ok", kind |-> kind, block |-> "ok", seal |-> SealOf(files),
     sig |-> [by |-> who, over |-> SealOf(files), onCurve |-> TRUE], claimed |-> who]

Plain(at) == [text |-> at, at |-> at, refused |-> FALSE]
HoldsFile(at) == fs[at][1] = "file"
EntriesOf(places) ==
    LET names == SetToSeq({p \in places : HoldsFile(p)})
    IN [i \in DOMAIN names |-> [rel |-> Plain(names[i]), hash |-> fs[names[i]][2]]]

----------------------------------------------------------------------------
\* parse_args

NoOpts == [artifact |-> Null, vendor |-> Null, dir |-> Null, exact |-> FALSE, json |-> FALSE]
Flags == {"--vendor", "--dir", "--exact-dir", "--json", "-h", "--nope"}

ParseToken(state, token) ==
    IF state.end # Null THEN state
    ELSE IF state.want # Null THEN [state EXCEPT !.want = Null, !.opts[state.want] = token]
    ELSE CASE token = "--vendor" -> [state EXCEPT !.want = "vendor"]
           [] token = "--dir" -> [state EXCEPT !.want = "dir"]
           [] token = "--exact-dir" -> [state EXCEPT !.opts.exact = TRUE]
           [] token = "--json" -> [state EXCEPT !.opts.json = TRUE]
           [] token = "-h" -> [state EXCEPT !.end = "help"]
           [] token = "--nope" -> [state EXCEPT !.end = "usage"]
           [] token \notin Flags -> IF state.opts.artifact # Null THEN [state EXCEPT !.end = "usage"]
                                    ELSE [state EXCEPT !.opts.artifact = token]

ParseArgs(argv) ==
    LET parsed == FoldLeft(ParseToken, [opts |-> NoOpts, want |-> Null, end |-> Null], argv)
    IN IF parsed.end = Null /\ parsed.want # Null THEN [parsed EXCEPT !.end = "usage"] ELSE parsed

----------------------------------------------------------------------------
\* verify_artifact and verify_parsed_artifact, up to the files

\* The directory the files are read from: D, the artifact's own, or none there is.
BaseDir(opts) ==
    IF opts.dir = "D" \/ (opts.dir = Null /\ place.inD) THEN "D"
    ELSE IF opts.dir = Null THEN "home" ELSE "nowhere"

\* _decode_signed: the signature block and the embedded text are well formed.
SignatureBlock == artifact.kind = "signed" => artifact.block = "ok"

\* The exit code of the first check that fails, 0 when there is none.
Refused(opts) ==
    IF opts.artifact = Null THEN 2
    ELSE IF artifact.form # "ok" THEN 1
    ELSE IF opts.vendor \notin {Null, Producer, Forger} \/ artifact.kind = "other" THEN 2
    ELSE IF ~SignatureBlock THEN 1
    ELSE IF artifact.seal.kind # "seal" THEN 2
    ELSE IF artifact.seal.shape # "ok" THEN 1 ELSE 0

Exit(code, result) ==
    /\ out' = [code |-> code, result |-> result]
    /\ run' = [run EXCEPT !.pc = "done"]

Empty == [matched |-> <<>>, changed |-> <<>>, missing |-> <<>>, escaped |-> <<>>, flat |-> <<>>]
NoResult == [reason |-> Null]

Start ==
    /\ run.pc = "idle"
    /\ \E argv \in Argvs :
         LET parsed == ParseArgs(argv)
             opts == parsed.opts
             refused == Refused(opts)
             code == IF parsed.end = "help" THEN 0 ELSE IF parsed.end = "usage" THEN 2 ELSE refused
         IN IF parsed.end # Null \/ refused # 0
            THEN /\ run' = [pc |-> "done", opts |-> opts, since |-> [fs |-> fs, edits |-> edits]]
                 /\ out' = [code |-> code, result |-> NoResult]
            ELSE /\ run' = [pc |-> "read", opts |-> opts, base |-> BaseDir(opts), i |-> 1,
                            got |-> Empty, data |-> Null, reason |-> Null, todo |-> {}, seen |-> {},
                            since |-> [fs |-> fs, edits |-> edits]]
                 /\ UNCHANGED out
    /\ UNCHANGED <<fs, scannable, genuine, artifact, place, tampered, edits>>

----------------------------------------------------------------------------
\* _make_disk_read_entry and _classify_files: an entry is opened and read, and then,
\* a step later, its real path is looked at.

Opened(at) ==
    IF HoldsFile(at) THEN fs[at]
    ELSE IF fs[at][1] = "link" /\ HoldsFile(fs[at][2]) THEN fs[fs[at][2]] ELSE Absent

Escapes(at) == at \notin Inside
RealPath(at) == IF fs[at][1] = "link" THEN fs[at][2] ELSE at

Entry == artifact.seal.files[run.i]

Classified(got, status, hash) ==
    LET named == [rel |-> Entry.rel, hash |-> hash]
    IN IF status = "escaped" THEN [got EXCEPT !.escaped = Append(@, Entry.rel)]
       ELSE IF status = "missing" THEN [got EXCEPT !.missing = Append(@, Entry.rel)]
       ELSE IF hash = Entry.hash
       THEN [got EXCEPT !.flat = Append(@, named), !.matched = Append(@, Entry.rel)]
       ELSE [got EXCEPT !.flat = Append(@, named), !.changed = Append(@, Entry.rel)]

NextEntry(status, hash) ==
    run' = [run EXCEPT !.pc = "read", !.i = @ + 1, !.got = Classified(@, status, hash), !.data = Null]

\* The unresolved path is held against the resolved base directory.
ReadEntry ==
    /\ run.pc = "read" /\ run.i <= Len(artifact.seal.files)
    /\ LET at == Entry.rel.at
           read == IF run.base = "D" THEN Opened(at) ELSE Absent
       IN IF Entry.rel.refused \/ (run.base = "D" /\ place.path = "linked")
          THEN NextEntry("escaped", Null)
          ELSE IF read = Absent THEN NextEntry("missing", Null)
          ELSE run' = [run EXCEPT !.pc = "resolve", !.data = read[2]]
    /\ UNCHANGED <<fs, scannable, genuine, artifact, place, out, tampered, edits>>

ResolveEntry ==
    /\ run.pc = "resolve"
    /\ IF Escapes(RealPath(Entry.rel.at)) THEN NextEntry("escaped", Null)
       ELSE NextEntry("ok", run.data)
    /\ UNCHANGED <<fs, scannable, genuine, artifact, place, out, tampered, edits>>

----------------------------------------------------------------------------
\* _verify_evidence_seal and the verdict

RootMatches(got) ==
    /\ got.missing = <<>> /\ got.changed = <<>> /\ got.escaped = <<>> /\ got.flat # <<>>
    /\ RootFromFlat(got.flat) = artifact.seal.root

FileReason(got) ==
    IF got.escaped # <<>> THEN "path_escape"
    ELSE IF got.changed # <<>> THEN "CHANGED"
    ELSE IF got.missing # <<>> THEN "MISSING"
    ELSE IF RootMatches(got) THEN "OK" ELSE "root_mismatch"

Reason(got, opts) ==
    LET recovered == TryRecover(artifact.seal, artifact.sig)
        files == FileReason(got)
    IN IF artifact.kind # "signed"
       THEN IF opts.vendor # Null THEN "unsigned_cannot_pin_vendor" ELSE files
       ELSE IF recovered # artifact.claimed \/ recovered = Null THEN "bad_signature"
       ELSE IF opts.vendor \notin {Null, recovered} /\ files = "OK" THEN "wrong_issuer"
       ELSE files

Result(got, opts, reason) ==
    [reason |-> reason, accepted |-> reason = "OK", got |-> got, unexpected |-> {},
     recovered |-> IF artifact.kind = "signed" THEN TryRecover(artifact.seal, artifact.sig) ELSE Null,
     opts |-> opts]

Decide ==
    /\ run.pc = "read" /\ run.i > Len(artifact.seal.files)
    /\ LET reason == Reason(run.got, run.opts)
       IN IF run.opts.exact
          THEN /\ run' = [run EXCEPT !.pc = "scan", !.reason = reason, !.todo = {"base"}]
               /\ UNCHANGED out
          ELSE Exit(IF reason = "OK" THEN 0 ELSE 3, Result(run.got, run.opts, reason))
    /\ UNCHANGED <<fs, scannable, genuine, artifact, place, tampered, edits>>

----------------------------------------------------------------------------
\* --exact-dir: _list_dir_entries_recursive, one directory at a step, and
\* _apply_exact_dir.  Links are listed and never followed.

Listed(dir) ==
    IF run.base = "home" THEN {"artifact"}
    ELSE IF dir = "sub" THEN {p \in Below : fs[p] # Absent}
    ELSE {p \in Inside \ Below : fs[p] # Absent} \cup (IF place.inD THEN {"artifact"} ELSE {})

\* Mutant: a subdirectory that cannot be listed is passed over.
ScanDirQuietly ==
    /\ run.pc = "scan" /\ run.todo # {}
    /\ \E dir \in run.todo :
         IF run.base = "nowhere" THEN Exit(1, NoResult)
         ELSE /\ run' = [run EXCEPT
                  !.todo = (@ \ {dir}) \cup (IF dir = "base" /\ run.base = "D" THEN {"sub"} ELSE {}),
                  !.seen = @ \cup IF dir = "sub" /\ ~scannable THEN {} ELSE Listed(dir)]
              /\ UNCHANGED out
    /\ UNCHANGED <<fs, scannable, genuine, artifact, place, tampered, edits>>

ScanDir ==
    /\ run.pc = "scan" /\ run.todo # {}
    /\ \E dir \in run.todo :
         IF run.base = "nowhere" \/ (dir = "sub" /\ ~scannable) THEN Exit(1, NoResult)
         ELSE /\ run' = [run EXCEPT
                  !.todo = (@ \ {dir}) \cup (IF dir = "base" /\ run.base = "D" THEN {"sub"} ELSE {}),
                  !.seen = @ \cup Listed(dir)]
              /\ UNCHANGED out
    /\ UNCHANGED <<fs, scannable, genuine, artifact, place, tampered, edits>>

Texts(rels) == {rels[i].text : i \in DOMAIN rels}
Named(got) == Texts(got.matched) \cup Texts(got.changed) \cup Texts(got.missing) \cup Texts(got.escaped)

\* Mutant: the artifact's own file counts as unexpected.
UnexpectedWithSelf(seen, got) == seen \ Named(got)

Unexpected(seen, got) == (seen \ Named(got)) \ {"artifact"}

ApplyExactDir ==
    /\ run.pc = "scan" /\ run.todo = {}
    /\ LET extra == Unexpected(run.seen, run.got)
           reason == IF extra # {} /\ run.reason = "OK" THEN "UNEXPECTED" ELSE run.reason
       IN Exit(IF reason = "OK" THEN 0 ELSE 3,
               [Result(run.got, run.opts, reason) EXCEPT !.unexpected = extra])
    /\ UNCHANGED <<fs, scannable, genuine, artifact, place, tampered, edits>>

----------------------------------------------------------------------------
\* render_human: the lines that say what was found

RenderHuman(r) ==
    LET of(kind, rels) == {[line |-> kind, about |-> t] : t \in Texts(rels)}
    IN IF r.accepted THEN {[line |-> "OK", about |-> Null]}
       ELSE of("CHANGED", r.got.changed) \cup of("MISSING", r.got.missing)
            \cup of("REJECTED", r.got.escaped)
            \cup {[line |-> "UNEXPECTED", about |-> t] : t \in r.unexpected}
            \cup (IF r.reason \in {"bad_signature", "wrong_issuer", "unsigned_cannot_pin_vendor",
                                   "root_mismatch", "path_escape"}
                  THEN {[line |-> r.reason, about |-> Null]} ELSE {})

----------------------------------------------------------------------------
\* What happens to the artifact on its way, and to the directory

Tamper ==
    /\ run.pc = "idle" /\ tampered < MaxTamper
    /\ tampered' = tampered + 1
    /\ \/ \E f \in {"unreadable", "text", "array"} : artifact' = [artifact EXCEPT !.form = f]
       \/ \E k \in {"seal", "other"} : artifact' = [artifact EXCEPT !.kind = k]
       \/ \E b \in {"missing", "scheme", "text", "signature", "signer", "json"} :
             artifact' = [artifact EXCEPT !.block = b]
       \/ artifact' = [artifact EXCEPT !.seal.kind = "other"]
       \/ \E s \in {"files", "root", "entry"} : artifact' = [artifact EXCEPT !.seal.shape = s]
       \/ artifact' = [artifact EXCEPT !.claimed = Forger]
       \/ artifact' = [artifact EXCEPT !.sig.onCurve = FALSE]
       \/ \E i \in DOMAIN artifact.seal.files, c \in Content :
             artifact' = [artifact EXCEPT !.seal.files[i].hash = c]
       \/ \E i \in DOMAIN artifact.seal.files, r \in RelPaths :
             artifact' = [artifact EXCEPT !.seal.files[i].rel = r]
       \/ \E i \in DOMAIN artifact.seal.files :
             artifact' = [artifact EXCEPT !.seal.files = RemoveAt(@, i)]
       \/ \E i \in DOMAIN artifact.seal.files :
             artifact' = [artifact EXCEPT !.seal.files = Append(@, @[i])]
       \/ EntriesOf(Inside) # <<>> /\ artifact' = SealedBy(Forger, artifact.kind, EntriesOf(Inside))
    /\ artifact'.seal.files # <<>>
    /\ UNCHANGED <<fs, scannable, genuine, place, run, out, edits>>

Edit ==
    /\ run.pc # "done" /\ edits < MaxEdits
    /\ edits' = edits + 1
    /\ \/ \E p \in Inside, c \in Content : fs' = [fs EXCEPT ![p] = File(c)] /\ UNCHANGED scannable
       \/ \E p \in Inside : fs' = [fs EXCEPT ![p] = Absent] /\ UNCHANGED scannable
       \/ \E p \in Linkable, t \in LinkTo : fs' = [fs EXCEPT ![p] = Link(t)] /\ UNCHANGED scannable
       \/ scannable' = ~scannable /\ UNCHANGED fs
    /\ fs' # fs \/ scannable' # scannable
    /\ UNCHANGED <<genuine, artifact, place, run, out, tampered>>

Init ==
    /\ fs \in {f \in [Inside \cup {"out"} -> {Absent} \cup {File(c) : c \in Content}] :
                  /\ \A p \in Inside : (f[p] # Absent) <=> p \in Sealed
                  /\ f["out"] # Absent}
    /\ scannable \in BOOLEAN
    /\ LET names == SetToSeq(Sealed)
           files == [i \in DOMAIN names |-> [rel |-> Plain(names[i]), hash |-> fs[names[i]][2]]]
       IN /\ genuine = SealOf(files)
          /\ \E kind \in {"seal", "signed"} : artifact = SealedBy(Producer, kind, files)
    /\ place \in [inD : BOOLEAN, path : Bases]
    /\ run = Idle /\ out = [code |-> -1, result |-> NoResult] /\ tampered = 0 /\ edits = 0

Next == Start \/ ReadEntry \/ ResolveEntry \/ Decide \/ ScanDir \/ ApplyExactDir \/ Tamper \/ Edit
Spec == Init /\ [][Next]_vars
----------------------------------------------------------------------------
\* Properties

Accepted == out.result.reason = "OK"
Answered == out.result.reason # Null
Quiet == run.since.edits = edits
Sound(rel) == ~rel.refused /\ ~Escapes(RealPath(rel.at))
Held(files) == {<<files[i].rel.at, files[i].hash>> : i \in DOMAIN files}
Reads(e) == run.base = "D" /\ Sound(e.rel) /\ Opened(e.rel.at) = File(e.hash)

\* An accepted artifact that carries the producer's root, or whose signer was pinned
\* to the producer, was verified against exactly the files the producer sealed,
\* whatever happened to the artifact and to the directory (verify_parsed_artifact).
AcceptedIsGenuine ==
    Accepted /\ (out.result.opts.vendor = Producer \/ artifact.seal.root = genuine.root) =>
        Held(out.result.got.flat) = Held(genuine.files)

\* The producer's artifact and files, untouched, are accepted: with or without
\* --exact-dir, with or without the right pin, wherever the artifact lies.
Untouched(path) ==
    /\ run.pc = "done" /\ Answered /\ tampered = 0 /\ edits = 0
    /\ place.path = path /\ run.base = "D"
    /\ run.opts.vendor \in {Null} \cup (IF artifact.kind = "signed" THEN {Producer} ELSE {})
GenuineAccepted == Untouched("real") => out.code = 0 /\ Accepted

\* --exact-dir: "REJECTS (exit 3, reason UNEXPECTED) any file present on disk but not
\* named by the seal", "never a silently-partial scan" (verify_vh.py:413-420): what
\* lay in the directory before and after an accepting run is named by the seal.
ExactDirClosed ==
    Accepted /\ run.opts.exact /\ run.base = "D" /\ edits <= run.since.edits + 1 =>
        \A p \in Inside : run.since.fs[p] # Absent /\ fs[p] # Absent => p \in Named(run.got)

\* The reason of a rejection is true of the artifact and of the directory, when
\* nobody edited it meanwhile; the signer is blamed only when the files are right.
ReasonIsTrue ==
    Answered /\ ~Accepted /\ Quiet =>
        LET files == artifact.seal.files
            signedBy == IF artifact.sig.over = artifact.seal /\ artifact.sig.onCurve
                        THEN artifact.sig.by ELSE Null
            because(reason) == out.result.reason = reason
        IN /\ because("path_escape") =>
                  place.path = "linked" \/ \E i \in DOMAIN files : ~Sound(files[i].rel)
           /\ because("CHANGED") =>
                  \E i \in DOMAIN files : Opened(files[i].rel.at) \notin {Absent, File(files[i].hash)}
           /\ because("MISSING") =>
                  run.base # "D" \/ \E i \in DOMAIN files : Opened(files[i].rel.at) = Absent
           /\ because("root_mismatch") =>
                  (\A i \in DOMAIN files : Reads(files[i])) /\ RootFromFlat(files) # artifact.seal.root
           /\ because("UNEXPECTED") =>
                  run.opts.exact /\ \E p \in Inside : fs[p] # Absent /\ \A i \in DOMAIN files : files[i].rel.text # p
           /\ because("bad_signature") => signedBy # artifact.claimed
           /\ because("wrong_issuer") =>
                  /\ signedBy = artifact.claimed /\ signedBy # run.opts.vendor
                  /\ \A i \in DOMAIN files : Reads(files[i])
           /\ because("unsigned_cannot_pin_vendor") => artifact.kind = "seal"
           /\ out.result.reason \in {"path_escape", "CHANGED", "MISSING", "root_mismatch", "UNEXPECTED",
                                    "bad_signature", "wrong_issuer", "unsigned_cannot_pin_vendor"}

\* The text names every file that is changed, missing, refused or unexpected in the
\* result that --json prints, whichever reason dominates (render_human).
TextOmitsNothing ==
    Answered =>
        LET r == out.result
        IN Texts(r.got.changed) \cup Texts(r.got.missing) \cup Texts(r.got.escaped) \cup r.unexpected
             \subseteq {l.about : l \in RenderHuman(r)}

\* "a symlinked baseDir itself (e.g. /tmp -> /private/tmp on macOS) does not spuriously
\* trip the containment check on otherwise-legitimate siblings" (verify-vh.js:2661).
LinkedBaseAccepted == Untouched("linked") => Accepted
=============================================================================
