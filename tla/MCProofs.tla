------------------------------ MODULE MCProofs ------------------------------
(***************************************************************************)
(* What is proved about files by hashes and signatures, model-checked in   *)
(* one state space: the directory proofs of the command line client, and   *)
(* the offline verifier of seals with its key recovery.  A behaviour is    *)
(* one of a single component, the one `part` names; the variables of the   *)
(* others stay <<>>.                                                       *)
(***************************************************************************)
EXTENDS DirectoryProofs

CONSTANTS                                           \* the constants of SealVerify
    SealInside, SealBelow, Sealed, SealLinkable, SealLinkTo, SealContent, SealLeafValue(_, _),
    SealRelPaths, SealArgvs, SealBases, SealTamper, SealEdits

\* Places are told apart from what lies outside and from the artifact, the producer sealed
\* something, and path_leaf tells two paths and two contents apart.
SealPlaces == SealInside \cup {"out"}
ASSUME SealAssumption ==
    /\ IsFiniteSet(SealInside) /\ "out" \notin SealInside /\ "artifact" \notin SealInside
    /\ SealBelow \subseteq SealInside /\ Sealed \subseteq SealInside /\ Sealed # {}
    /\ SealLinkable \subseteq SealInside /\ SealLinkTo \subseteq SealPlaces
    /\ SealContent \subseteq Nat
    /\ \A rel \in SealRelPaths : rel.at \in SealPlaces
    /\ \A p, q \in SealPlaces, c, d \in SealContent :
         /\ SealLeafValue(p, c) \in Nat
         /\ SealLeafValue(p, c) = SealLeafValue(q, d) => p = q /\ c = d

VARIABLES
    part,                                           \* the component that runs
    fs, scannable, genuine, place, run, out,        \* SealVerify, with artifact,
                                                    \* tampered and edits
    signature, signer                               \* EcRecover

dirOnly == <<dir, job, anchored, output>>
sealOnly == <<fs, scannable, genuine, place, run, out>>
shared == <<artifact, tampered, edits>>
curveVars == <<signature, signer>>
allVars == <<part, dirOnly, sealOnly, shared, curveVars>>

\* One possible order of the digests: writing another content moves a file's leaf.
ContentMajor(path, content) == 10 * content + path

\* Two sealed files, a third place beside them and one in a subdirectory; an entry may
\* be respelled with a leading "./" or point out of the directory.
MCInside == {"a", "b", "x", "y"}
Named(p) == [text |-> p, at |-> p, refused |-> FALSE]
MCRelPaths ==
    {Named("a"), Named("x"), [text |-> "./a", at |-> "a", refused |-> FALSE],
     [text |-> "../out", at |-> "out", refused |-> TRUE]}
PathNumber == [p \in MCInside \cup {"out"} |-> CASE p = "a" -> 1 [] p = "b" -> 2 [] p = "x" -> 3
                                               [] p = "y" -> 4 [] p = "out" -> 5]
MCLeafValue(p, c) == 10 * ((PathNumber[p] * 3) % 7) + c
MCArgvs ==
    {<<"A">>, <<"A", "--exact-dir">>, <<"A", "--dir", "D", "--vendor", "P">>,
     <<"--vendor", "M", "--dir", "D", "A">>, <<"--dir", "D", "A", "--exact-dir", "--json">>,
     <<"A", "--dir", "--exact-dir">>, <<"A", "--dir", "none", "--exact-dir">>}
UsageArgvs ==
    {<<>>, <<"-h">>, <<"A", "A">>, <<"A", "--nope">>, <<"A", "--vendor">>,
     <<"A", "--vendor", "--json">>, <<"--json">>}
AllArgvs == MCArgvs \cup UsageArgvs

Seal == INSTANCE SealVerify WITH
    Inside <- SealInside, Below <- SealBelow, Linkable <- SealLinkable, LinkTo <- SealLinkTo,
    Content <- SealContent, LeafValue <- SealLeafValue, RelPaths <- SealRelPaths,
    Argvs <- SealArgvs, Bases <- SealBases, MaxTamper <- SealTamper, MaxEdits <- SealEdits

\* A curve of prime order 31 over the field of 43 elements.
Curve == INSTANCE EcRecover WITH
    P <- 43, N <- 31, GX <- 2, GY <- 12, Bits <- 5, Keys <- {1, 2, 17, 30},
    Digests <- {0, 1, 12, 30}, Vs <- {0, 1, 2, 27, 28, 30}

----------------------------------------------------------------------------
NoDir == dir = <<>> /\ job = <<>> /\ anchored = <<>> /\ output = <<>>
NoSeal ==
    /\ fs = <<>> /\ scannable = <<>> /\ genuine = <<>> /\ place = <<>> /\ run = <<>>
    /\ out = <<>>
NoShared == artifact = <<>> /\ tampered = <<>> /\ edits = <<>>
NoCurve == signature = <<>> /\ signer = <<>>

ProofsInit ==
    \/ part = "directory" /\ DirInit /\ NoSeal /\ NoCurve
    \/ part = "seal" /\ Seal!Init /\ NoDir /\ NoCurve
    \/ part = "curve" /\ Curve!Init /\ NoDir /\ NoSeal /\ NoShared

DirectoryStep == part = "directory" /\ DirNext /\ UNCHANGED <<part, sealOnly, curveVars>>
SealStep == part = "seal" /\ Seal!Next /\ UNCHANGED <<part, dirOnly, curveVars>>
CurveStep == part = "curve" /\ Curve!Next /\ UNCHANGED <<part, dirOnly, sealOnly, shared>>

ProofsNext == DirectoryStep \/ SealStep \/ CurveStep
ProofsSpec == ProofsInit /\ [][ProofsNext]_allVars

----------------------------------------------------------------------------
\* A verified match or an accepted proof stands for something anchored: vh verify matches
\* exactly what some anchoring command read, whatever was renamed or edited in between,
\* and vh verify-proof accepts only a file of an anchored directory, whichever field of
\* the artifact was changed on its way.  One that nobody changed is never called a forgery:
\* with a provider it is accepted, or its root is not anchored (cli/verify.js,
\* cli/proof.js).
AcceptedIsAnchored ==
    part = "directory" =>
        VerifyExact /\ AcceptedWasAnchored /\ ReportedRootAnchored /\ GenuineNotRejected

\* An accepted seal that carries the producer's root, or whose signer was pinned to the
\* producer, was verified against exactly the files the producer sealed, whatever
\* happened to the artifact and to the directory (verify_parsed_artifact).
AcceptedIsGenuine == part = "seal" => Seal!AcceptedIsGenuine

\* The producer's artifact and files, untouched, are accepted, and a rejection gives a
\* reason that is true and a text that names every file concerned (decide, render_human).
GenuineAccepted ==
    part = "seal" => Seal!GenuineAccepted /\ Seal!ReasonIsTrue /\ Seal!TextOmitsNothing

\* --exact-dir: no accepting run leaves a file in the directory that the seal does not
\* name, and what cannot be listed is no clean scan (_collect_unexpected).
ExactDirClosed == part = "seal" => Seal!ExactDirClosed

\* A signature made by a key recovers to that key, and what any 65 bytes recover to is a
\* key under which they verify (recover_personal_sign_address, try_recover).
SignerIsRecovered ==
    part = "curve" =>
        Curve!SignerIsRecovered /\ Curve!RecoveredVerifies /\ Curve!MultiplesFormGroup

\* "a symlinked baseDir itself (e.g. /tmp -> /private/tmp on macOS) does not spuriously
\* trip the containment check on otherwise-legitimate siblings" (verify-vh.js:2661).
LinkedBaseAccepted == part = "seal" => Seal!LinkedBaseAccepted
=============================================================================
