------------------------------ MODULE MCReleases ------------------------------
(***************************************************************************)
(* What goes around a release, in one state space: the parallel            *)
(* differential gate, one run after the other over two versions of the     *)
(* sources; the check of the served site against a tree of an index, one   *)
(* noindex and two indexable rule pages and an engine of two files; and    *)
(* the generators, over two revisions that build and one that does not.    *)
(* The two checks have the fairness that makes them end.  A behaviour is   *)
(* one of a single component, the one `part` names; the variables of the   *)
(* others stay <<>>.                                                       *)
(***************************************************************************)
EXTENDS MCDiffGate

CONSTANTS                                           \* the constants of VerifyLive
    SiteBase, SiteCommittedBase, SiteCommitted, SiteStale, SitePages, SiteRulePages, SiteEngine,
    SiteSitemapSample, SiteRobotsSample, SiteMaxStale, SiteMaxCopies

CONSTANTS                                           \* the constants of TrustArtifacts
    RuleFamily, RuleCanonical, RuleCiiOnly, RuleTokens, Revisions, Releases,
    MaxEdits, MaxRuns, MaxKills

VARIABLES
    part,                                                          \* the component that runs
    live, todo, manifest, findings, result, copies, wrong,         \* VerifyLive, with faults
    sources, surface, writer, edits, runs, kills                   \* TrustArtifacts

gateOnly == <<tree, disk, tmp, worker, gate>>
liveOnly == <<live, todo, manifest, findings, result, copies, wrong>>
artOnly == <<sources, surface, writer, edits, runs, kills>>
allVars == <<part, gateOnly, liveOnly, artOnly, faults>>

MCPages == <<"home", "r1", "r2", "r3">>
MCRulePages == {"r1", "r2", "r3"}
MCEngine == <<"e1", "e2">>

Page(p, build, title, noindex) ==
    [build |-> build, title |-> title, url |-> <<"prod", p>>, canonical |-> <<"prod", p>>,
     ld |-> 1, noindex |-> noindex]
Map(locs, build) == [build |-> build, locs |-> [i \in DOMAIN locs |-> <<"prod", locs[i]>>]]
Manifest(version, files, digests) == [version |-> version, files |-> files, digests |-> digests]
E1E2(a, b) == [n \in {"e1", "e2"} |-> IF n = "e1" THEN a ELSE b]

MCCommitted ==
    [p \in {"home", "r1", "r2", "r3", "sitemap", "card", "manifest", "e1", "e2"} |->
        CASE p = "sitemap" -> Map(<<"home", "r2", "r3">>, "new")
          [] p = "manifest" -> Manifest("2", {"e1", "e2"}, E1E2("new", "new"))
          [] p \in {"card", "e1", "e2"} -> [build |-> "new"]
          [] OTHER -> Page(p, "new", "t2", p = "r1")]

\* Older bodies: with another title, only other bytes, the old crawl surface, a manifest
\* that differs in its digests only.
MCStale ==
    [p \in DOMAIN MCCommitted |->
        CASE p = "sitemap" -> {Map(<<"home", "r1", "r2", "r3">>, "old"), Map(<<"home", "r9", "r2">>, "old")}
          [] p = "manifest" -> {Manifest("2", {"e1", "e2"}, E1E2("old", "new")),
                                Manifest("2", {"e1", "e2"}, E1E2("old", "old")),
                                Manifest("1", {"e1"}, [n \in {"e1"} |-> "new"])}
          [] p \in {"card", "e1", "e2"} -> {[build |-> "old"]}
          [] OTHER -> {Page(p, "old", "t1", p = "r1"), Page(p, "old", "t2", p # "r1")}]

Live == INSTANCE VerifyLive WITH
    Base <- SiteBase, CommittedBase <- SiteCommittedBase, Committed <- SiteCommitted,
    Stale <- SiteStale, Pages <- SitePages, RulePages <- SiteRulePages, Engine <- SiteEngine,
    SitemapSample <- SiteSitemapSample, RobotsSample <- SiteRobotsSample,
    MaxStale <- SiteMaxStale, MaxCopies <- SiteMaxCopies

Says(id, flag, test, german) == [id |-> id, flag |-> flag, test |-> test, german |-> german]
Rule(context, asserts) == [context |-> context, asserts |-> asserts]

MCFamily ==
    [id \in {"BR-1", "BR-2", "BR-3", "BR-DE-1", "BR-DE-2", "BR-DEX-1", "BR-TMP-3",
             "R1", "R1-1", "R1-2", "SB-1", "SB-2"} |->
        CASE id \in {"BR-1", "BR-2", "BR-3"} -> "core"
          [] id \in {"BR-DE-1", "BR-DE-2"} -> "cius"
          [] id = "BR-DEX-1" -> "extension"
          [] id = "BR-TMP-3" -> "cvd-tmp"
          [] id \in {"R1", "R1-1", "R1-2"} -> "peppol"
          [] OTHER -> "binding"]
MCCanonical == [id \in DOMAIN MCFamily |-> IF id \in {"R1-1", "R1-2"} THEN "R1" ELSE id]
MCTokens ==
    [t \in {"exists(x)", "not(x)", "count(x)", "true()"} |->
        CASE t = "exists(x)" -> {"exists("} [] t = "not(x)" -> {"not("}
          [] t = "count(x)" -> {"count(", "not("} [] OTHER -> {"operator"}]

\* A second assert of an id, one without a flag, one without a test to fail, and one a CII
\* context cannot reach.
MCCen ==
    [ubl |-> <<Rule("root", <<Says("BR-1", "", "exists(x)", FALSE),
                              Says("BR-2", "fatal", "true()", FALSE),
                              Says("SB-1", "warning", "not(x)", FALSE)>>),
               Rule("line", <<Says("BR-3", "fatal", "exists(x)", FALSE),
                              Says("BR-1", "warning", "true()", FALSE),
                              Says("SB-2", "", "count(x)", FALSE)>>)>>,
     cii |-> <<Rule("row", <<Says("BR-1", "fatal", "exists(x)", FALSE),
                             Says("BR-2", "fatal", "true()", FALSE)>>),
               Rule("line", <<Says("BR-3", "fatal", "exists(x)", FALSE),
                              Says("SB-1", "", "not(x)", FALSE)>>)>>]
MCKosit ==
    [ubl |-> <<Rule("root", <<Says("BR-DE-1", "warning", "exists(x)", TRUE),
                              Says("BR-DEX-1", "fatal", "exists(x)", FALSE),
                              Says("R1", "fatal", "exists(x)", FALSE)>>)>>,
     cii |-> <<Rule("root", <<Says("BR-DE-1", "warning", "exists(x)", TRUE),
                              Says("BR-TMP-3", "fatal", "exists(x)", TRUE),
                              Says("R1-1", "fatal", "exists(x)", FALSE),
                              Says("R1-2", "fatal", "exists(x)", FALSE)>>)>>]
MCDocument(path, syntax, markers, fatal) ==
    [path |-> path, syntax |-> syntax, markers |-> markers, accepted |-> fatal = {},
     fatal |-> fatal]

MCRevision ==
    [core |-> {"BR-1"}, deUbl |-> {"BR-DE-1", "BR-DEX-1"}, deCii |-> {"BR-DE-1", "BR-TMP-3"},
     pepUbl |-> {"R1"}, pepCii |-> {"R1"},
     proven |-> [ubl |-> {"BR-1", "BR-DE-1", "BR-DEX-1", "R1"},
                 cii |-> {"BR-DE-1", "BR-TMP-3", "R1"}],
     title |-> [id \in DOMAIN MCFamily |-> <<id, "title">>],
     flag |-> [id \in DOMAIN MCFamily |-> IF id = "BR-DE-1" THEN "warning" ELSE "fatal"],
     frames |-> {<<id, "exists(x)">> : id \in {"BR-1", "BR-3", "R1"}} \cup {<<"BR-DEX-1", "title">>},
     cen |-> MCCen, cenSource |-> MCCen.ubl, kosit |-> MCKosit,
     vacuous |-> {}, codelist |-> {}, ciiDeferred |-> {}, ublReason |-> {},
     defects |-> [id \in {"BR-1"} |-> [kind |-> "row", class |-> "cii-artifact-defective"]],
     grammar |-> {<<"root", "not(x)">>, <<"line", "not(x)">>},
     claimed |-> {"SB-1"}, audited |-> {"SB-1", "SB-2"},
     notes |-> {[scope |-> "BR-1", wants |-> TRUE, fires |-> TRUE],
                [scope |-> "BR-2", wants |-> FALSE, fires |-> FALSE]},
     openNotes |-> {},
     suite |-> {MCDocument(1, "UBL", {"ends in xrechnung_3.0"}, {}),
                MCDocument(2, "CII", {"ends in xrechnung_3.0"}, {"BR-1"}),
                MCDocument(3, "UBL", {"extension"}, {"BR-1"})},
     rest |-> 1, version |-> 1, api |-> 1, samples |-> 1]
\* The next one has a rule more and a title reworded; in the last KoSIT's artifact has a rule
\* nobody implements.
MCNextRevision ==
    [MCRevision EXCEPT !.core = {"BR-1", "BR-3"}, !.proven.ubl = @ \cup {"BR-3"},
                       !.proven.cii = @ \cup {"BR-3"}, !.title["BR-DE-1"] = <<"BR-DE-1", "reworded">>,
                       !.rest = 2, !.version = 2, !.samples = 2]
MCBumpedRevision ==
    [MCRevision EXCEPT !.kosit.ubl =
        Append(@, Rule("line", <<Says("BR-DE-2", "fatal", "exists(x)", TRUE)>>))]
MCRevisions == {MCRevision, MCNextRevision, MCBumpedRevision}
MCReleased == {MCRevision, MCNextRevision}

Generated == INSTANCE TrustArtifacts WITH
    Family <- RuleFamily, Canonical <- RuleCanonical, CiiOnly <- RuleCiiOnly,
    TestTokens <- RuleTokens, Trees <- Revisions, Committed <- Releases

\* What is in the committed tree: pages, of which some are about one rule, the sitemap, the
\* card, the engine manifest and the files it lists.
ASSUME SiteParts ==
    /\ SiteCommitted = [p \in DOMAIN SiteCommitted |-> SiteCommitted[p]]
    /\ SitePages \in Seq(DOMAIN SiteCommitted) /\ SitePages # <<>>
    /\ SiteEngine \in Seq(DOMAIN SiteCommitted)
    /\ DOMAIN SiteCommitted =
         Range(SitePages) \cup Range(SiteEngine) \cup {"sitemap", "card", "manifest"}
    /\ "manifest" \notin Range(SitePages) \cup Range(SiteEngine)
    /\ SiteRulePages \subseteq Range(SitePages)
    /\ SiteSitemapSample \in Nat \ {0} /\ SiteRobotsSample \in Nat \ {0}

\* build stands for the bytes of a file, so another body has another one; a manifest is its
\* version, its list and the digests of files of that list; a sitemap has a list of URLs.
ManifestOf(b) ==
    /\ b = [version |-> b.version, files |-> b.files, digests |-> b.digests]
    /\ b.digests = [n \in DOMAIN b.digests |-> b.digests[n]]
    /\ DOMAIN b.digests \subseteq b.files
ASSUME SiteBodies ==
    /\ \A p \in DOMAIN SiteCommitted : SiteCommitted[p] # Live!Gone
    /\ \A p \in DOMAIN SiteCommitted \ {"manifest"} :
         \A b \in SiteStale[p] : b.build # SiteCommitted[p].build
    /\ \A b \in SiteStale["manifest"] \cup {SiteCommitted["manifest"]} : ManifestOf(b)
    /\ \A b \in SiteStale["sitemap"] \cup {SiteCommitted["sitemap"]} : Len(b.locs) \in Nat
    /\ \A p \in Range(SitePages) : SiteCommitted[p].noindex \in BOOLEAN

\* The committed tree passes its own checks: it was generated for the origin it is compared
\* with, its sitemap names files of the tree, its manifest has the digest of every file it
\* lists, and its index and the pages of the crawl surface carry their tags.
ASSUME SiteIsInOrder ==
    /\ Live!SitemapFindings(SiteCommitted["sitemap"]) = {}
    /\ \A i \in 1..Len(SiteCommitted["sitemap"].locs) :
         SiteCommitted["sitemap"].locs[i][2] \in DOMAIN SiteCommitted
    /\ Live!HomeFindings(SiteCommitted[SitePages[1]]) = {}
    /\ \A p \in Range(SitePages) \ SiteRulePages :
         <<"", p>> \in Live!CommittedLocs => Live!ShareFindings(p, SiteCommitted[p]) = {}
    /\ DOMAIN SiteCommitted["manifest"].digests = SiteCommitted["manifest"].files
    /\ \A n \in Range(SiteEngine) :
         /\ n \in SiteCommitted["manifest"].files
         /\ SiteCommitted["manifest"].digests[n] = SiteCommitted[n].build

\* No generator aborts on a revision that is committed with its files.
ASSUME ReleasesBuild == Releases \subseteq {s \in Revisions : Generated!Buildable(s)}

----------------------------------------------------------------------------
NoGate == tree = <<>> /\ disk = <<>> /\ tmp = <<>> /\ worker = <<>> /\ gate = <<>>
NoLive ==
    /\ live = <<>> /\ todo = <<>> /\ manifest = <<>> /\ findings = <<>> /\ result = <<>>
    /\ copies = <<>> /\ wrong = <<>>
NoArtifacts ==
    /\ sources = <<>> /\ surface = <<>> /\ writer = <<>>
    /\ edits = <<>> /\ runs = <<>> /\ kills = <<>>

ReleaseInit ==
    \/ part = "gate" /\ Init /\ NoLive /\ NoArtifacts
    \/ part = "live" /\ Live!Init /\ NoGate /\ NoArtifacts
    \/ part = "artifacts" /\ Generated!ArtifactsInit /\ NoGate /\ NoLive /\ faults = <<>>

GateStep == part = "gate" /\ Next /\ UNCHANGED <<part, liveOnly, artOnly>>
LiveStep == part = "live" /\ Live!Next /\ UNCHANGED <<part, gateOnly, artOnly>>
ArtifactsStep ==
    /\ part = "artifacts" /\ Generated!ArtifactsNext
    /\ UNCHANGED <<part, gateOnly, liveOnly, faults>>

ReleaseNext == GateStep \/ LiveStep \/ ArtifactsStep

\* The operating system runs every process that is not killed, and every GET answers or
\* times out.
ReleaseSpec ==
    /\ ReleaseInit /\ [][ReleaseNext]_allVars
    /\ \A g \in Gates : WF_vars(part = "gate" /\ ParentStep(g))
    /\ \A g \in Gates, j \in Jobs : WF_vars(part = "gate" /\ WorkerStep(g, j))
    /\ WF_liveOnly(part = "live" /\ Live!Step)

----------------------------------------------------------------------------
\* "RESULT: PASS - live matches committed www/": when the checker says so the server has
\* the committed pages, card and engine, though the last files were copied during the run;
\* and nothing is reported of a file that was right from the start and answered, except
\* for what a wrong sitemap or manifest says of it (main, compare_engine_manifests).
VerdictIsAboutTheSite == part = "live" => Live!PassMeansLive /\ Live!FindingIsReal

\* "A verdict is replayed ONLY when the code under test and its inputs are byte-for-byte
\* the tree that was already proven" (differential.py:752), also over a second version of
\* the sources: the cache says what a live run would, and so does a warm gate.
MemoOverVersions == part = "gate" => CacheIsMemo /\ GateExact

\* Files that reproduce are the ones their sources determine, though matrix and catalog are
\* each computed from the other and the catalog lies there twice; and an attestation that
\* verifies pins this corpus, this version and the artifacts on disk (test_determinism.py,
\* verify_attestation.py).
PassingMeansTrue == part = "artifacts" => Generated!PassingMeansTrue

\* Whatever was edited, removed, taken from elsewhere or cut short, the generators bring
\* every file back to what the sources say, unless the matrix and what gen_coverage reads
\* beside it block each other; and then no run of a generator ends that (gen_coverage.py
\* main, gen_remediation.py main, gen_cii_parity.py main).
RebuildsUnlessStuck == part = "artifacts" => Generated!RebuildsUnlessStuck

\* One gate at a time loses no verdict it has written, whatever is killed and wherever:
\* the deltas go only once cache.json holds what they held (_consolidate_disk_cache).
VerdictsAreKept ==
    [][part = "gate" => LoadDiskCache \subseteq LoadDiskCache']_allVars

\* A gate that is started ends, also when subprocesses die or the cache cannot be
\* written, unless the parent itself is killed; a check of the site ends with a verdict
\* whatever the server answers (run_differential_parallel, verify_live main).
EveryCheckEnds ==
    /\ \A g \in Gates :
          (part = "gate" /\ Active(g)) ~> (part = "gate" /\ gate[g].pc \in {"finished", "killed"})
    /\ <>(part = "live" => result # "running")
=============================================================================
