----------------------------- MODULE VerifyLive -----------------------------
(***************************************************************************)
(* einvoice/verify_live.py: after a deploy, the served site is compared    *)
(* with the committed www/ tree, one GET after the other.  Files are still *)
(* being copied while it runs, and a GET may fail.                         *)
(*                                                                         *)
(* A page is [build, title, url, canonical, ld, noindex]; build stands for *)
(* its bytes.  A sitemap is [build, locs], a URL <<base, path>>, a         *)
(* manifest [version, files, digests], any other file [build].             *)
(***************************************************************************)
EXTENDS Integers, Sequences, FiniteSets, SequencesExt, FiniteSetsExt

CONSTANTS
    Base,           \* --base
    CommittedBase,  \* the origin the committed tree was generated for
    Committed,      \* the committed tree, path -> body
    Stale,          \* path -> the bodies an older deploy may have left there
    Pages,          \* its pages in order, a sequence of paths, the first one the index
    RulePages,      \* the pages that are about one rule
    Engine,         \* the files of the engine bundle, in order
    SitemapSample, RobotsSample,
    MaxStale, MaxCopies, MaxFaults   \* bounds: wrong files, copies during the run, failed GETs

Paths == DOMAIN Committed
Gone == [build |-> "404"]
Home == Pages[1]

VARIABLES
    live,       \* what the server has
    todo,       \* the GETs still to do, <<phase, path>>
    manifest,   \* the live engine manifest, once read
    findings,   \* failures: <<phase, path>>
    result,
    copies, faults,
    wrong       \* history: the paths that were wrong at the start, or failed a GET

vars == <<live, todo, manifest, findings, result, copies, faults, wrong>>

NoManifest == [files |-> {}, digests |-> << >>]

----------------------------------------------------------------------------
\* What the committed tree says is to be checked.

CanonLoc(url, base) == IF url[1] = base THEN <<"", url[2]>> ELSE url
CommittedLocs == {CanonLoc(u, CommittedBase) : u \in Range(Committed["sitemap"].locs)}

\* The pages of a class, in the order of the tree.
PagesIn(class) ==
    LET picked[n \in 0..Len(Pages)] ==
            IF n = 0 THEN <<>>
            ELSE IF Pages[n] \in class THEN Append(picked[n - 1], Pages[n]) ELSE picked[n - 1]
    IN picked[Len(Pages)]

SurfacePages == PagesIn({p \in Paths \ RulePages : <<"", p>> \in CommittedLocs})
Noindex == PagesIn({p \in RulePages : Committed[p].noindex})
Indexable == PagesIn({p \in RulePages : ~Committed[p].noindex})

\* items[::step][:n]
StrideSample(items, n) ==
    LET step == IF Len(items) \div n > 1 THEN Len(items) \div n ELSE 1
        whole == (Len(items) + step - 1) \div step
    IN [i \in 1..(IF whole < n THEN whole ELSE n) |-> items[1 + ((i - 1) * step)]]

Each(phase, paths) == [i \in DOMAIN paths |-> <<phase, paths[i]>>]

Script ==
    Each("spot", Pages \o <<"sitemap">>) \o <<<<"sitemap", "sitemap">>>>
    \o Each("share", SurfacePages)
    \o Each("noindex", StrideSample(Noindex, RobotsSample))
    \o Each("indexable", StrideSample(Indexable, RobotsSample))
    \o <<<<"home", Home>>>> \o Each("bytes", Pages \o <<"sitemap">>) \o <<<<"card", "card">>>>
    \o <<<<"manifest", "manifest">>>> \o Each("engine", Engine)

----------------------------------------------------------------------------
\* The checks on one answer.  Each is the set of what is wrong with it.

\* Rebased onto --base, the live tags are the committed ones; one ld+json block; the
\* og:url is the canonical link.
ShareFindings(p, body) ==
    LET expected == IF Committed[p].url[1] = CommittedBase THEN <<Base, Committed[p].url[2]>>
                    ELSE Committed[p].url
    IN (IF body.title # Committed[p].title THEN {"title"} ELSE {})
       \cup (IF body.url # expected THEN {"url"} ELSE {})
       \cup (IF body.ld # 1 THEN {"ld"} ELSE {})
       \cup (IF body.url # body.canonical THEN {"canonical"} ELSE {})

\* The index has no "noindex", and its canonical link is on the live origin.
HomeFindings(body) ==
    (IF body.noindex THEN {"noindex"} ELSE {})
    \cup (IF body.canonical[1] # Base THEN {"canonical"} ELSE {})

\* Off-origin URLs, and SITEMAP_LOC_PARITY in both directions.
SitemapFindings(body) ==
    LET live_locs == {CanonLoc(u, Base) : u \in Range(body.locs)}
    IN (IF \E u \in Range(body.locs) : u[1] # Base THEN {"origin"} ELSE {})
       \cup (IF live_locs # CommittedLocs THEN {"parity"} ELSE {})

\* Mutant: only the lists of files are compared.
CompareListsOnly(committed, served) ==
    (IF committed.files # served.files THEN {"files"} ELSE {})
    \cup (IF committed.version # served.version THEN {"version"} ELSE {})

\* Names in one list only, digests that differ, the version.
CompareEngineManifests(committed, served) ==
    (IF committed.files # served.files THEN {"files"} ELSE {})
    \cup (IF \E n \in DOMAIN committed.digests :
                /\ n \in served.files \cup DOMAIN served.digests
                /\ n \notin DOMAIN served.digests \/ served.digests[n] # committed.digests[n]
          THEN {"digest"} ELSE {})
    \cup (IF committed.version # served.version THEN {"version"} ELSE {})

\* A served file does not match the live manifest's own claim.
EngineFindings(n, body) ==
    IF n \in DOMAIN manifest.digests /\ manifest.digests[n] # body.build THEN {"self"} ELSE {}

\* The robots meta of a rule page is on the committed side of the partition.
RobotsFindings(phase, body) == IF body.noindex # (phase = "noindex") THEN {"robots"} ELSE {}

ByteFindings(p, body) == IF body.build # Committed[p].build THEN {"bytes"} ELSE {}

Check(phase, p, body) ==
    CASE phase \in {"spot", "loc"} -> {}
      [] phase = "sitemap" -> SitemapFindings(body)
      [] phase = "share" -> ShareFindings(p, body)
      [] phase \in {"noindex", "indexable"} -> RobotsFindings(phase, body)
      [] phase = "home" -> HomeFindings(body)
      [] phase \in {"bytes", "card"} -> ByteFindings(p, body)
      [] phase = "manifest" -> CompareEngineManifests(Committed[p], body)
      [] phase = "engine" -> EngineFindings(p, body)

\* The sample of the live sitemap is fetched next.
AfterAnswer(phase, p, body) ==
    IF phase = "sitemap"
    THEN Each("loc", [i \in DOMAIN StrideSample(body.locs, SitemapSample) |->
                         StrideSample(body.locs, SitemapSample)[i][2]])
    ELSE <<>>

----------------------------------------------------------------------------

Init ==
    /\ \E W \in UNION {kSubset(k, Paths) : k \in 0..MaxStale} :
          /\ \E pick \in [W -> UNION {Stale[p] \cup {Gone} : p \in W}] :
                /\ \A p \in W : pick[p] \in Stale[p] \cup {Gone}
                /\ live = [p \in Paths |-> IF p \in W THEN pick[p] ELSE Committed[p]]
          /\ wrong = W
    /\ todo = Script
    /\ manifest = NoManifest /\ findings = {} /\ result = "running"
    /\ copies = 0 /\ faults = 0

\* _get: 200 and a body, or a finding.
Answered ==
    /\ result = "running" /\ todo # <<>>
    /\ LET phase == Head(todo)[1]
           p == Head(todo)[2]
           body == IF p \in Paths THEN live[p] ELSE Gone
       IN /\ body # Gone
          /\ findings' = findings \cup {<<phase, p, what>> : what \in Check(phase, p, body)}
          /\ todo' = AfterAnswer(phase, p, body) \o Tail(todo)
          /\ manifest' = IF phase = "manifest" THEN body ELSE manifest
    /\ UNCHANGED <<live, result, copies, faults, wrong>>

NotServed ==
    /\ result = "running" /\ todo # <<>>
    /\ LET p == Head(todo)[2] IN
       /\ p \in Paths => live[p] = Gone
       /\ findings' = findings \cup {<<Head(todo)[1], p, "status">>}
    /\ todo' = Tail(todo)
    /\ UNCHANGED <<live, manifest, result, copies, faults, wrong>>

\* The network fails or times out: reported like a page that is not served.
GetFails ==
    /\ result = "running" /\ todo # <<>> /\ faults < MaxFaults
    /\ findings' = findings \cup {<<Head(todo)[1], Head(todo)[2], "status">>}
    /\ wrong' = wrong \cup {Head(todo)[2]}
    /\ todo' = Tail(todo) /\ faults' = faults + 1
    /\ UNCHANGED <<live, manifest, result, copies>>

Report ==
    /\ result = "running" /\ todo = <<>>
    /\ result' = IF findings = {} THEN "pass" ELSE "fail"
    /\ UNCHANGED <<live, todo, manifest, findings, copies, faults, wrong>>

\* The deploy goes on: one more file reaches the server.
Copy ==
    /\ result = "running" /\ copies < MaxCopies
    /\ \E p \in Paths : live[p] # Committed[p] /\ live' = [live EXCEPT ![p] = Committed[p]]
    /\ copies' = copies + 1
    /\ UNCHANGED <<todo, manifest, findings, result, faults, wrong>>

Step == Answered \/ NotServed \/ Report
Next == Step \/ GetFails \/ Copy
Spec == Init /\ [][Next]_vars
FairSpec == Spec /\ WF_vars(Step)

----------------------------------------------------------------------------
\* "RESULT: PASS - live matches committed www/": when the checker says so the server has
\* the committed pages, card and engine, though the last files were copied during the run
\* and the engine is only known by its digests (main, compare_engine_manifests).
PassMeansLive == result = "pass" => live = Committed

\* Nothing is reported of a file that was right from the start and answered, except for
\* what a wrong sitemap or manifest says of it (main, robots_partition, canon_loc).
FindingIsReal ==
    \A f \in findings :
        \/ f[2] \in wrong
        \/ f[1] = "engine" /\ "manifest" \in wrong
        \/ f[1] = "loc" /\ "sitemap" \in wrong

\* The run ends with a verdict whatever the server answers (main, _get).
RunEnds == <>(result # "running")

\* The tree as it is generated for --base: other URLs, so other bytes.
Rebased ==
    [p \in Paths |->
        IF p \in Range(Pages)
        THEN [Committed[p] EXCEPT !.build = "rebased", !.url[1] = Base, !.canonical[1] = Base]
        ELSE IF p = "sitemap"
        THEN [build |-> "rebased", locs |-> [i \in DOMAIN Committed[p].locs |-> <<Base, Committed[p].locs[i][2]>>]]
        ELSE Committed[p]]

\* "URL-valued tags are rebased onto --base, so pointing the checker at a staging origin
\* does not report every og:url as a content difference" (verify_live.py:580-582): some
\* tree served from --base, copied or generated for it, gets no finding.
StagingCanPass ==
    \E tree \in {Committed, Rebased} :
        \A i \in DOMAIN Script : Check(Script[i][1], Script[i][2], tree[Script[i][2]]) = {}
=============================================================================
