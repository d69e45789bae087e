-------------------------- MODULE RegistryReaders --------------------------
(***************************************************************************)
(* The read commands that need several calls of the registry: vh list      *)
(* (cli/list.js), vh reputation (cli/reputation.js) and vh lineage         *)
(* (cli/lineage.js).  Every call is an eth_call answered from the storage  *)
(* of that moment, and transactions are mined between two calls, so no     *)
(* command reads one state of the registry.                                *)
(***************************************************************************)
EXTENDS ContributionRegistry

CONSTANTS PageSize,  \* DEFAULT_PAGE
          MaxDepth   \* --max-depth, DEFAULT_MAX_DEPTH

ASSUME ReaderAssumption == PageSize \in Nat \ {0} /\ MaxDepth \in Nat \ {0}

VARIABLE reader  \* the state of the command that runs, or its result once it is done

readerVars == <<vars, reader>>

Idle == [cmd |-> "none", pc |-> "done"]

ReaderInit == Init /\ reader = Idle

\* What a page carries for a digest, which its caller numbers from the given index on.
Rows(page, first) ==
  [i \in 1 .. Len(page) |->
     [index |-> first + i - 1, contentHash |-> page[i], record |-> records[page[i]]]]

-----------------------------------------------------------------------------
(***************************************************************************)
(* readAllRecords: total is read once, before the first page.              *)
(***************************************************************************)
StartList ==
  /\ reader.pc = "done"
  /\ reader' = [cmd |-> "list", pc |-> "reading", bound |-> total, start |-> 0, out |-> <<>>]
  /\ UNCHANGED vars

ListPage ==
  /\ reader.cmd = "list" /\ reader.pc = "reading" /\ reader.start < reader.bound
  /\ LET page == getRecords(reader.start, PageSize)
     IN  reader' = IF page = <<>> THEN [reader EXCEPT !.pc = "done"]
                   ELSE [reader EXCEPT !.out = @ \o Rows(page, reader.start),
                                       !.start = @ + PageSize]
  /\ UNCHANGED vars

ListEnds ==
  /\ reader.cmd = "list" /\ reader.pc = "reading" /\ reader.start >= reader.bound
  /\ reader' = [reader EXCEPT !.pc = "done"]
  /\ UNCHANGED vars

(***************************************************************************)
(* readContributorRecords: pages until a short or an empty one.            *)
(***************************************************************************)
StartReputation(contributor) ==
  /\ reader.pc = "done"
  /\ reader' = [cmd |-> "reputation", pc |-> "reading", contributor |-> contributor,
                atStart |-> contributorCount[contributor], start |-> 0, out |-> <<>>]
  /\ UNCHANGED vars

ReputationPage ==
  /\ reader.cmd = "reputation" /\ reader.pc = "reading"
  /\ LET page == getRecordsByContributor(reader.contributor, reader.start, PageSize)
     IN  reader' = [reader EXCEPT !.out = @ \o Rows(page, reader.start),
                                  !.start = @ + PageSize,
                                  !.pc = IF Len(page) < PageSize THEN "done" ELSE "reading"]
  /\ UNCHANGED vars

\* computeScore: a fold in which only a strictly smaller (larger) block replaces a bound.
computeScore(rows) ==
  LET Count(test(_)) == Cardinality({i \in DOMAIN rows : test(rows[i].record)})
      Point(r) == [blockNumber |-> r.blockNumber, timestamp |-> r.timestamp]
      bounds[n \in 1 .. Len(rows)] ==
        LET r == rows[n].record
        IN  IF n = 1 THEN [earliest |-> Point(r), latest |-> Point(r)]
            ELSE LET b == bounds[n - 1]
                 IN  [earliest |-> IF r.blockNumber < b.earliest.blockNumber THEN Point(r)
                                   ELSE b.earliest,
                      latest |-> IF r.blockNumber > b.latest.blockNumber THEN Point(r)
                                 ELSE b.latest]
  IN  [total        |-> Len(rows),
       authorBound  |-> Count(LAMBDA r : r.authorBound),
       anchorOnly   |-> Count(LAMBDA r : ~r.authorBound),
       lineageRoots |-> Count(LAMBDA r : r.parent = ZeroHash),
       revisions    |-> Count(LAMBDA r : r.parent # ZeroHash),
       bounds       |-> IF rows = <<>> THEN <<>> ELSE <<bounds[Len(rows)]>>]

(***************************************************************************)
(* walkLineage: one getRecord per hop, from child to root.                 *)
(***************************************************************************)
StartLineage(h) ==
  /\ reader.pc = "done"
  /\ reader' = [cmd |-> "lineage", pc |-> "reading", cursor |-> h, seen |-> {}, out |-> <<>>,
                start |-> h, status |-> "WALKED", cappedAtDepth |-> FALSE,
                nextParent |-> ZeroHash]
  /\ UNCHANGED vars

\* Mutant: the cap is noticed one hop late, when the parent is already forgotten.
LineageHopUncapped ==
  /\ reader.cmd = "lineage" /\ reader.pc = "reading"
  /\ LET h == reader.cursor
         depth == Len(reader.out)
         walked == [reader EXCEPT !.seen = @ \cup {h},
                                  !.out = Append(@, [contentHash |-> h, record |-> records[h]]),
                                  !.cursor = records[h].parent]
     IN  reader' = IF h \in reader.seen THEN [reader EXCEPT !.pc = "done"]
                   ELSE IF ~isAnchored(h)
                   THEN [reader EXCEPT !.pc = "done",
                                       !.status = IF depth = 0 THEN "NOT_ANCHORED" ELSE @]
                   ELSE IF records[h].parent = ZeroHash \/ depth = MaxDepth - 1
                   THEN [walked EXCEPT !.pc = "done"]
                   ELSE walked
  /\ UNCHANGED vars

LineageHop ==
  /\ reader.cmd = "lineage" /\ reader.pc = "reading"
  /\ LET h == reader.cursor
         depth == Len(reader.out)
         walked == [reader EXCEPT !.seen = @ \cup {h},
                                  !.out = Append(@, [contentHash |-> h, record |-> records[h]]),
                                  !.cursor = records[h].parent]
     IN  reader' = IF h \in reader.seen THEN [reader EXCEPT !.pc = "done"]
                   ELSE IF ~isAnchored(h)
                   THEN [reader EXCEPT !.pc = "done",
                                       !.status = IF depth = 0 THEN "NOT_ANCHORED" ELSE @]
                   ELSE IF records[h].parent = ZeroHash THEN [walked EXCEPT !.pc = "done"]
                   ELSE IF depth = MaxDepth - 1
                   THEN [walked EXCEPT !.pc = "done", !.cappedAtDepth = TRUE,
                                       !.nextParent = records[h].parent]
                   ELSE walked
  /\ UNCHANGED vars

-----------------------------------------------------------------------------
Read ==
  \/ StartList \/ ListPage \/ ListEnds
  \/ \E a \in Addr : StartReputation(a)
  \/ ReputationPage
  \/ \E h \in ContentHash : StartLineage(h)
  \/ LineageHop

ReaderNext == Read \/ (Next /\ UNCHANGED reader)

ReaderSpec == ReaderInit /\ [][ReaderNext]_readerVars
-----------------------------------------------------------------------------
(***************************************************************************)
(* Properties.                                                             *)
(***************************************************************************)
Row(i) == [index |-> i, contentHash |-> hashByIndex[i], record |-> records[hashByIndex[i]]]

\* At every moment of a vh list the rows gathered are a prefix of the registry as it is now, no
\* hole, repetition or outdated row, although each page was answered by a different state; and
\* the finished list has every record that existed when the command began.
ListIsPrefix ==
  reader.cmd = "list" =>
    /\ Len(reader.out) <= total
    /\ \A i \in 1 .. Len(reader.out) : reader.out[i] = Row(i - 1)
    /\ reader.pc = "done" => Len(reader.out) >= reader.bound

\* The same for the records of one contributor, which vh reputation pages without knowing how
\* many there are: a prefix of the account's records, and none of those it had at the start is
\* missing from the finished score.
ReputationIsPrefix ==
  reader.cmd = "reputation" =>
    LET idxs == contributorIndices[reader.contributor]
    IN  /\ Len(reader.out) <= Len(idxs)
        /\ \A i \in 1 .. Len(reader.out) :
             /\ reader.out[i].contentHash = hashByIndex[idxs[i]]
             /\ reader.out[i].record = records[hashByIndex[idxs[i]]]
        /\ reader.pc = "done" => Len(reader.out) >= reader.atStart

\* The score reported: its two breakdowns each add up to the total, and its bounds are the first
\* and the last record's, since insertion order is block order.
ScoreConsistent ==
  (reader.cmd = "reputation" /\ reader.out # <<>>) =>
    LET score == computeScore(reader.out)
        first == reader.out[1].record
        last  == reader.out[Len(reader.out)].record
    IN  /\ score.authorBound + score.anchorOnly = score.total
        /\ score.lineageRoots + score.revisions = score.total
        /\ score.bounds[1].earliest
             = [blockNumber |-> first.blockNumber, timestamp |-> first.timestamp]
        /\ score.bounds[1].latest
             = [blockNumber |-> last.blockNumber, timestamp |-> last.timestamp]

\* A finished lineage is a path of the registry as it is now: it starts at the digest asked for,
\* follows every edge, never stops at an interior digest that is missing or was seen before, and
\* ends at a root, or else at the cap with the parent to resume from.
LineageIsPath ==
  (reader.cmd = "lineage" /\ reader.pc = "done") =>
    LET n == Len(reader.out)
    IN  /\ reader.status = "NOT_ANCHORED" <=> n = 0
        /\ n > 0 => reader.out[1].contentHash = reader.start
        /\ \A i \in 1 .. n : reader.out[i].record = records[reader.out[i].contentHash]
        /\ \A i \in 1 .. n - 1 : reader.out[i + 1].contentHash = reader.out[i].record.parent
        /\ n > 0 => IF reader.cappedAtDepth
                    THEN n = MaxDepth /\ isAnchored(reader.nextParent)
                         /\ reader.out[n].record.parent = reader.nextParent
                    ELSE reader.out[n].record.parent = ZeroHash

-----------------------------------------------------------------------------
(***************************************************************************)
(* The same commands against a load-balanced endpoint: each call is        *)
(* answered by some node, which knows the first records of the registry    *)
(* only, as many as it has caught up with.                                 *)
(***************************************************************************)
\* What a node answers that has caught up with n records.
KnownTo(n) == {hashByIndex[i] : i \in 0 .. n - 1}

KnownRecords(n, start, count) ==
  [i \in 1 .. ClampedLength(start, count, n) |-> hashByIndex[start + i - 1]]

KnownByContributor(n, contributor, start, count) ==
  LET idxs  == contributorIndices[contributor]
      known == Cardinality({k \in DOMAIN idxs : idxs[k] < n})
  IN  [i \in 1 .. ClampedLength(start, count, known) |-> hashByIndex[idxs[start + i]]]

LagStartList ==
  /\ reader.pc = "done"
  /\ \E n \in 0 .. total :
       reader' = [cmd |-> "list", pc |-> "reading", bound |-> n, start |-> 0, out |-> <<>>]
  /\ UNCHANGED vars

LagListPage ==
  /\ reader.cmd = "list" /\ reader.pc = "reading" /\ reader.start < reader.bound
  /\ \E n \in 0 .. total :
       LET page == KnownRecords(n, reader.start, PageSize)
       IN  reader' = IF page = <<>> THEN [reader EXCEPT !.pc = "done"]
                     ELSE [reader EXCEPT !.out = @ \o Rows(page, reader.start),
                                         !.start = @ + PageSize]
  /\ UNCHANGED vars

\* Mutant: the walk goes on behind a short page.
LagReputationGoesOn ==
  /\ reader.cmd = "reputation" /\ reader.pc = "reading"
  /\ \E n \in 0 .. total :
       LET page == KnownByContributor(n, reader.contributor, reader.start, PageSize)
       IN  reader' = [reader EXCEPT !.out = @ \o Rows(page, reader.start),
                                    !.start = @ + PageSize,
                                    !.pc = IF page = <<>> THEN "done" ELSE "reading"]
  /\ UNCHANGED vars

LagReputationPage ==
  /\ reader.cmd = "reputation" /\ reader.pc = "reading"
  /\ \E n \in 0 .. total :
       LET page == KnownByContributor(n, reader.contributor, reader.start, PageSize)
       IN  reader' = [reader EXCEPT !.out = @ \o Rows(page, reader.start),
                                    !.start = @ + PageSize,
                                    !.pc = IF Len(page) < PageSize THEN "done" ELSE "reading"]
  /\ UNCHANGED vars

\* A node that does not have the digest answers NotAnchored: nothing at the first hop, the
\* end of the walk at a later one.
LagLineageHop ==
  /\ reader.cmd = "lineage" /\ reader.pc = "reading"
  /\ \/ \E n \in 0 .. total : reader.cursor \in KnownTo(n) /\ LineageHop
     \/ /\ \E n \in 0 .. total : reader.cursor \notin KnownTo(n)
        /\ reader' = [reader EXCEPT !.pc = "done",
                                    !.status = IF reader.out = <<>> THEN "NOT_ANCHORED" ELSE @]
        /\ UNCHANGED vars

LagRead ==
  \/ LagStartList \/ LagListPage \/ ListEnds
  \/ \E a \in Addr : StartReputation(a)
  \/ LagReputationPage
  \/ \E h \in ContentHash : StartLineage(h)
  \/ LagLineageHop

LagNext == LagRead \/ (Next /\ UNCHANGED reader)
LagSpec == ReaderInit /\ [][LagNext]_readerVars

-----------------------------------------------------------------------------
\* Whatever nodes answer, the score is about the account's first records, without a hole or
\* a repetition (readContributorRecords).
LagReputationIsPrefix ==
  reader.cmd = "reputation" =>
    LET idxs == contributorIndices[reader.contributor]
    IN  /\ Len(reader.out) <= Len(idxs)
        /\ \A i \in 1 .. Len(reader.out) : reader.out[i].contentHash = hashByIndex[idxs[i]]

\* Whatever nodes answer, the records walked are one chain of the registry from the digest
\* asked for, and one of them is a root only if the chain ends there (walkLineage).
LagLineageIsChain ==
  reader.cmd = "lineage" =>
    LET n == Len(reader.out)
    IN  /\ n > 0 => reader.out[1].contentHash = reader.start
        /\ \A i \in 1 .. n : reader.out[i].record = records[reader.out[i].contentHash]
        /\ \A i \in 1 .. n - 1 : reader.out[i + 1].contentHash = reader.out[i].record.parent
        /\ reader.cappedAtDepth => n = MaxDepth /\ isAnchored(reader.nextParent)

\* "Read every record from the registry in insertion order by paging through getRecords()"
\* (list.js:49): the rows gathered have no hole.
ListHasNoHole ==
  reader.cmd = "list" => \A i \in 1 .. Len(reader.out) : reader.out[i].index = i - 1

\* "a non-zero parent is required to be anchored at write time, so an interior hash is always
\* present" (lineage.js:181-182): a walk that is done has reached a root or the cap.
InteriorIsPresent ==
  (reader.cmd = "lineage" /\ reader.pc = "done" /\ reader.out # <<>>) =>
    reader.cappedAtDepth \/ reader.out[Len(reader.out)].record.parent = ZeroHash
=============================================================================
