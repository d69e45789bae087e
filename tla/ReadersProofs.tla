--------------------------- MODULE ReadersProofs ---------------------------
(***************************************************************************)
(* Theorems about the read commands, for every registry, page size and     *)
(* depth: what vh list, vh reputation and vh lineage gather call by call   *)
(* is of one registry, whatever is anchored between two calls.             *)
(***************************************************************************)
EXTENDS MCLaggingReaders, ContributionRegistryProofs, FiniteSetTheorems, InductionLemmas

-----------------------------------------------------------------------------
(***************************************************************************)
(* What a reader relies on: the ledger only grows, and the records of one  *)
(* block carry its timestamp.                                              *)
(***************************************************************************)
SameBlockSameTime ==
  \A i \in Indices :
    LET r == records[hashByIndex[i]]
    IN  /\ r.blockNumber = block.number => r.timestamp = block.timestamp
        /\ \A j \in Indices : records[hashByIndex[j]].blockNumber = r.blockNumber
                                => records[hashByIndex[j]].timestamp = r.timestamp

LEMMA WriteKeepsBlockTimes ==
  ASSUME LedgerInv, SameBlockSameTime, RecordLogged
  PROVE  SameBlockSameTime'
<1>1. PICK a \in Addr, h \in ContentHash, b \in BOOLEAN, p \in AnyHash :
        WriteRecord(h, a, b, p) /\ block' = block
  BY DEF RecordLogged
<1>2. Indexed(h, a, b, p)
  BY <1>1, WriteIndices
<1> DEFINE At(i) == records'[hashByIndex'[i]]
<1>3. At(total).blockNumber = block.number /\ At(total).timestamp = block.timestamp
  BY <1>2 DEF Indexed
<1>4. \A i \in Indices : At(i) = records[hashByIndex[i]]
  BY <1>2 DEF Indexed
<1>5. Indices' = Indices \cup {total}
  BY <1>2 DEF Indexed
<1>6. \A i \in Indices' : At(i).blockNumber = block.number => At(i).timestamp = block.timestamp
  BY <1>3, <1>4, <1>5 DEF SameBlockSameTime
<1>7. \A i, j \in Indices' : At(j).blockNumber = At(i).blockNumber => At(j).timestamp = At(i).timestamp
  <2>1. \A i, j \in Indices : At(j).blockNumber = At(i).blockNumber => At(j).timestamp = At(i).timestamp
    BY <1>4 DEF SameBlockSameTime
  <2> HIDE DEF At
  <2> QED
    BY <1>3, <1>5, <1>6, <2>1
<1> QED
  BY <1>1, <1>6, <1>7 DEF SameBlockSameTime

LEMMA ChainKeepsBlockTimes ==
  ASSUME LedgerInv, ChainOrdered, SameBlockSameTime, UNCHANGED registryVars, [Next]_vars
  PROVE  SameBlockSameTime'
<1>1. block' = block \/ NewBlock
  <2>1. ASSUME NEW a \in Addr, NEW h \in AnyHash, NEW p \in AnyHash,
               anchorWithParent(a, h, p) \/ \E s \in Salt : revealWithParent(a, h, s, p)
        PROVE  block' = block
    BY <2>1 DEF anchorWithParent, revealWithParent
  <2>2. ASSUME NEW a \in Addr, NEW c, commit(a, c) PROVE block' = block
    BY <2>2 DEF commit
  <2> QED
    BY <2>1, <2>2 DEF Next, anchor, reveal, vars, AnyHash
<1>2. CASE block' = block
  BY <1>2 DEF SameBlockSameTime, registryVars, Indices
<1>3. CASE NewBlock
  <2>1. block.number \in Nat /\ block'.number = block.number + 1
    BY <1>3 DEF NewBlock, LedgerInv, TypeOK
  <2>2. \A i \in Indices : /\ records[hashByIndex[i]].blockNumber \in Nat
                           /\ records[hashByIndex[i]].blockNumber <= block.number
    BY DEF ChainOrdered, LedgerInv, TypeOK, Record, AnyHash
  <2>3. \A i \in Indices : records[hashByIndex[i]].blockNumber # block'.number
    BY <2>1, <2>2
  <2> QED
    BY <2>3 DEF SameBlockSameTime, registryVars, Indices
<1> QED
  BY <1>1, <1>2, <1>3

DatedInv == ExactInv /\ SameBlockSameTime

LEMMA DatedInvariant == Spec => []DatedInv
<1>1. Init => SameBlockSameTime
  BY DEF Init, SameBlockSameTime, Indices
<1>2. ExactInv /\ SameBlockSameTime /\ [Next]_vars => SameBlockSameTime'
  BY StepLogsItsRecord, WriteKeepsBlockTimes, ChainKeepsBlockTimes DEF ExactInv, LedgerInv, RecordsKept
<1> QED
  BY <1>1, <1>2, ExactInvariant, PTL DEF Spec, DatedInv

\* Whatever the registry does, what a reader has seen of it stays.
Grown ==
  /\ total \in Nat /\ total' \in Nat /\ total' >= total
  /\ Indices = 0 .. total - 1 /\ Indices' = 0 .. total' - 1
  /\ \A i \in Indices : /\ hashByIndex'[i] = hashByIndex[i]
                        /\ records'[hashByIndex[i]] = records[hashByIndex[i]]
  /\ \A h \in ContentHash : isAnchored(h) => isAnchored(h)' /\ records'[h] = records[h]
  /\ \A a \in Addr :
       /\ Len(contributorIndices'[a]) >= Len(contributorIndices[a])
       /\ \A i \in 1 .. Len(contributorIndices[a]) : contributorIndices'[a][i] = contributorIndices[a][i]

LEMMA LedgerGrows == ASSUME LedgerInv, [Next]_vars PROVE Grown
<1>1. total \in Nat /\ Indices = 0 .. total - 1
  BY DEF LedgerInv, TypeOK, Indices
<1>2. contributorIndices \in [Addr -> Seq(Nat)]
  BY DEF LedgerInv, TypeOK
<1>3. CASE RecordLogged
  <2>1. PICK a \in Addr, h \in ContentHash, b \in BOOLEAN, p \in AnyHash : WriteRecord(h, a, b, p)
    BY <1>3 DEF RecordLogged
  <2>2. Indexed(h, a, b, p) /\ Written(h, a, b, p)
    BY <2>1, WriteIndices, WriteFacts DEF LedgerInv
  <2>3. contributorIndices' = [contributorIndices EXCEPT ![a] = Append(@, total)]
    BY <2>1 DEF WriteRecord, IndexRecord
  <2>4. ASSUME NEW c \in Addr
        PROVE  /\ Len(contributorIndices'[c]) >= Len(contributorIndices[c])
               /\ \A i \in 1 .. Len(contributorIndices[c]) :
                    contributorIndices'[c][i] = contributorIndices[c][i]
    <3>1. contributorIndices[c] \in Seq(Nat)
      BY <1>2
    <3>2. CASE c = a
      <4>1. contributorIndices'[c] = Append(contributorIndices[c], total)
        BY <1>2, <2>3, <3>2
      <4> QED
        BY <1>1, <3>1, <4>1
    <3>3. CASE c # a
      BY <1>2, <2>3, <3>1, <3>3
    <3> QED
      BY <3>2, <3>3
  <2>5. \A g \in ContentHash : isAnchored(g) => isAnchored(g)' /\ records'[g] = records[g]
    BY <2>2 DEF Written, isAnchored, AnyHash
  <2>6. \A i \in Indices : /\ hashByIndex'[i] = hashByIndex[i]
                           /\ records'[hashByIndex[i]] = records[hashByIndex[i]]
    BY <2>2 DEF Indexed
  <2>7. total' = total + 1 /\ Indices' = 0 .. total' - 1
    BY <1>1, <2>2 DEF Indexed, Written
  <2> QED
    BY <1>1, <2>4, <2>5, <2>6, <2>7 DEF Grown
<1>4. CASE UNCHANGED registryVars
  <2>1. \A a \in Addr : contributorIndices[a] \in Seq(Nat)
    BY <1>2
  <2> QED
    BY <1>1, <1>4, <2>1 DEF Grown, registryVars, Indices, isAnchored
<1> QED
  BY <1>3, <1>4, StepLogsItsRecord DEF LedgerInv, RecordsKept

-----------------------------------------------------------------------------
(***************************************************************************)
(* The state of a command: what vh list, vh reputation and vh lineage hold *)
(* between two calls.                                                      *)
(***************************************************************************)
ListedRow == [index : Nat, contentHash : ContentHash, record : Record]
WalkedRow == [contentHash : ContentHash, record : Record]

Listing == [cmd : {"list"}, pc : {"reading", "done"}, bound : Nat, start : Nat, out : Seq(ListedRow)]

Scoring == [cmd : {"reputation"}, pc : {"reading", "done"}, contributor : Addr, atStart : Nat,
            start : Nat, out : Seq(ListedRow)]

Walking == [cmd : {"lineage"}, pc : {"reading", "done"}, cursor : AnyHash, seen : SUBSET ContentHash,
            out : Seq(WalkedRow), start : ContentHash, status : {"WALKED", "NOT_ANCHORED"},
            cappedAtDepth : BOOLEAN, nextParent : AnyHash]

ReaderShape == reader = Idle \/ reader \in Listing \/ reader \in Scoring \/ reader \in Walking

LEMMA Commands ==
  ASSUME ReaderShape
  PROVE  /\ reader \in Listing <=> reader.cmd = "list"
         /\ reader \in Scoring <=> reader.cmd = "reputation"
         /\ reader \in Walking <=> reader.cmd = "lineage"
BY DEF ReaderShape, Idle, Listing, Scoring, Walking

\* The length of a page: a full one unless the records end.
ClampFits(m, start, size) ==
  /\ m \in Nat /\ m <= PageSize
  /\ start >= size => m = 0
  /\ start < size => m > 0 /\ start + m <= size /\ (m < PageSize => start + m = size)

LEMMA ClampFacts ==
  \A start, size \in Nat : ClampFits(ClampedLength(start, PageSize, size), start, size)
BY ReaderAssumption DEF ClampedLength, ClampFits

\* Rows appended to those gathered.
Appended(out, rows, result) ==
  /\ Len(result) = Len(out) + Len(rows)
  /\ \A i \in 1 .. Len(out) : result[i] = out[i]
  /\ \A i \in 1 .. Len(rows) : result[Len(out) + i] = rows[i]

LEMMA AppendRows ==
  ASSUME NEW S, NEW out \in Seq(S), NEW rows \in Seq(S)
  PROVE  out \o rows \in Seq(S) /\ Appended(out, rows, out \o rows)
BY DEF Appended

\* The rows of a page are its digests with their records, numbered on.
LEMMA PageRows ==
  ASSUME TypeOK, NEW page \in Seq(ContentHash), NEW first \in Nat
  PROVE  LET rows == Rows(page, first)
         IN  /\ rows \in Seq(ListedRow) /\ Len(rows) = Len(page)
             /\ \A i \in 1 .. Len(page) :
                  rows[i] = [index |-> first + i - 1, contentHash |-> page[i], record |-> records[page[i]]]
<1> DEFINE n == Len(page)
           row(i) == [index |-> first + i - 1, contentHash |-> page[i], record |-> records[page[i]]]
<1>1. n \in Nat /\ \A i \in 1 .. n : page[i] \in ContentHash
  OBVIOUS
<1>2. \A i \in 1 .. n : row(i) \in ListedRow
  BY <1>1 DEF TypeOK, ListedRow, AnyHash
<1>3. Rows(page, first) = [i \in 1 .. n |-> row(i)]
  BY DEF Rows
<1> HIDE DEF row, n
<1>4. [i \in 1 .. n |-> row(i)] \in Seq(ListedRow) /\ Len([i \in 1 .. n |-> row(i)]) = n
  BY <1>1, <1>2
<1>5. \A i \in 1 .. n : [j \in 1 .. n |-> row(j)][i] = row(i)
  OBVIOUS
<1> QED
  BY <1>3, <1>4, <1>5 DEF n, row

\* What getRecords answers, at a node that has caught up with n records.
LEMMA ListedPage ==
  ASSUME LedgerInv, NEW n \in 0 .. total, NEW start \in Nat
  PROVE  LET page == KnownRecords(n, start, PageSize)
             m    == ClampedLength(start, PageSize, n)
         IN  /\ page \in Seq(ContentHash) /\ Len(page) = m
             /\ \A i \in 1 .. m : start + i - 1 \in Indices /\ page[i] = hashByIndex[start + i - 1]
<1> DEFINE m == ClampedLength(start, PageSize, n)
<1>1. total \in Nat /\ Indices = 0 .. total - 1 /\ \A i \in Indices : hashByIndex[i] \in ContentHash
  BY DEF LedgerInv, TypeOK, Indices
<1>2. m \in Nat /\ \A i \in 1 .. m : start + i - 1 \in Indices
  <2>1. n \in Nat /\ n <= total
    BY <1>1
  <2>2. ClampFits(m, start, n)
    BY <2>1, ClampFacts
  <2> HIDE DEF m
  <2> QED
    BY <1>1, <2>1, <2>2 DEF ClampFits
<1>3. KnownRecords(n, start, PageSize) = [i \in 1 .. m |-> hashByIndex[start + i - 1]]
  BY DEF KnownRecords
<1> HIDE DEF m
<1>4. [i \in 1 .. m |-> hashByIndex[start + i - 1]] \in Seq(ContentHash)
  BY <1>1, <1>2
<1> QED
  BY <1>2, <1>3, <1>4 DEF m

\* What getRecordsByContributor answers, at a node that knows the first k indices of the account.
KnownPage(contributor, k, start) ==
  [i \in 1 .. ClampedLength(start, PageSize, k) |-> hashByIndex[contributorIndices[contributor][start + i]]]

LEMMA ScoredPage ==
  ASSUME LedgerInv, ContributorIndexExact, NEW a \in Addr, NEW k \in 0 .. Len(contributorIndices[a]),
         NEW start \in Nat
  PROVE  LET page == KnownPage(a, k, start)
             m    == ClampedLength(start, PageSize, k)
         IN  /\ page \in Seq(ContentHash) /\ Len(page) = m
             /\ \A i \in 1 .. m : page[i] = hashByIndex[contributorIndices[a][start + i]]
<1> DEFINE m == ClampedLength(start, PageSize, k)
           idxs == contributorIndices[a]
<1>1. \A i \in Indices : hashByIndex[i] \in ContentHash
  BY DEF LedgerInv, TypeOK
<1>2. idxs \in Seq(Nat)
  BY DEF LedgerInv, TypeOK
<1>3. \A i \in 1 .. Len(idxs) : idxs[i] \in Indices
  BY DEF ContributorIndexExact
<1>4. m \in Nat /\ \A i \in 1 .. m : start + i \in 1 .. Len(idxs)
  <2>1. Len(idxs) \in Nat /\ k \in Nat /\ k <= Len(idxs)
    BY <1>2
  <2>2. ClampFits(m, start, k)
    BY <2>1, ClampFacts
  <2> HIDE DEF m
  <2> QED
    BY <2>1, <2>2 DEF ClampFits
<1>5. KnownPage(a, k, start) = [i \in 1 .. m |-> hashByIndex[idxs[start + i]]]
  BY DEF KnownPage
<1>6. \A i \in 1 .. m : hashByIndex[idxs[start + i]] \in ContentHash
  BY <1>1, <1>3, <1>4
<1> HIDE DEF m, idxs
<1>7. [i \in 1 .. m |-> hashByIndex[idxs[start + i]]] \in Seq(ContentHash)
  BY <1>4, <1>6
<1> QED
  BY <1>4, <1>5, <1>7 DEF m, idxs

-----------------------------------------------------------------------------
(***************************************************************************)
(* One step of each command, whichever node answers it.                    *)
(***************************************************************************)
ListRead(n) ==
  /\ reader.cmd = "list" /\ reader.pc = "reading" /\ reader.start < reader.bound
  /\ LET page == KnownRecords(n, reader.start, PageSize)
     IN  reader' = IF page = <<>> THEN [reader EXCEPT !.pc = "done"]
                   ELSE [reader EXCEPT !.out = @ \o Rows(page, reader.start),
                                       !.start = @ + PageSize]
  /\ UNCHANGED vars

ScoreRead(k) ==
  /\ reader.cmd = "reputation" /\ reader.pc = "reading"
  /\ LET page == KnownPage(reader.contributor, k, reader.start)
     IN  reader' = [reader EXCEPT !.out = @ \o Rows(page, reader.start),
                                  !.start = @ + PageSize,
                                  !.pc = IF Len(page) < PageSize THEN "done" ELSE "reading"]
  /\ UNCHANGED vars

LEMMA ListReads ==
  ASSUME LedgerInv
  PROVE  /\ ListPage => ListRead(total) /\ total \in 0 .. total
         /\ LagListPage => \E n \in 0 .. total : ListRead(n)
<1>1. total \in Nat /\ \A start, count : getRecords(start, count) = KnownRecords(total, start, count)
  BY DEF LedgerInv, TypeOK, getRecords, KnownRecords
<1>2. ListPage => ListRead(total)
  BY <1>1 DEF ListPage, ListRead
<1>3. LagListPage => \E n \in 0 .. total : ListRead(n)
  BY DEF LagListPage, ListRead
<1> QED
  BY <1>1, <1>2, <1>3

LEMMA ScoreReads ==
  ASSUME LedgerInv, reader \in Scoring
  PROVE  LET idxs == contributorIndices[reader.contributor]
         IN  /\ ReputationPage => ScoreRead(Len(idxs)) /\ Len(idxs) \in 0 .. Len(idxs)
             /\ LagReputationPage => \E k \in 0 .. Len(idxs) : ScoreRead(k)
<1> DEFINE a == reader.contributor
           idxs == contributorIndices[a]
           known(n) == Cardinality({k \in DOMAIN idxs : idxs[k] < n})
<1>1. idxs \in Seq(Nat)
  BY DEF LedgerInv, TypeOK, Scoring
<1>2. \A start : getRecordsByContributor(a, start, PageSize) = KnownPage(a, Len(idxs), start)
  BY DEF getRecordsByContributor, KnownPage
<1>3. ReputationPage => ScoreRead(Len(idxs))
  <2>1. getRecordsByContributor(reader.contributor, reader.start, PageSize)
          = KnownPage(reader.contributor, Len(idxs), reader.start)
    BY <1>2
  <2> QED
    BY <2>1 DEF ReputationPage, ScoreRead
<1>4. ASSUME NEW n \in 0 .. total PROVE known(n) \in 0 .. Len(idxs)
  <2>1. IsFiniteSet(1 .. Len(idxs)) /\ Cardinality(1 .. Len(idxs)) = Len(idxs)
    <3>1. Len(idxs) \in Nat
      BY <1>1
    <3>2. 1 \in Int /\ Len(idxs) \in Int
      BY <3>1
    <3>3. /\ IsFiniteSet(1 .. Len(idxs))
          /\ Cardinality(1 .. Len(idxs)) = IF 1 > Len(idxs) THEN 0 ELSE Len(idxs) - 1 + 1
      BY <3>2, FS_Interval, Zenon
    <3> HIDE DEF idxs
    <3> QED
      BY <3>1, <3>3
  <2>2. {k \in DOMAIN idxs : idxs[k] < n} \subseteq 1 .. Len(idxs)
    BY <1>1
  <2>3. /\ known(n) <= Cardinality(1 .. Len(idxs))
        /\ IsFiniteSet({k \in DOMAIN idxs : idxs[k] < n})
    BY <2>1, <2>2, FS_Subset
  <2>4. known(n) \in Nat
    BY <2>3, FS_CardinalityType
  <2> QED
    BY <1>1, <2>1, <2>3, <2>4
<1>5. \A n, start : KnownByContributor(n, a, start, PageSize) = KnownPage(a, known(n), start)
  BY DEF KnownByContributor, KnownPage
<1>6. ASSUME LagReputationPage PROVE \E k \in 0 .. Len(idxs) : ScoreRead(k)
  <2> HIDE DEF known
  <2>1. PICK n \in 0 .. total :
          LET page == KnownByContributor(n, reader.contributor, reader.start, PageSize)
          IN  reader' = [reader EXCEPT !.out = @ \o Rows(page, reader.start),
                                       !.start = @ + PageSize,
                                       !.pc = IF Len(page) < PageSize THEN "done" ELSE "reading"]
    BY <1>6 DEF LagReputationPage
  <2>2. ScoreRead(known(n))
    <3>1. KnownByContributor(n, reader.contributor, reader.start, PageSize)
            = KnownPage(reader.contributor, known(n), reader.start)
      BY <1>5
    <3>2. reader.cmd = "reputation" /\ reader.pc = "reading" /\ UNCHANGED vars
      BY <1>6 DEF LagReputationPage
    <3> QED
      BY <2>1, <3>1, <3>2, Zenon DEF ScoreRead
  <2> QED
    BY <1>4, <2>2
<1> QED
  BY <1>1, <1>3, <1>6

\* What such a step leaves in the command's state.
LEMMA ListReadEffect ==
  ASSUME LedgerInv, reader \in Listing, NEW n \in 0 .. total, ListRead(n)
  PROVE  LET m == ClampedLength(reader.start, PageSize, n)
         IN  /\ reader' \in Listing /\ reader'.bound = reader.bound
             /\ m = 0 => reader'.pc = "done" /\ reader'.start = reader.start /\ reader'.out = reader.out
             /\ m # 0 => /\ reader'.pc = "reading" /\ reader'.start = reader.start + PageSize
                         /\ Len(reader'.out) = Len(reader.out) + m
                         /\ \A i \in 1 .. Len(reader.out) : reader'.out[i] = reader.out[i]
                         /\ \A i \in 1 .. m : reader'.out[Len(reader.out) + i] = Row(reader.start + i - 1)
<1> DEFINE m == ClampedLength(reader.start, PageSize, n)
           page == KnownRecords(n, reader.start, PageSize)
           rows == Rows(page, reader.start)
<1>1. reader.start \in Nat /\ reader.out \in Seq(ListedRow) /\ reader.bound \in Nat
  BY DEF Listing
<1>2. /\ page \in Seq(ContentHash) /\ Len(page) = m
      /\ \A i \in 1 .. m : page[i] = hashByIndex[reader.start + i - 1]
  BY <1>1, ListedPage
<1>3. rows \in Seq(ListedRow) /\ Len(rows) = m
  BY <1>1, <1>2, PageRows DEF LedgerInv
<1>4. \A i \in 1 .. m : rows[i] = Row(reader.start + i - 1)
  <2>1. \A i \in 1 .. m : rows[i] = [index |-> reader.start + i - 1, contentHash |-> page[i],
                                     record |-> records[page[i]]]
    BY <1>1, <1>2, PageRows DEF LedgerInv
  <2> HIDE DEF m, page, rows
  <2> QED
    BY <1>2, <2>1 DEF Row
<1>5. page = <<>> <=> m = 0
  <2> HIDE DEF m, page
  <2> QED
    BY <1>2
<1>6. reader.out \o rows \in Seq(ListedRow) /\ Appended(reader.out, rows, reader.out \o rows)
  BY <1>1, <1>3, AppendRows
<1>7. reader' = IF page = <<>> THEN [reader EXCEPT !.pc = "done"]
                ELSE [reader EXCEPT !.out = @ \o rows, !.start = @ + PageSize]
  BY DEF ListRead
<1>8. reader.pc = "reading"
  BY DEF ListRead
<1> HIDE DEF m, page, rows
<1>9. CASE m = 0
  <2>1. reader' = [reader EXCEPT !.pc = "done"]
    BY <1>5, <1>7, <1>9
  <2> QED
    BY <1>9, <2>1 DEF Listing, m
<1>10. CASE m # 0
  <2>1. reader' = [reader EXCEPT !.out = @ \o rows, !.start = @ + PageSize]
    BY <1>5, <1>7, <1>10
  <2>2. /\ reader'.out = reader.out \o rows /\ reader'.start = reader.start + PageSize
        /\ reader'.pc = "reading" /\ reader'.bound = reader.bound
    BY <1>8, <2>1 DEF Listing
  <2>3. reader.start + PageSize \in Nat /\ reader.out \o rows \in Seq(ListedRow)
    BY <1>1, <1>6, ReaderAssumption
  <2>4. reader' \in Listing
    BY <2>1, <2>3 DEF Listing
  <2> QED
    BY <1>3, <1>4, <1>6, <1>10, <2>2, <2>4 DEF Appended, m
<1> QED
  BY <1>9, <1>10

LEMMA ScoreReadEffect ==
  ASSUME LedgerInv, ContributorIndexExact, reader \in Scoring,
         NEW k \in 0 .. Len(contributorIndices[reader.contributor]), ScoreRead(k)
  PROVE  LET m == ClampedLength(reader.start, PageSize, k)
             idxs == contributorIndices[reader.contributor]
         IN  /\ reader' \in Scoring /\ reader'.contributor = reader.contributor
             /\ reader'.atStart = reader.atStart /\ reader'.start = reader.start + PageSize
             /\ reader'.pc = IF m < PageSize THEN "done" ELSE "reading"
             /\ Len(reader'.out) = Len(reader.out) + m
             /\ \A i \in 1 .. Len(reader.out) : reader'.out[i] = reader.out[i]
             /\ \A i \in 1 .. m :
                  /\ reader'.out[Len(reader.out) + i].contentHash = hashByIndex[idxs[reader.start + i]]
                  /\ reader'.out[Len(reader.out) + i].record = records[hashByIndex[idxs[reader.start + i]]]
<1> DEFINE m == ClampedLength(reader.start, PageSize, k)
           idxs == contributorIndices[reader.contributor]
           page == KnownPage(reader.contributor, k, reader.start)
           rows == Rows(page, reader.start)
<1>1. /\ reader.start \in Nat /\ reader.out \in Seq(ListedRow) /\ reader.contributor \in Addr
      /\ reader.atStart \in Nat
  BY DEF Scoring
<1>2. /\ page \in Seq(ContentHash) /\ Len(page) = m
      /\ \A i \in 1 .. m : page[i] = hashByIndex[idxs[reader.start + i]]
  BY <1>1, ScoredPage
<1>3. rows \in Seq(ListedRow) /\ Len(rows) = m
  BY <1>1, <1>2, PageRows DEF LedgerInv
<1>4. \A i \in 1 .. m : /\ rows[i].contentHash = hashByIndex[idxs[reader.start + i]]
                        /\ rows[i].record = records[hashByIndex[idxs[reader.start + i]]]
  <2>1. \A i \in 1 .. Len(page) : rows[i] = [index |-> reader.start + i - 1, contentHash |-> page[i],
                                             record |-> records[page[i]]]
    <3>1. TypeOK
      BY DEF LedgerInv
    <3> HIDE DEF m, page, idxs
    <3> QED
      BY <1>1, <1>2, <3>1, PageRows
  <2> HIDE DEF m, page, rows, idxs
  <2>2. ASSUME NEW i \in 1 .. m
        PROVE  /\ rows[i].contentHash = hashByIndex[idxs[reader.start + i]]
               /\ rows[i].record = records[hashByIndex[idxs[reader.start + i]]]
    <3>1. page[i] = hashByIndex[idxs[reader.start + i]]
      BY <1>2
    <3>2. rows[i] = [index |-> reader.start + i - 1, contentHash |-> page[i], record |-> records[page[i]]]
      BY <1>2, <2>1
    <3>3. rows[i].contentHash = page[i] /\ rows[i].record = records[page[i]]
      BY <3>2
    <3> QED
      BY <3>1, <3>3
  <2> QED
    BY <2>2
<1>5. reader.out \o rows \in Seq(ListedRow) /\ Appended(reader.out, rows, reader.out \o rows)
  BY <1>1, <1>3, AppendRows
<1>6. reader' = [reader EXCEPT !.out = @ \o rows, !.start = @ + PageSize,
                               !.pc = IF m < PageSize THEN "done" ELSE "reading"]
  <2>1. reader' = [reader EXCEPT !.out = @ \o rows, !.start = @ + PageSize,
                                 !.pc = IF Len(page) < PageSize THEN "done" ELSE "reading"]
    BY DEF ScoreRead
  <2> HIDE DEF m, page, rows
  <2> QED
    BY <1>2, <2>1, Zenon
<1> HIDE DEF m, page, rows, idxs
<1>7. /\ reader'.out = reader.out \o rows /\ reader'.start = reader.start + PageSize
      /\ reader'.pc = (IF m < PageSize THEN "done" ELSE "reading")
      /\ reader'.contributor = reader.contributor /\ reader'.atStart = reader.atStart
  BY <1>6 DEF Scoring
<1>8. reader' \in Scoring
  <2>1. reader.start + PageSize \in Nat /\ reader.out \o rows \in Seq(ListedRow)
    BY <1>1, <1>5, ReaderAssumption
  <2> QED
    BY <1>6, <2>1 DEF Scoring
<1> QED
  BY <1>3, <1>4, <1>5, <1>7, <1>8 DEF Appended, m, idxs

-----------------------------------------------------------------------------
(***************************************************************************)
(* The inductive invariant.                                                *)
(***************************************************************************)
\* Through an up-to-date node a list is a prefix of the registry, by full pages until its bound.
ListInv ==
  (~lagging /\ reader \in Listing) =>
    LET n == Len(reader.out)
    IN  /\ reader.bound <= total /\ n <= total
        /\ \A i \in 1 .. n : reader.out[i] = Row(i - 1)
        /\ n = reader.start \/ (reader.start >= reader.bound /\ n >= reader.bound)
        /\ reader.pc = "done" => n >= reader.bound

\* Whatever node answers, a reputation is about a prefix of the account's records.
ReputationInv ==
  reader \in Scoring =>
    LET n    == Len(reader.out)
        idxs == contributorIndices[reader.contributor]
    IN  /\ n <= Len(idxs) /\ reader.atStart <= Len(idxs)
        /\ \A i \in 1 .. n : /\ reader.out[i].contentHash = hashByIndex[idxs[i]]
                             /\ reader.out[i].record = records[hashByIndex[idxs[i]]]
        /\ reader.pc = "reading" => n = reader.start
        /\ ~lagging /\ reader.pc = "done" => n >= reader.atStart

\* One digest was entered before the other.
Behind(h, g) == \E j, k \in Indices : j < k /\ hashByIndex[j] = h /\ hashByIndex[k] = g

\* A walk follows the edges downwards and has yet to meet the digest it looks at.
WalkChain ==
  LET n == Len(reader.out)
  IN  /\ n > 0 => reader.out[1].contentHash = reader.start
      /\ \A i \in 1 .. n : /\ isAnchored(reader.out[i].contentHash)
                           /\ reader.out[i].record = records[reader.out[i].contentHash]
      /\ \A i \in 1 .. n - 1 : reader.out[i + 1].contentHash = reader.out[i].record.parent

WalkOpen ==
  LET n == Len(reader.out)
  IN  /\ ~reader.cappedAtDepth /\ reader.status = "WALKED"
      /\ n = 0 => reader.cursor = reader.start /\ reader.seen = {}
      /\ n > 0 => reader.cursor = reader.out[n].record.parent /\ reader.out[n].contentHash \in reader.seen
      /\ \A h \in reader.seen : Behind(reader.cursor, h)

WalkClosed ==
  LET n == Len(reader.out)
  IN  /\ reader.cappedAtDepth =>
           n = MaxDepth /\ isAnchored(reader.nextParent) /\ reader.out[n].record.parent = reader.nextParent
      /\ reader.status = "NOT_ANCHORED" => n = 0
      /\ ~lagging /\ n = 0 => reader.status = "NOT_ANCHORED"
      /\ ~lagging /\ n > 0 /\ ~reader.cappedAtDepth => reader.out[n].record.parent = ZeroHash

WalkInv ==
  reader \in Walking =>
    /\ WalkChain
    /\ reader.pc = "reading" => WalkOpen
    /\ reader.pc = "done" => WalkClosed

ReaderInv == ReaderShape /\ lagging \in BOOLEAN /\ ListInv /\ ReputationInv /\ WalkInv

\* A command is of one kind.
LEMMA KindsDiffer ==
  /\ Idle \notin Listing /\ Idle \notin Scoring /\ Idle \notin Walking
  /\ \A r \in Listing : r \notin Scoring /\ r \notin Walking
  /\ \A r \in Scoring : r \notin Listing /\ r \notin Walking
  /\ \A r \in Walking : r \notin Listing /\ r \notin Scoring
BY DEF Idle, Listing, Scoring, Walking

-----------------------------------------------------------------------------
\* What was gathered stays true while the registry grows.
LEMMA ListKept ==
  ASSUME LedgerInv, ListInv, Grown, reader' = reader, lagging' = lagging
  PROVE  ListInv'
<1> SUFFICES ASSUME ~lagging, reader \in Listing
             PROVE  LET n == Len(reader.out)
                    IN  /\ reader.bound <= total' /\ n <= total'
                        /\ \A i \in 1 .. n : reader.out[i] = Row(i - 1)'
                        /\ n = reader.start \/ (reader.start >= reader.bound /\ n >= reader.bound)
                        /\ reader.pc = "done" => n >= reader.bound
  BY DEF ListInv, Row
<1> DEFINE n == Len(reader.out)
<1>1. n \in Nat /\ reader.bound \in Nat
  BY DEF Listing
<1>2. /\ reader.bound <= total /\ n <= total
      /\ \A i \in 1 .. n : reader.out[i] = Row(i - 1)
      /\ n = reader.start \/ (reader.start >= reader.bound /\ n >= reader.bound)
      /\ reader.pc = "done" => n >= reader.bound
  BY DEF ListInv
<1>3. total \in Nat /\ total' \in Nat /\ total' >= total
  BY DEF Grown
<1>4. \A i \in Indices : Row(i)' = Row(i)
  BY DEF Grown, Row
<1> HIDE DEF n
<1>5. \A i \in 1 .. n : i - 1 \in Indices
  BY <1>1, <1>2, <1>3 DEF Grown
<1>6. \A i \in 1 .. n : reader.out[i] = Row(i - 1)'
  BY <1>2, <1>4, <1>5
<1> QED
  BY <1>1, <1>2, <1>3, <1>6 DEF n

LEMMA ReputationKept ==
  ASSUME LedgerInv, ContributorIndexExact, ReputationInv, Grown, reader' = reader, lagging' = lagging
  PROVE  ReputationInv'
<1> SUFFICES ASSUME reader \in Scoring PROVE ReputationInv'
  BY DEF ReputationInv
<1> DEFINE n == Len(reader.out)
           idxs == contributorIndices[reader.contributor]
           later == contributorIndices'[reader.contributor]
<1>1. n \in Nat /\ reader.contributor \in Addr /\ reader.atStart \in Nat
  BY DEF Scoring
<1>2. /\ n <= Len(idxs) /\ reader.atStart <= Len(idxs)
      /\ \A i \in 1 .. n : /\ reader.out[i].contentHash = hashByIndex[idxs[i]]
                           /\ reader.out[i].record = records[hashByIndex[idxs[i]]]
      /\ reader.pc = "reading" => n = reader.start
      /\ ~lagging /\ reader.pc = "done" => n >= reader.atStart
  BY DEF ReputationInv
<1>3. /\ idxs \in Seq(Nat) /\ Len(later) >= Len(idxs)
      /\ \A i \in 1 .. Len(idxs) : later[i] = idxs[i] /\ idxs[i] \in Indices
  <2>1. idxs \in Seq(Nat)
    BY <1>1 DEF LedgerInv, TypeOK
  <2>2. Len(later) >= Len(idxs) /\ \A i \in 1 .. Len(idxs) : later[i] = idxs[i]
    BY <1>1 DEF Grown
  <2>3. \A i \in 1 .. Len(idxs) : idxs[i] \in Indices
    BY <1>1 DEF ContributorIndexExact
  <2> QED
    BY <2>1, <2>2, <2>3
<1>4. ASSUME NEW i \in 1 .. n
      PROVE  /\ reader.out[i].contentHash = hashByIndex'[later[i]]
             /\ reader.out[i].record = records'[hashByIndex'[later[i]]]
  <2>1. i \in 1 .. Len(idxs)
    <3>1. Len(idxs) \in Nat
      BY <1>3
    <3> HIDE DEF n, idxs
    <3> QED
      BY <1>1, <1>2, <3>1
  <2>2. later[i] = idxs[i] /\ idxs[i] \in Indices
    BY <1>3, <2>1
  <2>3. hashByIndex'[idxs[i]] = hashByIndex[idxs[i]] /\ records'[hashByIndex[idxs[i]]] = records[hashByIndex[idxs[i]]]
    BY <2>2 DEF Grown
  <2> QED
    BY <1>2, <2>2, <2>3
<1>5. n <= Len(later) /\ reader.atStart <= Len(later)
  <2>1. Len(idxs) \in Nat /\ Len(later) \in Int
    BY <1>3
  <2> HIDE DEF n, idxs, later
  <2> QED
    BY <1>1, <1>2, <1>3, <2>1
<1> QED
  BY <1>2, <1>4, <1>5 DEF ReputationInv

LEMMA WalkKept ==
  ASSUME LedgerInv, WalkInv, Grown, reader' = reader, lagging' = lagging
  PROVE  WalkInv'
<1> SUFFICES ASSUME reader \in Walking PROVE WalkInv'
  BY DEF WalkInv
<1> DEFINE n == Len(reader.out)
<1>1. /\ reader.out \in Seq(WalkedRow) /\ reader.nextParent \in AnyHash
      /\ \A i \in 1 .. n : reader.out[i].contentHash \in ContentHash
  <2>1. reader.out \in Seq(WalkedRow) /\ reader.nextParent \in AnyHash
    BY DEF Walking
  <2>2. \A i \in 1 .. n : reader.out[i] \in WalkedRow
    BY <2>1
  <2> QED
    BY <2>1, <2>2 DEF WalkedRow
<1>2. \A h \in AnyHash : isAnchored(h) => isAnchored(h)'
  BY DEF Grown, AnyHash, LedgerInv, EnumerationExact, Anchored, TypeOK
<1>3. WalkChain'
  <2>1. \A i \in 1 .. n : /\ isAnchored(reader.out[i].contentHash)
                          /\ reader.out[i].record = records[reader.out[i].contentHash]
    BY DEF WalkInv, WalkChain
  <2>2. \A i \in 1 .. n : /\ isAnchored(reader.out[i].contentHash)'
                          /\ reader.out[i].record = records'[reader.out[i].contentHash]
    BY <1>1, <2>1 DEF Grown
  <2> QED
    BY <2>2 DEF WalkInv, WalkChain
<1>4. \A h, g : Behind(h, g) => Behind(h, g)'
  <2> SUFFICES ASSUME NEW h, NEW g, Behind(h, g) PROVE Behind(h, g)'
    OBVIOUS
  <2>1. PICK j, k \in Indices : j < k /\ hashByIndex[j] = h /\ hashByIndex[k] = g
    BY DEF Behind
  <2>2. Indices \subseteq Indices'
    BY DEF Grown
  <2>3. hashByIndex'[j] = h /\ hashByIndex'[k] = g
    BY <2>1 DEF Grown
  <2> QED
    BY <2>1, <2>2, <2>3 DEF Behind
<1>5. WalkOpen => WalkOpen'
  BY <1>4 DEF WalkOpen
<1>6. WalkClosed => WalkClosed'
  BY <1>1, <1>2 DEF WalkClosed
<1> QED
  BY <1>3, <1>5, <1>6 DEF WalkInv

-----------------------------------------------------------------------------
\* Each command keeps its part of the invariant.
LEMMA ListReadStep ==
  ASSUME LedgerInv, ListInv, reader \in Listing, ListRead(total), lagging' = lagging
  PROVE  ListInv'
<1> SUFFICES ASSUME ~lagging PROVE ListInv'
  BY DEF ListInv
<1> DEFINE n == Len(reader.out)
           m == ClampedLength(reader.start, PageSize, total)
<1>1. /\ n \in Nat /\ reader.start \in Nat /\ reader.bound \in Nat /\ total \in Nat
      /\ PageSize \in Nat
  BY ReaderAssumption DEF Listing, LedgerInv, TypeOK
<1>2. /\ reader' \in Listing /\ reader'.bound = reader.bound
      /\ m = 0 => reader'.pc = "done" /\ reader'.start = reader.start /\ reader'.out = reader.out
      /\ m # 0 => /\ reader'.pc = "reading" /\ reader'.start = reader.start + PageSize
                  /\ Len(reader'.out) = n + m
                  /\ \A i \in 1 .. n : reader'.out[i] = reader.out[i]
                  /\ \A i \in 1 .. m : reader'.out[n + i] = Row(reader.start + i - 1)
  <2>1. total \in 0 .. total
    BY <1>1
  <2> QED
    BY <2>1, ListReadEffect
<1>3. ClampFits(m, reader.start, total)
  BY <1>1, ClampFacts
<1>4. /\ reader.bound <= total /\ n <= total
      /\ \A i \in 1 .. n : reader.out[i] = Row(i - 1)
      /\ n = reader.start \/ (reader.start >= reader.bound /\ n >= reader.bound)
  BY DEF ListInv
<1>5. reader.start < reader.bound /\ UNCHANGED vars
  BY DEF ListRead
<1>6. \A i : Row(i)' = Row(i)
  BY <1>5 DEF Row, vars, registryVars
<1> HIDE DEF n, m
<1>7. n = reader.start /\ m # 0 /\ m > 0 /\ m \in Nat /\ n + m <= total /\ (m < PageSize => n + m = total)
  BY <1>1, <1>3, <1>4, <1>5 DEF ClampFits
<1>8. \A i \in 1 .. n + m : reader'.out[i] = Row(i - 1)
  <2> TAKE i \in 1 .. n + m
  <2>1. CASE i <= n
    BY <1>1, <1>2, <1>4, <1>7, <2>1
  <2>2. CASE i > n
    <3>1. PICK j \in 1 .. m : i = n + j
      <4>1. i - n \in 1 .. m /\ i = n + (i - n)
        BY <1>1, <1>7, <2>2
      <4> QED
        BY <4>1
    <3>2. reader'.out[n + j] = Row(reader.start + j - 1)
      BY <1>2, <1>7
    <3>3. reader.start + j - 1 = i - 1
      BY <1>1, <1>7, <3>1
    <3> QED
      BY <3>1, <3>2, <3>3
  <2> QED
    BY <1>1, <2>1, <2>2
<1>9. Len(reader'.out) = n + m /\ reader'.start = n + PageSize /\ reader'.pc = "reading"
  BY <1>2, <1>7
<1>10. total' = total
  BY <1>5 DEF vars, registryVars
<1>11. n + m = n + PageSize \/ (n + PageSize >= reader.bound /\ n + m >= reader.bound)
  BY <1>1, <1>3, <1>4, <1>7 DEF ClampFits
<1> QED
  BY <1>2, <1>4, <1>6, <1>7, <1>8, <1>9, <1>10, <1>11 DEF ListInv

LEMMA ScoreReadStep ==
  ASSUME LedgerInv, ContributorIndexExact, ReputationInv, reader \in Scoring, lagging' = lagging,
         NEW k \in 0 .. Len(contributorIndices[reader.contributor]), ScoreRead(k),
         ~lagging => k = Len(contributorIndices[reader.contributor])
  PROVE  ReputationInv'
<1> DEFINE n == Len(reader.out)
           m == ClampedLength(reader.start, PageSize, k)
           idxs == contributorIndices[reader.contributor]
<1>1. /\ n \in Nat /\ reader.start \in Nat /\ reader.contributor \in Addr /\ reader.atStart \in Nat
      /\ PageSize \in Nat
  BY ReaderAssumption DEF Scoring
<1>2. idxs \in Seq(Nat) /\ Len(idxs) \in Nat /\ k \in Nat /\ k <= Len(idxs)
  <2>1. idxs \in Seq(Nat)
    BY <1>1 DEF LedgerInv, TypeOK
  <2> HIDE DEF idxs
  <2>2. Len(idxs) \in Nat
    BY <2>1
  <2> QED
    BY <2>1, <2>2 DEF idxs
<1>3. ClampFits(m, reader.start, k)
  BY <1>1, <1>2, ClampFacts
<1>4. /\ reader' \in Scoring /\ reader'.contributor = reader.contributor
      /\ reader'.atStart = reader.atStart /\ reader'.start = reader.start + PageSize
      /\ reader'.pc = IF m < PageSize THEN "done" ELSE "reading"
      /\ Len(reader'.out) = n + m
      /\ \A i \in 1 .. n : reader'.out[i] = reader.out[i]
      /\ \A i \in 1 .. m : /\ reader'.out[n + i].contentHash = hashByIndex[idxs[reader.start + i]]
                           /\ reader'.out[n + i].record = records[hashByIndex[idxs[reader.start + i]]]
  BY ScoreReadEffect
<1>5. /\ n <= Len(idxs) /\ reader.atStart <= Len(idxs)
      /\ \A i \in 1 .. n : /\ reader.out[i].contentHash = hashByIndex[idxs[i]]
                           /\ reader.out[i].record = records[hashByIndex[idxs[i]]]
      /\ n = reader.start
  BY DEF ReputationInv, ScoreRead
<1>6. UNCHANGED vars
  BY DEF ScoreRead
<1>7. ~lagging => k = Len(idxs)
  OBVIOUS
<1> HIDE DEF n, m, idxs
<1>8. m \in Nat /\ m <= PageSize /\ n + m <= Len(idxs)
  BY <1>1, <1>2, <1>3, <1>5 DEF ClampFits
<1>9. \A i \in 1 .. n + m : /\ reader'.out[i].contentHash = hashByIndex[idxs[i]]
                            /\ reader'.out[i].record = records[hashByIndex[idxs[i]]]
  <2> TAKE i \in 1 .. n + m
  <2>1. CASE i <= n
    <3>1. i \in 1 .. n
      BY <1>1, <1>8, <2>1
    <3>2. reader'.out[i] = reader.out[i]
      BY <1>4, <3>1
    <3>3. /\ reader.out[i].contentHash = hashByIndex[idxs[i]]
          /\ reader.out[i].record = records[hashByIndex[idxs[i]]]
      BY <1>5, <3>1
    <3> QED
      BY <3>2, <3>3
  <2>2. CASE i > n
    <3>1. PICK j \in 1 .. m : i = n + j
      <4>1. i - n \in 1 .. m /\ i = n + (i - n)
        BY <1>1, <1>8, <2>2
      <4> QED
        BY <4>1
    <3>2. /\ reader'.out[n + j].contentHash = hashByIndex[idxs[reader.start + j]]
          /\ reader'.out[n + j].record = records[hashByIndex[idxs[reader.start + j]]]
      BY <1>4
    <3> QED
      BY <1>5, <3>1, <3>2
  <2> QED
    BY <1>1, <2>1, <2>2
<1>10. reader'.pc = "reading" => n + m = n + PageSize
  <2>1. m < PageSize => reader'.pc = "done"
    BY <1>4
  <2> QED
    BY <1>1, <1>8, <2>1
<1>11. (~lagging /\ reader'.pc = "done") => n + m >= reader.atStart
  <2> SUFFICES ASSUME ~lagging, reader'.pc = "done" PROVE n + m >= reader.atStart
    OBVIOUS
  <2>1. m < PageSize /\ k = Len(idxs) /\ reader.start = n /\ reader.atStart <= Len(idxs)
    BY <1>4, <1>5, <1>7
  <2>2. n < Len(idxs) => n + m = Len(idxs)
    BY <1>3, <2>1 DEF ClampFits
  <2> QED
    BY <1>1, <1>2, <1>8, <2>1, <2>2
<1>12. contributorIndices'[reader'.contributor] = idxs /\ hashByIndex' = hashByIndex /\ records' = records
  BY <1>4, <1>6 DEF vars, registryVars, idxs
<1> QED
  BY <1>4, <1>5, <1>8, <1>9, <1>10, <1>11, <1>12 DEF ReputationInv

-----------------------------------------------------------------------------
\* The order of insertion among the digests of the registry.
LEMMA BehindFacts ==
  ASSUME LedgerInv
  PROVE  /\ \A h, g : Behind(h, g) => h \in ContentHash /\ isAnchored(h)
         /\ \A h, g, f : Behind(h, g) /\ Behind(g, f) => Behind(h, f)
         /\ \A h : ~Behind(h, h)
         /\ \A h \in AnyHash : isAnchored(h) => h \in ContentHash
         /\ \A h \in AnyHash : (isAnchored(h) /\ records[h].parent # ZeroHash) => Behind(records[h].parent, h)
<1>1. /\ total \in Nat /\ Indices = 0 .. total - 1
      /\ \A i \in Indices : hashByIndex[i] \in ContentHash
  BY DEF LedgerInv, TypeOK, Indices
<1>2. \A i, j \in Indices : hashByIndex[i] = hashByIndex[j] => i = j
  BY DEF LedgerInv, EnumerationExact
<1>3. {hashByIndex[i] : i \in Indices} = {h \in AnyHash : isAnchored(h)}
  BY DEF LedgerInv, EnumerationExact, Anchored
<1>4. \A i \in Indices : isAnchored(hashByIndex[i])
  BY <1>3
<1>5. \A h \in AnyHash : isAnchored(h) => \E i \in Indices : hashByIndex[i] = h
  BY <1>3
<1>6. \A h, g : Behind(h, g) => h \in ContentHash /\ isAnchored(h)
  BY <1>1, <1>4 DEF Behind
<1>7. ASSUME NEW h, NEW g, NEW f, Behind(h, g), Behind(g, f) PROVE Behind(h, f)
  <2>1. PICK j, k \in Indices : j < k /\ hashByIndex[j] = h /\ hashByIndex[k] = g
    BY <1>7 DEF Behind
  <2>2. PICK l, o \in Indices : l < o /\ hashByIndex[l] = g /\ hashByIndex[o] = f
    BY <1>7 DEF Behind
  <2>3. k = l
    BY <1>2, <2>1, <2>2
  <2>4. j < o
    BY <1>1, <2>1, <2>2, <2>3
  <2> QED
    BY <2>1, <2>2, <2>4 DEF Behind
<1>8. ASSUME NEW h, Behind(h, h) PROVE FALSE
  <2>1. PICK j, k \in Indices : j < k /\ hashByIndex[j] = h /\ hashByIndex[k] = h
    BY <1>8 DEF Behind
  <2>2. j = k
    BY <1>2, <2>1
  <2> QED
    BY <1>1, <2>1, <2>2
<1>9. ASSUME NEW h \in AnyHash, isAnchored(h), records[h].parent # ZeroHash PROVE Behind(records[h].parent, h)
  <2>1. PICK i \in Indices : hashByIndex[i] = h
    BY <1>5, <1>9
  <2>2. PICK j \in 0 .. i - 1 : hashByIndex[j] = records[h].parent
    BY <1>9, <2>1 DEF LedgerInv, LineageOrdered
  <2>3. j \in Indices /\ j < i
    BY <1>1, <2>1, <2>2
  <2> QED
    BY <2>1, <2>2, <2>3 DEF Behind
<1>10. \A h \in AnyHash : isAnchored(h) => h \in ContentHash
  BY <1>1, <1>5
<1> QED
  BY <1>6, <1>7, <1>8, <1>9, <1>10

\* A record joins those walked.
LEMMA WalkedOn ==
  ASSUME LedgerInv, WalkInv, reader \in Walking, reader.pc = "reading", isAnchored(reader.cursor),
         UNCHANGED vars, reader' \in Walking, reader'.start = reader.start,
         reader'.out = Append(reader.out, [contentHash |-> reader.cursor, record |-> records[reader.cursor]])
  PROVE  /\ WalkChain' /\ Len(reader'.out) = Len(reader.out) + 1
         /\ reader'.out[Len(reader.out) + 1].record = records[reader.cursor]
         /\ reader'.out[Len(reader.out) + 1].contentHash = reader.cursor
<1> DEFINE n == Len(reader.out)
           row == [contentHash |-> reader.cursor, record |-> records[reader.cursor]]
<1>1. reader.out \in Seq(WalkedRow) /\ n \in Nat
  BY DEF Walking
<1>2. /\ reader'.out = Append(reader.out, row)
      /\ row.contentHash = reader.cursor /\ row.record = records[reader.cursor]
  OBVIOUS
<1>3. /\ n > 0 => reader.out[1].contentHash = reader.start
      /\ \A i \in 1 .. n : /\ isAnchored(reader.out[i].contentHash)
                           /\ reader.out[i].record = records[reader.out[i].contentHash]
      /\ \A i \in 1 .. n - 1 : reader.out[i + 1].contentHash = reader.out[i].record.parent
      /\ n = 0 => reader.cursor = reader.start
      /\ n > 0 => reader.cursor = reader.out[n].record.parent
  BY DEF WalkInv, WalkChain, WalkOpen
<1> HIDE DEF row
<1>4. /\ Len(reader'.out) = n + 1
      /\ \A i \in 1 .. n : reader'.out[i] = reader.out[i]
      /\ reader'.out[n + 1] = row
  BY <1>1, <1>2
<1> HIDE DEF n
<1>5. records' = records /\ \A h : isAnchored(h)' <=> isAnchored(h)
  BY DEF vars, registryVars, isAnchored
<1>6. \A i \in 1 .. n + 1 : /\ isAnchored(reader'.out[i].contentHash)
                            /\ reader'.out[i].record = records[reader'.out[i].contentHash]
  <2> TAKE i \in 1 .. n + 1
  <2>1. CASE i = n + 1
    BY <1>2, <1>4, <2>1
  <2>2. CASE i # n + 1
    <3>1. i \in 1 .. n
      BY <1>1, <2>2
    <3> QED
      BY <1>3, <1>4, <3>1
  <2> QED
    BY <2>1, <2>2
<1>7. \A i \in 1 .. n : reader'.out[i + 1].contentHash = reader'.out[i].record.parent
  <2> TAKE i \in 1 .. n
  <2>1. CASE i = n
    <3>1. n > 0
      BY <1>1, <2>1
    <3> QED
      BY <1>2, <1>3, <1>4, <2>1, <3>1
  <2>2. CASE i # n
    <3>1. i \in 1 .. n - 1 /\ i + 1 \in 1 .. n
      BY <1>1, <2>2
    <3> QED
      BY <1>3, <1>4, <3>1
  <2> QED
    BY <2>1, <2>2
<1>8. reader'.out[1].contentHash = reader'.start
  <2>1. CASE n = 0
    BY <1>2, <1>3, <1>4, <2>1
  <2>2. CASE n > 0
    BY <1>1, <1>3, <1>4, <2>2
  <2> QED
    BY <1>1, <2>1, <2>2
<1>9. WalkChain'
  <2>1. Len(reader'.out) - 1 = n
    BY <1>1, <1>4
  <2> QED
    BY <1>4, <1>5, <1>6, <1>7, <1>8, <2>1 DEF WalkChain, isAnchored
<1> QED
  BY <1>2, <1>4, <1>9 DEF n

\* What one hop does to the walk.
Stopped(status) ==
  reader' = [reader EXCEPT !.pc = "done", !.status = status]

Walked(pc, capped, nextParent) ==
  reader' = [reader EXCEPT !.seen = @ \cup {reader.cursor},
                           !.out = Append(@, [contentHash |-> reader.cursor, record |-> records[reader.cursor]]),
                           !.cursor = records[reader.cursor].parent,
                           !.pc = pc, !.cappedAtDepth = capped, !.nextParent = nextParent]

LEMMA HopOutcome ==
  ASSUME reader \in Walking, LineageHop
  PROVE  LET h == reader.cursor
         IN  \/ h \in reader.seen
             \/ /\ h \notin reader.seen /\ ~isAnchored(h)
                /\ Stopped(IF Len(reader.out) = 0 THEN "NOT_ANCHORED" ELSE reader.status)
             \/ /\ h \notin reader.seen /\ isAnchored(h)
                /\ \/ records[h].parent = ZeroHash /\ Walked("done", reader.cappedAtDepth, reader.nextParent)
                   \/ /\ records[h].parent # ZeroHash /\ Len(reader.out) = MaxDepth - 1
                      /\ Walked("done", TRUE, records[h].parent)
                   \/ /\ records[h].parent # ZeroHash
                      /\ Walked("reading", reader.cappedAtDepth, reader.nextParent)
<1> DEFINE h == reader.cursor
           depth == Len(reader.out)
           walked == [reader EXCEPT !.seen = @ \cup {h},
                                    !.out = Append(@, [contentHash |-> h, record |-> records[h]]),
                                    !.cursor = records[h].parent]
<1>1. reader' = IF h \in reader.seen THEN [reader EXCEPT !.pc = "done"]
                ELSE IF ~isAnchored(h)
                THEN [reader EXCEPT !.pc = "done", !.status = IF depth = 0 THEN "NOT_ANCHORED" ELSE @]
                ELSE IF records[h].parent = ZeroHash THEN [walked EXCEPT !.pc = "done"]
                ELSE IF depth = MaxDepth - 1
                THEN [walked EXCEPT !.pc = "done", !.cappedAtDepth = TRUE, !.nextParent = records[h].parent]
                ELSE walked
  BY Zenon DEF LineageHop
<1>2. reader.pc = "reading"
  BY DEF LineageHop
<1>3. \A pc, capped, nextParent :
        Walked(pc, capped, nextParent)
          <=> reader' = [walked EXCEPT !.pc = pc, !.cappedAtDepth = capped, !.nextParent = nextParent]
  BY DEF Walked, Walking
<1>4. /\ [walked EXCEPT !.pc = "done"]
           = [walked EXCEPT !.pc = "done", !.cappedAtDepth = reader.cappedAtDepth,
                            !.nextParent = reader.nextParent]
      /\ walked = [walked EXCEPT !.pc = "reading", !.cappedAtDepth = reader.cappedAtDepth,
                                 !.nextParent = reader.nextParent]
  BY <1>2 DEF Walking
<1> HIDE DEF walked
<1>5. CASE h \notin reader.seen /\ ~isAnchored(h)
  BY <1>1, <1>5 DEF Stopped
<1>6. CASE h \notin reader.seen /\ isAnchored(h)
  <2>1. CASE records[h].parent = ZeroHash
    BY <1>1, <1>3, <1>4, <1>6, <2>1
  <2>2. CASE records[h].parent # ZeroHash /\ depth = MaxDepth - 1
    BY <1>1, <1>3, <1>6, <2>2
  <2>3. CASE records[h].parent # ZeroHash /\ depth # MaxDepth - 1
    BY <1>1, <1>3, <1>4, <1>6, <2>3
  <2> QED
    BY <2>1, <2>2, <2>3
<1> QED
  BY <1>5, <1>6

LEMMA WalkedEffect ==
  ASSUME TypeOK, reader \in Walking, reader.cursor \in ContentHash,
         NEW pc \in {"reading", "done"}, NEW capped \in BOOLEAN, NEW nextParent \in AnyHash,
         Walked(pc, capped, nextParent)
  PROVE  /\ reader' \in Walking /\ reader'.start = reader.start /\ reader'.status = reader.status
         /\ reader'.seen = reader.seen \cup {reader.cursor}
         /\ reader'.out = Append(reader.out, [contentHash |-> reader.cursor, record |-> records[reader.cursor]])
         /\ reader'.cursor = records[reader.cursor].parent
         /\ reader'.pc = pc /\ reader'.cappedAtDepth = capped /\ reader'.nextParent = nextParent
<1> DEFINE row == [contentHash |-> reader.cursor, record |-> records[reader.cursor]]
<1>1. /\ records[reader.cursor] \in Record /\ records[reader.cursor].parent \in AnyHash
      /\ row \in WalkedRow
  BY DEF TypeOK, WalkedRow, Record, AnyHash
<1>2. reader' = [reader EXCEPT !.seen = @ \cup {reader.cursor}, !.out = Append(@, row),
                               !.cursor = records[reader.cursor].parent,
                               !.pc = pc, !.cappedAtDepth = capped, !.nextParent = nextParent]
  BY DEF Walked
<1>3. /\ reader.seen \cup {reader.cursor} \in SUBSET ContentHash
      /\ Append(reader.out, row) \in Seq(WalkedRow)
  BY <1>1 DEF Walking
<1> HIDE DEF row
<1>4. reader' \in Walking
  BY <1>1, <1>2, <1>3 DEF Walking
<1> QED
  BY <1>2, <1>4 DEF Walking, row

LEMMA HopStep ==
  ASSUME LedgerInv, WalkInv, reader \in Walking, LineageHop, lagging' = lagging
  PROVE  reader' \in Walking /\ WalkInv'
<1> DEFINE n == Len(reader.out)
           h == reader.cursor
<1>1. /\ reader.pc = "reading" /\ UNCHANGED vars
      /\ reader.out \in Seq(WalkedRow) /\ n \in Nat /\ h \in AnyHash
      /\ reader.status \in {"WALKED", "NOT_ANCHORED"} /\ reader.seen \subseteq ContentHash
      /\ reader.cappedAtDepth \in BOOLEAN /\ reader.nextParent \in AnyHash
  BY DEF LineageHop, Walking
<1>2. WalkChain /\ WalkOpen
  BY <1>1 DEF WalkInv
<1>3. h \notin reader.seen
  BY <1>2, BehindFacts DEF WalkOpen
<1>4. n > 0 => isAnchored(h)
  BY <1>2, BehindFacts DEF WalkOpen
<1>5. /\ \A g \in AnyHash : isAnchored(g)' <=> isAnchored(g)
      /\ \A f, g : Behind(f, g)' <=> Behind(f, g)
  BY <1>1 DEF vars, registryVars, isAnchored, Behind, Indices
<1>6. CASE ~isAnchored(h) /\ Stopped(IF n = 0 THEN "NOT_ANCHORED" ELSE reader.status)
  <2>1. n = 0
    BY <1>1, <1>4, <1>6
  <2>2. reader' = [reader EXCEPT !.pc = "done", !.status = "NOT_ANCHORED"]
    BY <1>6, <2>1 DEF Stopped
  <2>3. /\ reader' \in Walking /\ reader'.pc = "done" /\ reader'.status = "NOT_ANCHORED"
        /\ reader'.out = reader.out /\ reader'.start = reader.start
        /\ reader'.cappedAtDepth = reader.cappedAtDepth
    BY <2>2 DEF Walking
  <2>4. WalkChain'
    BY <2>1, <2>3 DEF WalkChain
  <2>5. WalkClosed'
    BY <1>2, <2>1, <2>3 DEF WalkClosed, WalkOpen
  <2> QED
    BY <2>3, <2>4, <2>5 DEF WalkInv
<1>7. ASSUME isAnchored(h), NEW pc \in {"reading", "done"}, NEW capped \in BOOLEAN,
             NEW nextParent \in AnyHash, Walked(pc, capped, nextParent)
      PROVE  /\ reader' \in Walking /\ WalkChain' /\ Len(reader'.out) = n + 1
             /\ reader'.out[n + 1].record = records[h] /\ reader'.out[n + 1].contentHash = h
             /\ reader'.status = "WALKED" /\ reader'.seen = reader.seen \cup {h}
             /\ reader'.cursor = records[h].parent
             /\ reader'.pc = pc /\ reader'.cappedAtDepth = capped /\ reader'.nextParent = nextParent
  <2>1. h \in ContentHash
    BY <1>1, <1>7, BehindFacts
  <2>2. /\ reader' \in Walking /\ reader'.start = reader.start /\ reader'.status = reader.status
        /\ reader'.seen = reader.seen \cup {h}
        /\ reader'.out = Append(reader.out, [contentHash |-> h, record |-> records[h]])
        /\ reader'.cursor = records[h].parent
        /\ reader'.pc = pc /\ reader'.cappedAtDepth = capped /\ reader'.nextParent = nextParent
    BY <1>7, <2>1, WalkedEffect DEF LedgerInv
  <2>3. reader.status = "WALKED"
    BY <1>2 DEF WalkOpen
  <2>4. /\ WalkChain' /\ Len(reader'.out) = n + 1
        /\ reader'.out[n + 1].record = records[h] /\ reader'.out[n + 1].contentHash = h
    BY <1>1, <1>7, <2>2, WalkedOn
  <2> QED
    BY <2>2, <2>3, <2>4
<1>8. ~reader.cappedAtDepth
  BY <1>2 DEF WalkOpen
<1>9. CASE isAnchored(h) /\ records[h].parent = ZeroHash /\ Walked("done", reader.cappedAtDepth, reader.nextParent)
  <2>1. /\ reader' \in Walking /\ WalkChain' /\ Len(reader'.out) = n + 1
        /\ reader'.out[n + 1].record = records[h] /\ reader'.status = "WALKED"
        /\ reader'.pc = "done" /\ reader'.cappedAtDepth = reader.cappedAtDepth
    BY <1>1, <1>7, <1>9
  <2> HIDE DEF n, h
  <2>2. WalkClosed'
    BY <1>1, <1>8, <1>9, <2>1 DEF WalkClosed
  <2> QED
    BY <2>1, <2>2 DEF WalkInv
<1>10. CASE /\ isAnchored(h) /\ records[h].parent # ZeroHash /\ n = MaxDepth - 1
            /\ Walked("done", TRUE, records[h].parent)
  <2>1. records[h].parent \in AnyHash /\ Behind(records[h].parent, h)
    BY <1>1, <1>10, BehindFacts DEF LedgerInv, TypeOK, Record, AnyHash
  <2>2. isAnchored(records[h].parent)
    BY <2>1, BehindFacts
  <2>3. /\ reader' \in Walking /\ WalkChain' /\ Len(reader'.out) = n + 1
        /\ reader'.out[n + 1].record = records[h] /\ reader'.status = "WALKED"
        /\ reader'.pc = "done" /\ reader'.cappedAtDepth = TRUE /\ reader'.nextParent = records[h].parent
    BY <1>7, <1>10, <2>1
  <2> HIDE DEF n, h
  <2>4. n + 1 = MaxDepth /\ n + 1 # 0
    BY <1>1, <1>10, ReaderAssumption
  <2>5. records'[reader'.nextParent].contributor # ZeroAddress
    BY <1>1, <2>2, <2>3 DEF isAnchored, vars, registryVars
  <2>6. WalkClosed'
    BY <2>3, <2>4, <2>5 DEF WalkClosed, isAnchored
  <2> QED
    BY <2>3, <2>6 DEF WalkInv
<1>11. CASE /\ isAnchored(h) /\ records[h].parent # ZeroHash
            /\ Walked("reading", reader.cappedAtDepth, reader.nextParent)
  <2>1. Behind(records[h].parent, h)
    BY <1>1, <1>11, BehindFacts
  <2>2. /\ reader' \in Walking /\ WalkChain' /\ Len(reader'.out) = n + 1
        /\ reader'.out[n + 1].record = records[h] /\ reader'.out[n + 1].contentHash = h
        /\ reader'.status = "WALKED" /\ reader'.seen = reader.seen \cup {h}
        /\ reader'.cursor = records[h].parent
        /\ reader'.pc = "reading" /\ reader'.cappedAtDepth = reader.cappedAtDepth
    BY <1>1, <1>7, <1>11
  <2>3. ASSUME NEW g \in reader'.seen PROVE Behind(reader'.cursor, g)
    <3>1. CASE g = h
      BY <2>1, <2>2, <3>1
    <3>2. CASE g \in reader.seen
      <4>1. Behind(h, g)
        BY <1>2, <3>2 DEF WalkOpen
      <4> QED
        BY <2>1, <2>2, <4>1, BehindFacts
    <3> QED
      BY <2>2, <3>1, <3>2
  <2>4. \A g \in reader'.seen :
          \E j, k \in Indices' : j < k /\ hashByIndex'[j] = reader'.cursor /\ hashByIndex'[k] = g
    BY <1>1, <2>3 DEF vars, registryVars, Behind, Indices
  <2> HIDE DEF n, h
  <2>5. WalkOpen'
    <3>1. Len(reader'.out) # 0 /\ Len(reader'.out) > 0
      BY <1>1, <2>2
    <3>2. /\ reader'.cursor = reader'.out[Len(reader'.out)].record.parent
          /\ reader'.out[Len(reader'.out)].contentHash \in reader'.seen
      BY <2>2
    <3>3. ~reader'.cappedAtDepth
      BY <1>8, <2>2
    <3> QED
      BY <2>2, <2>4, <3>1, <3>2, <3>3 DEF WalkOpen, Behind
  <2> QED
    BY <2>2, <2>5 DEF WalkInv
<1> QED
  BY <1>3, <1>6, <1>9, <1>10, <1>11, HopOutcome

\* A node that is behind ends the walk where it likes.
LEMMA LagHopStep ==
  ASSUME LedgerInv, WalkInv, reader \in Walking, lagging, LagLineageHop, lagging' = lagging
  PROVE  reader' \in Walking /\ WalkInv'
<1>1. CASE LineageHop
  BY <1>1, HopStep
<1>2. CASE ~LineageHop
  <2>1. /\ reader.pc = "reading" /\ UNCHANGED vars
        /\ reader' = [reader EXCEPT !.pc = "done",
                                    !.status = IF reader.out = <<>> THEN "NOT_ANCHORED" ELSE @]
    BY <1>2 DEF LagLineageHop
  <2>2. WalkChain /\ ~reader.cappedAtDepth /\ reader.status = "WALKED"
    BY <2>1 DEF WalkInv, WalkOpen
  <2>3. /\ reader' \in Walking /\ reader'.pc = "done"
        /\ reader'.status = (IF reader.out = <<>> THEN "NOT_ANCHORED" ELSE "WALKED")
        /\ reader'.out = reader.out /\ reader'.start = reader.start
        /\ reader'.cappedAtDepth = reader.cappedAtDepth
    BY <2>1, <2>2 DEF Walking
  <2>4. WalkChain'
    BY <2>1, <2>2, <2>3 DEF WalkChain, vars, registryVars, isAnchored
  <2>5. WalkClosed'
    BY <2>2, <2>3 DEF WalkClosed
  <2> QED
    BY <2>3, <2>4, <2>5 DEF WalkInv
<1> QED
  BY <1>1, <1>2

\* A command that starts has gathered nothing.
LEMMA StartStep ==
  ASSUME ExactInv, lagging \in BOOLEAN, lagging' = lagging,
         \/ StartList
         \/ lagging /\ LagStartList
         \/ \E a \in Addr : StartReputation(a)
         \/ \E h \in ContentHash : StartLineage(h)
  PROVE  ReaderInv'
<1>0. total \in Nat /\ UNCHANGED vars
  BY DEF ExactInv, LedgerInv, TypeOK, StartList, LagStartList, StartReputation, StartLineage
<1>1. ASSUME NEW n \in 0 .. total, ~lagging => n = total,
             reader' = [cmd |-> "list", pc |-> "reading", bound |-> n, start |-> 0, out |-> <<>>]
      PROVE  ReaderInv'
  <2>1. reader' \in Listing
    BY <1>0, <1>1 DEF Listing
  <2>2. ListInv'
    BY <1>0, <1>1 DEF ListInv, vars, registryVars
  <2> QED
    BY <2>1, <2>2, KindsDiffer DEF ReaderInv, ReaderShape, ReputationInv, WalkInv
<1>2. ASSUME NEW a \in Addr, StartReputation(a) PROVE ReaderInv'
  <2>1. contributorCount[a] \in Nat /\ contributorCount[a] = Len(contributorIndices[a])
    BY DEF ExactInv, LedgerInv, TypeOK, ContributorIndexExact
  <2>2. reader' = [cmd |-> "reputation", pc |-> "reading", contributor |-> a,
                   atStart |-> contributorCount[a], start |-> 0, out |-> <<>>]
    BY <1>2 DEF StartReputation
  <2>3. reader' \in Scoring
    BY <2>1, <2>2 DEF Scoring
  <2>4. ReputationInv'
    BY <1>0, <2>1, <2>2 DEF ReputationInv, vars, registryVars
  <2> QED
    BY <2>3, <2>4, KindsDiffer DEF ReaderInv, ReaderShape, ListInv, WalkInv
<1>3. ASSUME NEW h \in ContentHash, StartLineage(h) PROVE ReaderInv'
  <2>1. reader' = [cmd |-> "lineage", pc |-> "reading", cursor |-> h, seen |-> {}, out |-> <<>>,
                   start |-> h, status |-> "WALKED", cappedAtDepth |-> FALSE, nextParent |-> ZeroHash]
    BY <1>3 DEF StartLineage
  <2>2. reader' \in Walking
    BY <2>1 DEF Walking, AnyHash
  <2>3. WalkInv'
    BY <2>1 DEF WalkInv, WalkChain, WalkOpen
  <2> QED
    BY <2>2, <2>3, KindsDiffer DEF ReaderInv, ReaderShape, ListInv, ReputationInv
<1>4. CASE StartList
  BY <1>0, <1>1, <1>4 DEF StartList
<1>5. CASE lagging /\ LagStartList
  BY <1>1, <1>5 DEF LagStartList
<1> QED
  BY <1>2, <1>3, <1>4, <1>5

\* A command that goes on.
LEMMA PageStep ==
  ASSUME ExactInv, ReaderInv, lagging' = lagging,
         \/ ~lagging /\ (ListPage \/ ReputationPage \/ LineageHop)
         \/ lagging /\ (LagListPage \/ LagReputationPage \/ LagLineageHop)
         \/ ListEnds
  PROVE  ReaderInv'
<1> USE DEF ExactInv
<1>1. CASE (~lagging /\ ListPage) \/ (lagging /\ LagListPage)
  <2>1. reader \in Listing
    BY <1>1, Commands DEF ReaderInv, ListPage, LagListPage
  <2>2. PICK n \in 0 .. total : ListRead(n) /\ (~lagging => n = total)
    BY <1>1, <2>1, ListReads
  <2>3. reader' \in Listing
    BY <2>1, <2>2, ListReadEffect
  <2>4. ListInv'
    <3>1. CASE lagging
      BY <3>1 DEF ListInv
    <3>2. CASE ~lagging
      BY <2>1, <2>2, <3>2, ListReadStep DEF ReaderInv
    <3> QED
      BY <3>1, <3>2
  <2> QED
    BY <2>3, <2>4, KindsDiffer DEF ReaderInv, ReaderShape, ReputationInv, WalkInv
<1>2. CASE (~lagging /\ ReputationPage) \/ (lagging /\ LagReputationPage)
  <2>1. reader \in Scoring
    BY <1>2, Commands DEF ReaderInv, ReputationPage, LagReputationPage
  <2>2. PICK k \in 0 .. Len(contributorIndices[reader.contributor]) :
          ScoreRead(k) /\ (~lagging => k = Len(contributorIndices[reader.contributor]))
    BY <1>2, <2>1, ScoreReads
  <2>3. reader' \in Scoring
    BY <2>1, <2>2, ScoreReadEffect
  <2>4. ReputationInv'
    BY <2>1, <2>2, ScoreReadStep DEF ReaderInv
  <2> QED
    BY <2>3, <2>4, KindsDiffer DEF ReaderInv, ReaderShape, ListInv, WalkInv
<1>3. CASE (~lagging /\ LineageHop) \/ (lagging /\ LagLineageHop)
  <2>1. reader \in Walking
    BY <1>3, Commands DEF ReaderInv, LineageHop, LagLineageHop
  <2>2. reader' \in Walking /\ WalkInv'
    BY <1>3, <2>1, HopStep, LagHopStep DEF ReaderInv
  <2> QED
    BY <2>2, KindsDiffer DEF ReaderInv, ReaderShape, ListInv, ReputationInv
<1>4. CASE ListEnds
  <2>1. reader \in Listing /\ reader.start >= reader.bound /\ UNCHANGED vars
    BY <1>4, Commands DEF ReaderInv, ListEnds
  <2>2. reader' = [reader EXCEPT !.pc = "done"]
    BY <1>4 DEF ListEnds
  <2>3. /\ reader' \in Listing /\ reader'.bound = reader.bound /\ reader'.start = reader.start
        /\ reader'.out = reader.out
    BY <2>1, <2>2 DEF Listing
  <2>4. ListInv'
    BY <2>1, <2>3 DEF ReaderInv, ListInv, Row, vars, registryVars, Listing
  <2> QED
    BY <2>3, <2>4, KindsDiffer DEF ReaderInv, ReaderShape, ReputationInv, WalkInv
<1> QED
  BY <1>1, <1>2, <1>3, <1>4

LEMMA EndpointTakesReads ==
  ASSUME lagging \in BOOLEAN, EndpointNext
  PROVE  /\ lagging' = lagging
         /\ \/ Next /\ reader' = reader
            \/ StartList
            \/ lagging /\ LagStartList
            \/ \E a \in Addr : StartReputation(a)
            \/ \E h \in ContentHash : StartLineage(h)
            \/ ~lagging /\ (ListPage \/ ReputationPage \/ LineageHop)
            \/ lagging /\ (LagListPage \/ LagReputationPage \/ LagLineageHop)
            \/ ListEnds
BY DEF EndpointNext, SyncedStep, LaggingStep, ReaderNext, LagNext, Read, LagRead

LEMMA ReaderStep == ExactInv /\ ReaderInv /\ [EndpointNext]_<<readerVars, lagging>> => ReaderInv'
<1> SUFFICES ASSUME ExactInv, ReaderInv, [EndpointNext]_<<readerVars, lagging>> PROVE ReaderInv'
  OBVIOUS
<1>1. lagging \in BOOLEAN
  BY DEF ReaderInv
<1>2. CASE [Next]_vars /\ reader' = reader /\ lagging' = lagging
  <2>1. Grown
    BY <1>2, LedgerGrows DEF ExactInv
  <2>2. ListInv' /\ ReputationInv' /\ WalkInv'
    BY <1>2, <2>1, ListKept, ReputationKept, WalkKept DEF ExactInv, ReaderInv
  <2> QED
    BY <1>2, <2>2 DEF ReaderInv, ReaderShape
<1>3. CASE EndpointNext
  BY <1>1, <1>2, <1>3, EndpointTakesReads, StartStep, PageStep
<1> QED
  BY <1>2, <1>3 DEF readerVars

\* The commands change nothing: the chain under them is the registry's.
LEMMA ReadersOfRegistry == EndpointSpec => Spec
<1>1. EndpointInit => Init
  BY DEF EndpointInit, ReaderInit
<1>2. [EndpointNext]_<<readerVars, lagging>> => [Next]_vars
  <2> SUFFICES ASSUME EndpointNext PROVE [Next]_vars
    BY DEF readerVars
  <2>1. CASE ReaderNext
    BY <2>1 DEF ReaderNext, Read, StartList, ListPage, ListEnds, StartReputation, ReputationPage,
                StartLineage, LineageHop
  <2>2. CASE LagNext
    BY <2>2 DEF LagNext, LagRead, LagStartList, LagListPage, ListEnds, StartReputation,
                LagReputationPage, StartLineage, LagLineageHop, LineageHop
  <2> QED
    BY <2>1, <2>2 DEF EndpointNext, SyncedStep, LaggingStep
<1> QED
  BY <1>1, <1>2, PTL DEF EndpointSpec, Spec

LEMMA ReaderInvariant == EndpointSpec => [](DatedInv /\ ReaderInv)
<1>1. EndpointInit => ReaderInv
  BY KindsDiffer DEF EndpointInit, ReaderInit, ReaderInv, ReaderShape, ListInv, ReputationInv, WalkInv
<1>2. DatedInv /\ ReaderInv /\ [EndpointNext]_<<readerVars, lagging>> => ReaderInv'
  BY ReaderStep DEF DatedInv
<1> QED
  BY <1>1, <1>2, ReadersOfRegistry, DatedInvariant, PTL DEF EndpointSpec

\* Through nodes that lag, a reputation is about the account's first records and a lineage is one
\* chain of the registry, whatever node answers each call.
THEOREM LaggingSound == EndpointSpec => []LaggingIsSound
<1>1. ReaderInv => LaggingIsSound
  <2> SUFFICES ASSUME ReaderInv PROVE LagReputationIsPrefix /\ LagLineageIsChain
    BY DEF LaggingIsSound
  <2>1. LagReputationIsPrefix
    BY Commands DEF ReaderInv, ReputationInv, LagReputationIsPrefix
  <2>2. LagLineageIsChain
    <3> SUFFICES ASSUME reader \in Walking PROVE LagLineageIsChain
      BY Commands DEF ReaderInv, LagLineageIsChain
    <3>1. WalkChain /\ (reader.pc = "reading" => WalkOpen) /\ (reader.pc = "done" => WalkClosed)
      BY DEF ReaderInv, WalkInv
    <3>2. reader.pc \in {"reading", "done"}
      BY DEF Walking
    <3> QED
      BY <3>1, <3>2 DEF WalkChain, WalkOpen, WalkClosed, LagLineageIsChain
  <2> QED
    BY <2>1, <2>2
<1> QED
  BY <1>1, ReaderInvariant, PTL

-----------------------------------------------------------------------------
\* Records in the order of their blocks, those of one block with one timestamp.
BlockOrdered(rows) ==
  \A i, j \in 1 .. Len(rows) :
    LET r == rows[i].record
        s == rows[j].record
    IN  /\ i <= j => r.blockNumber <= s.blockNumber
        /\ r.blockNumber = s.blockNumber => r.timestamp = s.timestamp

\* The rows with some property and those without make up all the rows.
LEMMA CountsSplit ==
  ASSUME NEW n \in Nat, NEW S, S \subseteq 1 .. n
  PROVE  Cardinality(S) + Cardinality((1 .. n) \ S) = n
<1> DEFINE T == (1 .. n) \ S
<1>1. 1 \in Int /\ n \in Int
  OBVIOUS
<1>2. IsFiniteSet(1 .. n) /\ Cardinality(1 .. n) = IF 1 > n THEN 0 ELSE n - 1 + 1
  BY <1>1, FS_Interval, Zenon
<1>3. IsFiniteSet(S) /\ IsFiniteSet(T)
  BY <1>2, FS_Subset
<1>4. S \cup T = 1 .. n /\ S \cap T = {}
  OBVIOUS
<1>5. Cardinality(S) \in Nat /\ Cardinality(T) \in Nat
  BY <1>3, FS_CardinalityType
<1>6. Cardinality(S \cup T) = Cardinality(S) + Cardinality(T) - Cardinality(S \cap T)
  BY <1>3, FS_Union, Zenon
<1>7. Cardinality(S \cap T) = 0
  BY <1>4, FS_EmptySet
<1>8. Cardinality(1 .. n) = n
  BY <1>2
<1>9. Cardinality(S) + Cardinality(T) = Cardinality(S \cup T)
  <2> HIDE DEF T
  <2> QED
    BY <1>5, <1>6, <1>7
<1> QED
  BY <1>4, <1>8, <1>9

\* The bounds a score reports, as the fold of computeScore has them after n records.
Point(r) == [blockNumber |-> r.blockNumber, timestamp |-> r.timestamp]
FirstAndLast(rows, n) == [earliest |-> Point(rows[1].record), latest |-> Point(rows[n].record)]

WidenedBounds(b, r) ==
  [earliest |-> IF r.blockNumber < b.earliest.blockNumber THEN Point(r) ELSE b.earliest,
   latest |-> IF r.blockNumber > b.latest.blockNumber THEN Point(r) ELSE b.latest]

LEMMA BoundsRound ==
  ASSUME NEW rows \in Seq(ListedRow), BlockOrdered(rows), NEW n \in 2 .. Len(rows)
  PROVE  WidenedBounds(FirstAndLast(rows, n - 1), rows[n].record) = FirstAndLast(rows, n)
<1> DEFINE first == rows[1].record
           prev  == rows[n - 1].record
           r     == rows[n].record
<1>1. 1 \in 1 .. Len(rows) /\ n - 1 \in 1 .. Len(rows) /\ n \in 1 .. Len(rows)
  OBVIOUS
<1>2. first \in Record /\ prev \in Record /\ r \in Record
  <2>1. \A i \in 1 .. Len(rows) : rows[i] \in ListedRow
    OBVIOUS
  <2>2. \A x \in ListedRow : x.record \in Record
    BY DEF ListedRow
  <2> QED
    BY <1>1, <2>1, <2>2
<1>3. /\ first.blockNumber <= r.blockNumber /\ prev.blockNumber <= r.blockNumber
      /\ prev.blockNumber = r.blockNumber => prev.timestamp = r.timestamp
  BY <1>1 DEF BlockOrdered
<1>4. first.blockNumber \in Nat /\ prev.blockNumber \in Nat /\ r.blockNumber \in Nat
  BY <1>2 DEF Record
<1> HIDE DEF first, prev, r
<1>5. WidenedBounds([earliest |-> Point(first), latest |-> Point(prev)], r)
        = [earliest |-> Point(first), latest |-> Point(r)]
  BY <1>3, <1>4 DEF WidenedBounds, Point
<1> QED
  BY <1>5 DEF FirstAndLast, first, prev, r

LEMMA ScoreBounds ==
  ASSUME NEW rows \in Seq(ListedRow), BlockOrdered(rows), rows # <<>>
  PROVE  computeScore(rows).bounds = <<FirstAndLast(rows, Len(rows))>>
<1> DEFINE N == Len(rows)
           Body(f) == [n \in 1 .. Len(rows) |->
                         LET r == rows[n].record
                         IN  IF n = 1 THEN [earliest |-> Point(r), latest |-> Point(r)]
                             ELSE LET b == f[n - 1]
                                  IN  [earliest |-> IF r.blockNumber < b.earliest.blockNumber THEN Point(r)
                                                    ELSE b.earliest,
                                       latest |-> IF r.blockNumber > b.latest.blockNumber THEN Point(r)
                                                  ELSE b.latest]]
           run == CHOOSE f : f = Body(f)
           f == [n \in 1 .. N |-> FirstAndLast(rows, n)]
<1>1. N \in Nat /\ N >= 1
  OBVIOUS
<1>2. \A g : \A n \in 1 .. N :
         Body(g)[n] = IF n = 1 THEN FirstAndLast(rows, 1) ELSE WidenedBounds(g[n - 1], rows[n].record)
  BY <1>1 DEF FirstAndLast, WidenedBounds
<1>3. f = Body(f)
  <2>1. \A n \in 1 .. N : Body(f)[n] = f[n]
    <3> SUFFICES ASSUME NEW n \in 1 .. N PROVE Body(f)[n] = f[n]
      OBVIOUS
    <3>1. CASE n = 1
      BY <1>1, <1>2, <3>1
    <3>2. CASE n # 1
      <4>1. n \in 2 .. N /\ n - 1 \in 1 .. N
        BY <3>2
      <4>2. f[n - 1] = FirstAndLast(rows, n - 1) /\ f[n] = FirstAndLast(rows, n)
        BY <4>1
      <4>3. WidenedBounds(FirstAndLast(rows, n - 1), rows[n].record) = FirstAndLast(rows, n)
        BY <4>1, BoundsRound
      <4>4. Body(f)[n] = WidenedBounds(f[n - 1], rows[n].record)
        BY <1>2, <3>2
      <4> HIDE DEF f, Body
      <4> QED
        BY <4>2, <4>3, <4>4
    <3> QED
      BY <3>1, <3>2
  <2>2. \E F1, F2 : f = [n \in 1 .. N |-> FirstAndLast(rows, n)]
    OBVIOUS
  <2>3. DOMAIN f = 1 .. N /\ DOMAIN Body(f) = 1 .. N /\ f = [n \in DOMAIN f |-> f[n]]
        /\ Body(f) = [n \in DOMAIN Body(f) |-> Body(f)[n]]
    OBVIOUS
  <2> HIDE DEF f, Body
  <2> QED
    BY <2>1, <2>3
<1>4. run = Body(run)
  BY <1>3, Zenon
<1>5. computeScore(rows).bounds = IF rows = <<>> THEN <<>> ELSE <<run[Len(rows)]>>
  BY Zenon DEF computeScore, Point
<1> DEFINE T == {n \in 0 .. N : n = 0 \/ run[n] = FirstAndLast(rows, n)}
<1>6. ASSUME NEW n \in 1 .. N, n - 1 \in T PROVE n \in T
  <2>1. run[n] = Body(run)[n]
    BY <1>4
  <2>2. run[n] = IF n = 1 THEN FirstAndLast(rows, 1) ELSE WidenedBounds(run[n - 1], rows[n].record)
    <3> HIDE DEF run, Body
    <3> QED
      BY <1>2, <2>1
  <2> HIDE DEF run, Body
  <2>3. CASE n = 1
    BY <2>2, <2>3
  <2>4. CASE n # 1
    <3>1. n \in 2 .. N /\ run[n - 1] = FirstAndLast(rows, n - 1)
      BY <1>6, <2>4
    <3> QED
      BY <2>2, <2>4, <3>1, BoundsRound
  <2> QED
    BY <2>3, <2>4
<1>7. N \in T
  <2>1. 0 \in T
    BY <1>1
  <2> HIDE DEF T, N
  <2>2. \A n \in 0 .. N : n \in T
    BY <1>1, <1>6, <2>1, IntervalInduction
  <2> QED
    BY <1>1, <2>2
<1> QED
  <2> HIDE DEF run
  <2> QED
    BY <1>1, <1>5, <1>7

LEMMA ScoreCounts ==
  ASSUME NEW rows \in Seq(ListedRow)
  PROVE  LET score == computeScore(rows)
         IN  /\ score.authorBound + score.anchorOnly = score.total
             /\ score.lineageRoots + score.revisions = score.total
<1> DEFINE N == Len(rows)
           bound == {i \in 1 .. N : rows[i].record.authorBound}
           roots == {i \in 1 .. N : rows[i].record.parent = ZeroHash}
<1>1. N \in Nat /\ DOMAIN rows = 1 .. N
  OBVIOUS
<1>2. /\ computeScore(rows).total = N
      /\ computeScore(rows).authorBound = Cardinality({i \in DOMAIN rows : rows[i].record.authorBound})
      /\ computeScore(rows).anchorOnly = Cardinality({i \in DOMAIN rows : ~rows[i].record.authorBound})
      /\ computeScore(rows).lineageRoots
           = Cardinality({i \in DOMAIN rows : rows[i].record.parent = ZeroHash})
      /\ computeScore(rows).revisions
           = Cardinality({i \in DOMAIN rows : rows[i].record.parent # ZeroHash})
  BY Zenon DEF computeScore
<1>3. /\ {i \in DOMAIN rows : ~rows[i].record.authorBound} = (1 .. N) \ bound
      /\ {i \in DOMAIN rows : rows[i].record.parent # ZeroHash} = (1 .. N) \ roots
  BY <1>1
<1>4. bound \subseteq 1 .. N /\ roots \subseteq 1 .. N
  OBVIOUS
<1>5. /\ Cardinality(bound) + Cardinality((1 .. N) \ bound) = N
      /\ Cardinality(roots) + Cardinality((1 .. N) \ roots) = N
  <2> HIDE DEF bound, roots, N
  <2> QED
    BY <1>1, <1>4, CountsSplit
<1>6. /\ {i \in DOMAIN rows : rows[i].record.authorBound} = bound
      /\ {i \in DOMAIN rows : rows[i].record.parent = ZeroHash} = roots
  BY <1>1
<1> QED
  <2> HIDE DEF bound, roots, N
  <2> QED
    BY <1>2, <1>3, <1>5, <1>6

\* The records of an account are in the order of their blocks.
LEMMA GatheredInOrder ==
  ASSUME DatedInv, ReputationInv, reader \in Scoring
  PROVE  BlockOrdered(reader.out)
<1> DEFINE n    == Len(reader.out)
           idxs == contributorIndices[reader.contributor]
           At(i) == records[hashByIndex[idxs[i]]]
<1>1. /\ reader.contributor \in Addr /\ n \in Nat /\ Len(idxs) \in Nat /\ n <= Len(idxs)
      /\ \A i \in 1 .. n : reader.out[i].record = At(i)
  BY DEF Scoring, ReputationInv, DatedInv, ExactInv, LedgerInv, TypeOK
<1>2. \A i \in 1 .. Len(idxs) : idxs[i] \in Indices
  BY <1>1 DEF DatedInv, ExactInv, ContributorIndexExact
<1>3. \A i, j \in 1 .. Len(idxs) : i < j => idxs[i] < idxs[j]
  BY <1>1 DEF DatedInv, ExactInv, ContributorIndexExact
<1>4. \A i, j \in 1 .. Len(idxs) : i <= j => idxs[i] <= idxs[j]
  <2>1. \A i \in 1 .. Len(idxs) : idxs[i] \in Nat
    BY <1>2 DEF Indices
  <2> HIDE DEF idxs
  <2>2. ASSUME NEW i \in 1 .. Len(idxs), NEW j \in 1 .. Len(idxs), i <= j PROVE idxs[i] <= idxs[j]
    <3>1. CASE i = j
      BY <2>1, <3>1
    <3>2. CASE i # j
      BY <1>3, <2>1, <2>2, <3>2
    <3> QED
      BY <3>1, <3>2
  <2> QED
    BY <2>2
<1>5. \A i, j \in 1 .. Len(idxs) :
        /\ i <= j => At(i).blockNumber <= At(j).blockNumber
        /\ At(i).blockNumber = At(j).blockNumber => At(i).timestamp = At(j).timestamp
  <2> SUFFICES ASSUME NEW i \in 1 .. Len(idxs), NEW j \in 1 .. Len(idxs)
               PROVE  /\ i <= j => At(i).blockNumber <= At(j).blockNumber
                      /\ At(i).blockNumber = At(j).blockNumber => At(i).timestamp = At(j).timestamp
    OBVIOUS
  <2>1. idxs[i] \in Indices /\ idxs[j] \in Indices /\ (i <= j => idxs[i] <= idxs[j])
    BY <1>2, <1>4
  <2> HIDE DEF idxs
  <2> QED
    BY <2>1 DEF DatedInv, ExactInv, ChainOrdered, SameBlockSameTime
<1> QED
  <2> HIDE DEF idxs, At
  <2>1. \A i \in 1 .. n : i \in 1 .. Len(idxs)
    BY <1>1
  <2> QED
    BY <1>1, <1>5, <2>1 DEF BlockOrdered

\* Through one node, what vh list, vh reputation and vh lineage gather is exact: a prefix of the
\* registry or of the account's records with a consistent score, and a path to a root or to the cap.
THEOREM SyncedExact == EndpointSpec => []SyncedIsExact
<1>1. DatedInv /\ ReaderInv => SyncedIsExact
  <2> SUFFICES ASSUME DatedInv, ReaderInv, ~lagging
               PROVE  ListIsPrefix /\ ReputationIsPrefix /\ ScoreConsistent /\ LineageIsPath
    BY DEF SyncedIsExact
  <2>1. ListIsPrefix
    BY Commands DEF ReaderInv, ListInv, ListIsPrefix
  <2>2. ReputationIsPrefix
    BY Commands DEF ReaderInv, ReputationInv, ReputationIsPrefix
  <2>3. ScoreConsistent
    <3> SUFFICES ASSUME reader \in Scoring, reader.out # <<>> PROVE ScoreConsistent
      BY Commands DEF ReaderInv, ScoreConsistent
    <3> DEFINE rows == reader.out
               score == computeScore(rows)
    <3>1. rows \in Seq(ListedRow) /\ BlockOrdered(rows)
      BY GatheredInOrder DEF Scoring, ReaderInv
    <3>2. score.bounds = <<FirstAndLast(rows, Len(rows))>>
      BY <3>1, ScoreBounds
    <3>3. /\ score.bounds[1].earliest = Point(rows[1].record)
          /\ score.bounds[1].latest = Point(rows[Len(rows)].record)
      <4> HIDE DEF score, rows
      <4> QED
        BY <3>2 DEF FirstAndLast
    <3>4. /\ score.authorBound + score.anchorOnly = score.total
          /\ score.lineageRoots + score.revisions = score.total
      BY <3>1, ScoreCounts
    <3> QED
      BY <3>3, <3>4 DEF ScoreConsistent, Point
  <2>4. LineageIsPath
    <3> SUFFICES ASSUME reader \in Walking, reader.pc = "done" PROVE LineageIsPath
      BY Commands DEF ReaderInv, LineageIsPath
    <3>1. WalkChain /\ WalkClosed
      BY DEF ReaderInv, WalkInv
    <3>2. Len(reader.out) \in Nat
      BY DEF Walking
    <3> QED
      BY <3>1, <3>2 DEF WalkChain, WalkClosed, LineageIsPath
  <2> QED
    BY <2>1, <2>2, <2>3, <2>4
<1> QED
  BY <1>1, ReaderInvariant, PTL
=============================================================================
