--------------------------- MODULE DiffGateProofs ---------------------------
(***************************************************************************)
(* Theorems about what goes around a release.  The differential gate, for  *)
(* every corpus, number of gates, shards, versions of the sources and      *)
(* faults: the cache replays only what a live run gives, and the shards'   *)
(* sum is the whole corpus' total.  The check of the served site, for      *)
(* every tree: its verdict is about what the server has.  The generators,  *)
(* for all revisions, edits, runs and kills: files that reproduce are      *)
(* those of their sources, and a disk that is not stuck is rebuilt.        *)
(***************************************************************************)
EXTENDS MCReleases, FiniteSetTheorems, InductionLemmas

-----------------------------------------------------------------------------
(***************************************************************************)
(* Sequences without repetition.                                           *)
(***************************************************************************)
Distinct(s) == \A i, k \in DOMAIN s : s[i] = s[k] => i = k

LEMMA AppendFacts ==
  ASSUME NEW S, NEW s \in Seq(S), NEW x \in S
  PROVE  /\ Append(s, x) \in Seq(S) /\ ToSet(Append(s, x)) = ToSet(s) \cup {x}
         /\ Distinct(s) /\ x \notin ToSet(s) => Distinct(Append(s, x))
<1> DEFINE t == Append(s, x)
<1>1. /\ t \in Seq(S) /\ Len(s) \in Nat /\ DOMAIN s = 1 .. Len(s) /\ DOMAIN t = 1 .. Len(s) + 1
      /\ t[Len(s) + 1] = x /\ \A i \in 1 .. Len(s) : t[i] = s[i]
  OBVIOUS
<1>2. ToSet(t) = ToSet(s) \cup {x}
  <2> HIDE DEF t
  <2> QED
    BY <1>1 DEF ToSet
<1>3. ASSUME Distinct(s), x \notin ToSet(s) PROVE Distinct(t)
  <2> HIDE DEF t
  <2> QED
    BY <1>1, <1>3 DEF Distinct, ToSet
<1> QED
  BY <1>1, <1>2, <1>3

LEMMA TailFacts ==
  ASSUME NEW S, NEW s \in Seq(S), s # <<>>, Distinct(s)
  PROVE  /\ Tail(s) \in Seq(S) /\ Distinct(Tail(s)) /\ s[1] \in S /\ s[1] \in ToSet(s)
         /\ ToSet(Tail(s)) = ToSet(s) \ {s[1]}
<1> DEFINE t == Tail(s)
<1>1. /\ t \in Seq(S) /\ Len(s) \in Nat /\ Len(s) >= 1 /\ DOMAIN s = 1 .. Len(s)
      /\ DOMAIN t = 1 .. Len(s) - 1 /\ \A i \in 1 .. Len(s) - 1 : t[i] = s[i + 1]
  OBVIOUS
<1>2. s[1] \in S /\ s[1] \in ToSet(s)
  BY <1>1 DEF ToSet
<1>3. Distinct(t)
  <2> HIDE DEF t
  <2> QED
    BY <1>1 DEF Distinct
<1>4. ToSet(t) = ToSet(s) \ {s[1]}
  <2> HIDE DEF t
  <2>1. \A i \in 1 .. Len(s) - 1 : t[i] \in ToSet(s) /\ t[i] # s[1]
    BY <1>1 DEF Distinct, ToSet
  <2>2. \A i \in 1 .. Len(s) : i # 1 => i - 1 \in 1 .. Len(s) - 1 /\ t[i - 1] = s[i]
    BY <1>1
  <2>3. \A y \in ToSet(s) : y # s[1] => y \in ToSet(t)
    <3> SUFFICES ASSUME NEW i \in 1 .. Len(s), s[i] # s[1] PROVE s[i] \in ToSet(t)
      BY <1>1 DEF ToSet
    <3> QED
      BY <1>1, <2>2 DEF ToSet
  <2>4. ToSet(t) = {t[i] : i \in 1 .. Len(s) - 1}
    BY <1>1 DEF ToSet
  <2>5. \A y \in ToSet(t) : y \in ToSet(s) /\ y # s[1]
    BY <2>1, <2>4
  <2> QED
    BY <2>3, <2>5
<1> QED
  BY <1>1, <1>2, <1>3, <1>4

\* What KeptAt keeps.
KeptOf(all, places, n) == {all[i] : i \in places \cap (1 .. n)}

KeptRight(kept, S, all, places, n) ==
  /\ kept \in Seq(S) /\ ToSet(kept) = KeptOf(all, places, n)
  /\ (\A i, k \in places \cap (1 .. n) : all[i] = all[k] => i = k) => Distinct(kept)

LEMMA KeptRound ==
  ASSUME NEW S, NEW all \in Seq(S), NEW places, NEW n \in 1 .. Len(all), NEW kept,
         KeptRight(kept, S, all, places, n - 1)
  PROVE  KeptRight(IF n \in places THEN Append(kept, all[n]) ELSE kept, S, all, places, n)
<1>1. n \in Nat /\ 1 .. n = 1 .. (n - 1) \cup {n} /\ n \notin 1 .. (n - 1) /\ all[n] \in S
  OBVIOUS
<1>2. CASE n \notin places
  <2>1. places \cap (1 .. n) = places \cap (1 .. (n - 1))
    BY <1>1, <1>2
  <2> QED
    BY <1>2, <2>1 DEF KeptRight, KeptOf
<1>3. CASE n \in places
  <2>1. places \cap (1 .. n) = (places \cap (1 .. (n - 1))) \cup {n}
    BY <1>1, <1>3
  <2>2. KeptOf(all, places, n) = KeptOf(all, places, n - 1) \cup {all[n]}
    BY <2>1 DEF KeptOf
  <2>3. ASSUME \A i, k \in places \cap (1 .. n) : all[i] = all[k] => i = k
        PROVE  all[n] \notin KeptOf(all, places, n - 1)
    BY <1>1, <1>3, <2>3 DEF KeptOf
  <2>4. /\ Append(kept, all[n]) \in Seq(S) /\ ToSet(Append(kept, all[n])) = ToSet(kept) \cup {all[n]}
        /\ Distinct(kept) /\ all[n] \notin ToSet(kept) => Distinct(Append(kept, all[n]))
    BY <1>1, AppendFacts DEF KeptRight
  <2> QED
    BY <1>3, <2>1, <2>2, <2>3, <2>4 DEF KeptRight
<1> QED
  BY <1>2, <1>3

LEMMA KeptFacts ==
  ASSUME NEW S, NEW all \in Seq(S), NEW places
  PROVE  KeptRight(KeptAt(all, places), S, all, places, Len(all))
<1> DEFINE N == Len(all)
           step == [sn \in Seq(S) \X (1 .. N) |->
                      IF sn[2] \in places THEN Append(sn[1], all[sn[2]]) ELSE sn[1]]
           Body(f) == [n \in 0..Len(all) |->
                         IF n = 0 THEN <<>>
                         ELSE IF n \in places THEN Append(f[n - 1], all[n]) ELSE f[n - 1]]
           kept == CHOOSE f : f = Body(f)
<1>1. N \in Nat /\ \A n \in 1 .. N : all[n] \in S
  OBVIOUS
<1>2. <<>> \in Seq(S) /\ step \in [Seq(S) \X (1 .. N) -> Seq(S)]
  BY <1>1
<1>3. PICK f : IsLoop(f, N, Seq(S), <<>>, step)
  <2> HIDE DEF step, N
  <2> QED
    BY <1>1, <1>2, LoopExists
<1>4. /\ f \in [0 .. N -> Seq(S)] /\ f[0] = <<>>
      /\ \A n \in 1 .. N : f[n] = IF n \in places THEN Append(f[n - 1], all[n]) ELSE f[n - 1]
  <2>1. f \in [0 .. N -> Seq(S)] /\ f[0] = <<>>
    BY <1>3 DEF IsLoop
  <2>2. ASSUME NEW n \in 1 .. N
        PROVE  f[n] = IF n \in places THEN Append(f[n - 1], all[n]) ELSE f[n - 1]
    <3> HIDE DEF N, step
    <3>1. f[n - 1] \in Seq(S) /\ <<f[n - 1], n>> \in Seq(S) \X (1 .. N)
      <4>1. n - 1 \in 0 .. N
        BY <1>1
      <4> QED
        BY <2>1, <4>1
    <3>2. f[n] = step[<<f[n - 1], n>>]
      BY <1>3 DEF IsLoop
    <3> QED
      BY <3>1, <3>2 DEF step
  <2> QED
    BY <2>1, <2>2
<1>5. f = Body(f)
  <2>1. \A n \in 0 .. N : Body(f)[n] = f[n]
    <3>1. Body(f)[0] = f[0]
      BY <1>1, <1>4
    <3>2. ASSUME NEW n \in 1 .. N PROVE Body(f)[n] = f[n]
      <4>1. n \in 0 .. Len(all) /\ n # 0
        BY <1>1
      <4>2. Body(f)[n] = IF n \in places THEN Append(f[n - 1], all[n]) ELSE f[n - 1]
        BY <4>1
      <4> QED
        BY <1>4, <4>2
    <3>3. \A n \in 0 .. N : n = 0 \/ n \in 1 .. N
      BY <1>1
    <3> HIDE DEF Body
    <3> QED
      BY <3>1, <3>2, <3>3
  <2>2. f = [n \in 0 .. N |-> f[n]] /\ Body(f) = [n \in 0 .. N |-> Body(f)[n]]
    BY <1>4
  <2> HIDE DEF Body
  <2> QED
    BY <2>1, <2>2
<1>6. kept = Body(kept)
  BY <1>5, Zenon
<1>7. KeptAt(all, places) = kept[N]
  BY Zenon DEF KeptAt
<1>8. /\ kept[0] = <<>>
      /\ \A n \in 1 .. N : kept[n] = IF n \in places THEN Append(kept[n - 1], all[n]) ELSE kept[n - 1]
  <2> DEFINE r == kept
  <2>1. r = Body(r)
    BY <1>6
  <2> HIDE DEF r
  <2>2. r[0] = <<>>
    BY <1>1, <2>1
  <2>3. ASSUME NEW n \in 1 .. N
        PROVE  r[n] = IF n \in places THEN Append(r[n - 1], all[n]) ELSE r[n - 1]
    <3>1. n \in 0 .. Len(all) /\ n # 0
      BY <1>1
    <3>2. Body(r)[n] = IF n \in places THEN Append(r[n - 1], all[n]) ELSE r[n - 1]
      BY <3>1
    <3> HIDE DEF Body
    <3> QED
      BY <2>1, <3>2
  <2> QED
    BY <2>2, <2>3 DEF r
<1> DEFINE T == {n \in 0 .. N : KeptRight(kept[n], S, all, places, n)}
<1> HIDE DEF kept, Body, step
<1>9. 0 \in T
  <2>1. <<>> \in Seq(S) /\ ToSet(<<>>) = {} /\ Distinct(<<>>) /\ KeptOf(all, places, 0) = {}
    BY DEF ToSet, Distinct, KeptOf
  <2>2. KeptRight(<<>>, S, all, places, 0)
    BY <2>1 DEF KeptRight
  <2> QED
    BY <1>1, <1>8, <2>2
<1>10. ASSUME NEW n \in 1 .. N, n - 1 \in T PROVE n \in T
  <2>1. KeptRight(kept[n - 1], S, all, places, n - 1)
    BY <1>10
  <2>2. KeptRight(kept[n], S, all, places, n)
    BY <1>8, <2>1, KeptRound
  <2> QED
    BY <2>2
<1>11. N \in T
  <2> HIDE DEF T, N
  <2>1. \A n \in 0 .. N : n \in T
    BY <1>1, <1>9, <1>10, IntervalInduction
  <2> QED
    BY <1>1, <2>1
<1> QED
  BY <1>7, <1>11

-----------------------------------------------------------------------------
(***************************************************************************)
(* The corpus of a leg has no entry twice, and the shards of a heavy leg   *)
(* partition it.                                                           *)
(***************************************************************************)
LEMMA CorpusFacts ==
  ASSUME NEW leg \in Legs
  PROVE  Corpus(leg) \in Seq(Entries) /\ Distinct(Corpus(leg))
<1> DEFINE all == Gathered[leg]
           places == {i \in DOMAIN all : \A k \in 1..(i - 1) : all[k].path # all[i].path}
<1>1. all \in Seq(Entries)
  BY GateCorpus
<1>2. KeptRight(Corpus(leg), Entries, all, places, Len(all))
  <2>1. KeptRight(KeptAt(all, places), Entries, all, places, Len(all))
    <3> HIDE DEF all, places
    <3> QED
      BY <1>1, KeptFacts
  <2> QED
    BY <2>1 DEF Corpus
<1>3. \A i, k \in places \cap (1 .. Len(all)) : all[i] = all[k] => i = k
  <2> SUFFICES ASSUME NEW i \in places, NEW k \in places, all[i] = all[k], i # k PROVE FALSE
    OBVIOUS
  <2>1. i \in 1 .. Len(all) /\ k \in 1 .. Len(all) /\ Len(all) \in Nat
    BY <1>1
  <2>2. i \in 1..(k - 1) \/ k \in 1..(i - 1)
    BY <2>1
  <2> QED
    BY <2>2
<1> QED
  BY <1>2, <1>3 DEF KeptRight

InJob(x, job) == job[2] = Whole \/ Digest[x.label] % ShardCount = job[2]

LEMMA JobFacts ==
  ASSUME NEW job \in Jobs
  PROVE  /\ JobCorpus(job) \in Seq(Entries) /\ Distinct(JobCorpus(job))
         /\ ToSet(JobCorpus(job)) = {x \in ToSet(Corpus(job[1])) : InJob(x, job)}
<1> DEFINE corpus == Corpus(job[1])
           places == {i \in DOMAIN corpus : Digest[corpus[i].label] % ShardCount = job[2]}
<1>1. job[1] \in Legs
  BY DEF Jobs, Legs
<1>2. corpus \in Seq(Entries) /\ Distinct(corpus)
  BY <1>1, CorpusFacts
<1>3. CASE job[2] = Whole
  BY <1>2, <1>3 DEF JobCorpus, MaybeShard, InJob
<1>4. CASE job[2] # Whole
  <2>1. JobCorpus(job) = KeptAt(corpus, places)
    BY <1>4 DEF JobCorpus, MaybeShard
  <2>2. KeptRight(JobCorpus(job), Entries, corpus, places, Len(corpus))
    <3>1. KeptRight(KeptAt(corpus, places), Entries, corpus, places, Len(corpus))
      <4> HIDE DEF corpus, places
      <4> QED
        BY <1>2, KeptFacts
    <3> QED
      BY <2>1, <3>1
  <2>3. DOMAIN corpus = 1 .. Len(corpus) /\ places \cap (1 .. Len(corpus)) = places
    BY <1>2
  <2>4. \A i, k \in places : corpus[i] = corpus[k] => i = k
    BY <1>2 DEF Distinct
  <2>5. {corpus[i] : i \in places} = {x \in ToSet(corpus) : InJob(x, job)}
    BY <1>4 DEF ToSet, InJob
  <2> HIDE DEF corpus, places
  <2> QED
    BY <2>2, <2>3, <2>4, <2>5 DEF KeptRight, KeptOf, corpus
<1> QED
  BY <1>3, <1>4
-----------------------------------------------------------------------------
(***************************************************************************)
(* The inductive invariant.  Every entry anywhere is true of its key; a    *)
(* subprocess that runs has imported the tree as it is, and its tally is   *)
(* of the entries it is done with.                                         *)
(***************************************************************************)
Keys == ({"ours"} \X (1..MaxVersion) \X Invoices) \cup ({"official"} \X {0} \X Invoices)
Verdicts == {{}} \cup UNION {Verdict(key) : key \in Keys}
TrueEntries == {e \in Keys \X Verdicts : e[2] \in Verdict(e[1])}
Names == {CacheFile} \cup (Gates \X Jobs)

Subprocess ==
  [pc : {"queued", "official", "ours", "exited", "dead"}, ver : 0..MaxVersion, salt : 0..MaxVersion,
   cache : SUBSET TrueEntries, loaded : BOOLEAN, delta : SUBSET TrueEntries, todo : Seq(Entries),
   off : Verdicts, div : Nat, graded : SUBSET Entries]

Parent ==
  [pc : {"idle", "grading", "merging", "writing", "replacing", "unlinking", "summing", "finished",
         "killed"},
   listed : SUBSET Names, merged : SUBSET TrueEntries, writes : {"none", "tmp", "cache"},
   divergences : Nat, failed : BOOLEAN]

DiskOk(files) ==
  /\ files = [f \in DOMAIN files |-> files[f]] /\ DOMAIN files \subseteq Names
  /\ \A f \in DOMAIN files : files[f] \subseteq TrueEntries

GateTypes ==
  /\ tree \in 1..MaxVersion /\ faults \in Nat
  /\ worker \in [Gates -> [Jobs -> Subprocess]] /\ gate \in [Gates -> Parent]
  /\ DiskOk(disk)
  /\ tmp \in Seq(SUBSET TrueEntries) /\ Len(tmp) <= 1

\* What a subprocess is done with, and what both sides had a verdict on.
Done(w, j) == ToSet(JobCorpus(j)) \ ToSet(w.todo)
Gradable(version, x) == Official[Bytes[x.path]] # {} /\ Ours[<<version, Bytes[x.path]>>] # {}

Tally(w, j) ==
  /\ w.div = Cardinality(Disputes(w.ver, Done(w, j))) /\ IsFiniteSet(Disputes(w.ver, Done(w, j)))
  /\ w.graded = {x \in Done(w, j) : Gradable(w.ver, x)}

WorkerOk(w, j, now) ==
  /\ w.pc = "queued" => w = Fresh(j)
  /\ w.pc # "queued" => w.ver # 0 /\ Tally(w, j)
  /\ w.pc \in {"official", "ours"} => w.ver = now
  /\ w.salt \in {0, w.ver}
  /\ w.pc = "ours" => w.todo # <<>> /\ w.off \in Official[Bytes[w.todo[1].path]]
  /\ w.pc = "exited" => w.todo = <<>>
  /\ Distinct(w.todo) /\ ToSet(w.todo) \subseteq ToSet(JobCorpus(j))

WorkersInv == \A g \in Gates, j \in Jobs : WorkerOk(worker[g][j], j, tree)

Versions(g) == {worker[g][j].ver : j \in Jobs} \ {0}

ParentsInv ==
  \A g \in Gates :
    /\ gate[g].pc = "idle" => \A j \in Jobs : worker[g][j].pc = "queued"
    /\ gate[g].pc \in {"merging", "writing", "replacing", "unlinking", "summing", "finished"}
         => \A j \in Jobs : Settled(worker[g][j])
    /\ Active(g) => Versions(g) \subseteq {tree}
    /\ \A v1, v2 \in Versions(g) : v1 = v2
    /\ gate[g].pc = "finished" =>
         /\ gate[g].divergences = Summed(g)
         /\ gate[g].failed <=> \E j \in Jobs : worker[g][j].pc = "dead" \/ worker[g][j].div # 0

GateInv == GateTypes /\ WorkersInv /\ ParentsInv

\* One gate at a time: what nobody else disturbs.
OneGate ==
  /\ \A g, o \in Gates : ~Quiet(g) /\ ~Quiet(o) => g = o
  /\ \A g \in Gates : gate[g].writes # "none" <=> gate[g].pc = "writing"
  /\ \A g \in Gates : gate[g].writes # "cache"
  /\ \A g \in Gates, j \in Jobs : <<g, j>> \in DOMAIN disk => worker[g][j].pc = "exited"
  /\ \A g \in Gates : gate[g].pc = "merging" => DOMAIN disk \subseteq gate[g].listed
  /\ \A g \in Gates : gate[g].pc \in {"writing", "replacing"} => gate[g].merged = LoadDiskCache
  /\ \A g \in Gates : gate[g].pc = "replacing" => tmp = <<gate[g].merged>>
  /\ \A g \in Gates : gate[g].pc = "unlinking" =>
       CacheFile \in DOMAIN disk /\ LoadDiskCache \subseteq disk[CacheFile]
-----------------------------------------------------------------------------
(***************************************************************************)
(* Sums of cardinalities.                                                  *)
(***************************************************************************)
\* The sets D[x] of all x in s.
Joined(D, s) == UNION {D[x] : x \in s}

Apart(D, S) ==
  /\ \A x \in S : IsFiniteSet(D[x])
  /\ \A x, y \in S : x # y => D[x] \cap D[y] = {}

\* A set more.
LEMMA JoinedGrows ==
  ASSUME NEW S, IsFiniteSet(S), NEW D, Apart(D, S), NEW s \in SUBSET S, NEW x \in s
  PROVE  /\ IsFiniteSet(Joined(D, s))
         /\ Cardinality(Joined(D, s)) = Cardinality(D[x]) + Cardinality(Joined(D, s \ {x}))
<1>1. Joined(D, s) = D[x] \cup Joined(D, s \ {x}) /\ D[x] \cap Joined(D, s \ {x}) = {}
  BY DEF Joined, Apart
<1>2. IsFiniteSet(Joined(D, s \ {x}))
  <2> DEFINE t == s \ {x}
             T == {D[y] : y \in t}
             f == [y \in t |-> D[y]]
  <2>1. IsFiniteSet(t)
    BY FS_Subset
  <2>2. f \in Surjection(t, T)
    BY DEF Surjection
  <2>3. IsFiniteSet(T)
    <3> HIDE DEF f, T, t
    <3> QED
      BY <2>1, <2>2, FS_Surjection
  <2>4. \A d \in T : IsFiniteSet(d)
    BY DEF Apart
  <2>5. IsFiniteSet(UNION T)
    <3> HIDE DEF T
    <3> QED
      BY <2>3, <2>4, FS_UNION
  <2> QED
    BY <2>5 DEF Joined
<1>3. IsFiniteSet(D[x])
  BY DEF Apart
<1> HIDE DEF Joined
<1> QED
  BY <1>1, <1>2, <1>3, DisjointUnion

\* The sum of the cardinalities of sets that are apart is that of their union.
LEMMA SumOfCardinalities ==
  ASSUME NEW S, IsFiniteSet(S), NEW D, Apart(D, S), NEW fun, DOMAIN fun = S,
         \A x \in S : fun[x] = Cardinality(D[x])
  PROVE  IsFiniteSet(Joined(D, S)) /\ SumFunction(fun) = Cardinality(Joined(D, S))
<1> DEFINE size(s) == Cardinality(Joined(D, s))
           Body(f) == [s \in SUBSET S |->
                         IF s = {} THEN 0
                         ELSE fun[CHOOSE x \in s : TRUE] + f[s \ {CHOOSE x \in s : TRUE}]]
           g == [s \in SUBSET S |-> size(s)]
           iter == CHOOSE f : f = Body(f)
<1>1. size({}) = 0 /\ IsFiniteSet(Joined(D, {}))
  <2>1. Joined(D, {}) = {}
    BY DEF Joined
  <2> QED
    BY <2>1, FS_EmptySet
<1>2. \A s \in SUBSET S : s # {} =>
         size(s) = fun[CHOOSE x \in s : TRUE] + size(s \ {CHOOSE x \in s : TRUE})
  <2> SUFFICES ASSUME NEW s \in SUBSET S, s # {}
               PROVE  size(s) = fun[CHOOSE x \in s : TRUE] + size(s \ {CHOOSE x \in s : TRUE})
    OBVIOUS
  <2>1. PICK x \in s : x = CHOOSE y \in s : TRUE
    OBVIOUS
  <2>2. fun[x] = Cardinality(D[x])
    OBVIOUS
  <2>3. size(s) = fun[x] + size(s \ {x})
    BY <2>2, JoinedGrows
  <2> HIDE DEF size
  <2> QED
    BY <2>1, <2>3
<1>3. g = Body(g)
  <2> HIDE DEF size
  <2>1. \A s \in SUBSET S : g[s] = Body(g)[s]
    <3> SUFFICES ASSUME NEW s \in SUBSET S PROVE g[s] = Body(g)[s]
      OBVIOUS
    <3>1. s \ {CHOOSE x \in s : TRUE} \in SUBSET S
      OBVIOUS
    <3> QED
      BY <1>1, <1>2, <3>1
  <2>2. g = [s \in SUBSET S |-> g[s]] /\ Body(g) = [s \in SUBSET S |-> Body(g)[s]]
    OBVIOUS
  <2> HIDE DEF g, Body
  <2> QED
    BY <2>1, <2>2
<1>4. iter = Body(iter)
  BY <1>3, Zenon
<1>5. SumFunction(fun) = iter[S]
  BY Zenon DEF SumFunction, SumFunctionOnSet, FoldFunctionOnSet, MapThenFoldSet
<1> HIDE DEF iter
<1>6. iter[{}] = 0
  BY <1>4
<1>7. \A s \in SUBSET S : s # {} =>
         iter[s] = fun[CHOOSE x \in s : TRUE] + iter[s \ {CHOOSE x \in s : TRUE}]
  <2> SUFFICES ASSUME NEW s \in SUBSET S, s # {}
               PROVE  iter[s] = fun[CHOOSE x \in s : TRUE] + iter[s \ {CHOOSE x \in s : TRUE}]
    OBVIOUS
  <2>1. Body(iter)[s] = fun[CHOOSE x \in s : TRUE] + iter[s \ {CHOOSE x \in s : TRUE}]
    OBVIOUS
  <2> HIDE DEF Body
  <2> QED
    BY <1>4, <2>1
<1> HIDE DEF Body, g
<1> DEFINE T == {n \in Nat : \A s \in SUBSET S : Cardinality(s) = n => iter[s] = size(s)}
<1>8. 0 \in T
  <2>1. \A s \in SUBSET S : Cardinality(s) = 0 => s = {}
    BY FS_Subset, FS_EmptySet
  <2> HIDE DEF size
  <2> QED
    BY <1>1, <1>6, <2>1
<1>9. ASSUME NEW n \in Nat, n \in T PROVE n + 1 \in T
  <2> SUFFICES ASSUME NEW s \in SUBSET S, Cardinality(s) = n + 1 PROVE iter[s] = size(s)
    OBVIOUS
  <2>1. IsFiniteSet(s) /\ s # {}
    BY FS_Subset, FS_EmptySet
  <2>2. PICK x \in s : x = CHOOSE y \in s : TRUE
    BY <2>1
  <2>3. Cardinality(s \ {x}) = n
    <3>1. Cardinality(s \ {x}) = Cardinality(s) - 1
      BY <2>1, FS_RemoveElement
    <3> QED
      BY <3>1
  <2>4. iter[s \ {x}] = size(s \ {x})
    <3>1. s \ {x} \in SUBSET S
      OBVIOUS
    <3> HIDE DEF size
    <3> QED
      BY <1>9, <2>3, <3>1
  <2> HIDE DEF size, T
  <2>5. iter[s] = fun[x] + iter[s \ {x}] /\ size(s) = fun[x] + size(s \ {x})
    BY <1>2, <1>7, <2>1, <2>2
  <2> QED
    BY <2>4, <2>5
<1>10. iter[S] = size(S)
  <2>1. \A n \in Nat : n \in T
    <3> HIDE DEF T
    <3> QED
      BY <1>8, <1>9, NatInductionOn
  <2>2. Cardinality(S) \in Nat /\ S \in SUBSET S
    BY FS_CardinalityType
  <2> HIDE DEF size
  <2> QED
    BY <2>1, <2>2
<1>11. IsFiniteSet(Joined(D, S))
  <2>1. CASE S = {}
    BY <1>1, <2>1
  <2>2. CASE S # {}
    BY <2>2, JoinedGrows
  <2> QED
    BY <2>1, <2>2
<1> QED
  BY <1>5, <1>10, <1>11

-----------------------------------------------------------------------------
(***************************************************************************)
(* Verdicts and the rules they differ on.                                  *)
(***************************************************************************)
LEMMA TheVerdict ==
  ASSUME NEW outcome, OneVerdict(outcome), outcome # {}
  PROVE  UNION outcome \in outcome /\ \A r \in outcome : r = UNION outcome
<1>1. PICK s \in outcome : TRUE
  OBVIOUS
<1>2. outcome = {s}
  BY <1>1 DEF OneVerdict
<1>3. UNION {s} = s
  OBVIOUS
<1> QED
  BY <1>2, <1>3

\* Keys and the verdicts behind them.
OutcomesOf(inv, version) ==
  /\ OfficialKey(inv) \in Keys /\ Verdict(OfficialKey(inv)) = Official[inv]
  /\ OurKey(version, inv) \in Keys /\ Verdict(OurKey(version, inv)) = Ours[<<version, inv>>]
  /\ OneVerdict(Official[inv]) /\ OneVerdict(Ours[<<version, inv>>])
  /\ Official[inv] \subseteq Verdicts /\ Ours[<<version, inv>>] \subseteq Verdicts

LEMMA VerdictFacts == \A inv \in Invoices, version \in 1..MaxVersion : OutcomesOf(inv, version)
<1> SUFFICES ASSUME NEW inv \in Invoices, NEW version \in 1..MaxVersion PROVE OutcomesOf(inv, version)
  OBVIOUS
<1>1. OfficialKey(inv) \in Keys /\ OurKey(version, inv) \in Keys
  BY DEF OfficialKey, OurKey, Keys
<1>2. Verdict(OfficialKey(inv)) = Official[inv] /\ Verdict(OurKey(version, inv)) = Ours[<<version, inv>>]
  BY DEF OfficialKey, OurKey, Verdict
<1>3. \A key \in Keys : Verdict(key) \subseteq Verdicts
  BY DEF Verdicts
<1> QED
  BY <1>1, <1>2, <1>3, GateCorpus DEF OutcomesOf

LEMMA DisputedFacts ==
  ASSUME NEW version \in 1..MaxVersion, NEW x \in Entries
  PROVE  /\ IsFiniteSet(Disputed(version, x))
         /\ ~Gradable(version, x) => Disputed(version, x) = {}
         /\ \A off \in Official[Bytes[x.path]], ours \in Ours[<<version, Bytes[x.path]>>] :
              Divergent(off, ours) = Cardinality(Disputed(version, x))
<1> DEFINE inv == Bytes[x.path]
           Off == Official[inv]
           Our == Ours[<<version, inv>>]
<1>1. inv \in Invoices
  BY GateCorpus DEF Entries
<1>2. OneVerdict(Off) /\ OneVerdict(Our)
  BY <1>1, GateCorpus
<1>3. IsFiniteSet((UNION Off) \cup (UNION Our))
  <2>1. IsFiniteSet(UNION Off) /\ IsFiniteSet(UNION Our)
    BY <1>2 DEF OneVerdict
  <2> QED
    BY <2>1, FS_Union
<1>4. Disputed(version, x) \subseteq (UNION Off) \cup (UNION Our)
  <2>1. UNION (Off \cup Our) \subseteq (UNION Off) \cup (UNION Our)
    OBVIOUS
  <2>2. Disputed(version, x) \subseteq UNION (Off \cup Our)
    BY DEF Disputed
  <2> QED
    BY <2>1, <2>2
<1>5. IsFiniteSet(Disputed(version, x))
  BY <1>3, <1>4, FS_Subset
<1>6. ~Gradable(version, x) => Disputed(version, x) = {}
  BY DEF Gradable, Disputed
<1>7. ASSUME NEW off \in Off, NEW ours \in Our PROVE Divergent(off, ours) = Cardinality(Disputed(version, x))
  <2>1. off = UNION Off /\ ours = UNION Our
    BY <1>2, <1>7, TheVerdict
  <2>2. Disputed(version, x) = {r \in UNION (Off \cup Our) : (r \in off) # (r \in ours)}
    BY <2>1 DEF Disputed
  <2>3. UNION (Off \cup Our) = off \cup ours
    BY <2>1
  <2>4. {r \in off \cup ours : (r \in off) # (r \in ours)} = (off \ ours) \cup (ours \ off)
    <3>1. \A r : (r \in off) # (r \in ours) <=> (r \in off /\ r \notin ours) \/ (r \in ours /\ r \notin off)
      OBVIOUS
    <3> QED
      BY <3>1
  <2> QED
    BY <2>2, <2>3, <2>4 DEF Divergent
<1> QED
  BY <1>5, <1>6, <1>7

\* An entry more.
LEMMA DisputesGrow ==
  ASSUME NEW version \in 1..MaxVersion, NEW X, X \subseteq Entries, NEW x \in Entries, x \notin X,
         IsFiniteSet(Disputes(version, X))
  PROVE  /\ IsFiniteSet(Disputes(version, X \cup {x}))
         /\ Cardinality(Disputes(version, X \cup {x}))
              = Cardinality(Disputes(version, X)) + Cardinality(Disputed(version, x))
<1> DEFINE D == Disputed(version, x)
           P == {<<x, r>> : r \in D}
           f == [r \in D |-> <<x, r>>]
<1>1. IsFiniteSet(D)
  BY DisputedFacts
<1>2. IsFiniteSet(P) /\ Cardinality(P) = Cardinality(D)
  <2>1. \A i, k \in D : f[i] = f[k] => i = k
    OBVIOUS
  <2>2. P = {f[r] : r \in D}
    OBVIOUS
  <2> HIDE DEF D, f
  <2>3. IsFiniteSet({f[r] : r \in D}) /\ Cardinality({f[r] : r \in D}) = Cardinality(D)
    BY <1>1, <2>1, InjectiveImage
  <2> QED
    BY <2>2, <2>3
<1>3. Disputes(version, X \cup {x}) = Disputes(version, X) \cup P
  BY DEF Disputes
<1>4. Disputes(version, X) \cap P = {}
  BY DEF Disputes
<1> QED
  <2> HIDE DEF P, D
  <2> QED
    BY <1>2, <1>3, <1>4, DisjointUnion DEF D

\* A subprocess is done with the entry at the head of its list.
LEMMA TallyStep ==
  ASSUME NEW j \in Jobs, NEW w, NEW w2, w.todo \in Seq(Entries), w.todo # <<>>, Distinct(w.todo),
         ToSet(w.todo) \subseteq ToSet(JobCorpus(j)), Tally(w, j), w.ver \in 1..MaxVersion,
         w2.todo = Tail(w.todo), w2.ver = w.ver,
         w2.div = w.div + Cardinality(Disputed(w.ver, w.todo[1])),
         w2.graded = w.graded \cup (IF Gradable(w.ver, w.todo[1]) THEN {w.todo[1]} ELSE {})
  PROVE  /\ w2.todo \in Seq(Entries) /\ Distinct(w2.todo)
         /\ ToSet(w2.todo) \subseteq ToSet(JobCorpus(j)) /\ Tally(w2, j)
<1> DEFINE x == w.todo[1]
<1>1. /\ w2.todo \in Seq(Entries) /\ Distinct(w2.todo) /\ x \in Entries /\ x \in ToSet(w.todo)
      /\ ToSet(w2.todo) = ToSet(w.todo) \ {x}
  BY TailFacts
<1>2. Done(w2, j) = Done(w, j) \cup {x} /\ x \notin Done(w, j)
  BY <1>1 DEF Done
<1>3. Done(w, j) \subseteq Entries
  BY JobFacts DEF Done, ToSet
<1> HIDE DEF x
<1>4. /\ IsFiniteSet(Disputes(w.ver, Done(w, j) \cup {x}))
      /\ Cardinality(Disputes(w.ver, Done(w, j) \cup {x}))
           = Cardinality(Disputes(w.ver, Done(w, j))) + Cardinality(Disputed(w.ver, x))
  BY <1>1, <1>2, <1>3, DisputesGrow DEF Tally
<1>5. w2.graded = {y \in Done(w2, j) : Gradable(w2.ver, y)}
  BY <1>2 DEF Tally, x
<1> QED
  BY <1>1, <1>2, <1>4, <1>5 DEF Tally, x

-----------------------------------------------------------------------------
(***************************************************************************)
(* The steps of a subprocess.                                              *)
(***************************************************************************)
WorkerMoves(g, j, w2) ==
  /\ worker' = [worker EXCEPT ![g][j] = w2]
  /\ w2 \in Subprocess /\ WorkerOk(w2, j, tree) /\ w2.pc # "queued" /\ w2.ver = tree
  /\ worker[g][j].pc \in {"official", "ours"} \/ (worker[g][j].pc = "queued" /\ gate[g].pc = "grading")

LEMMA StartMoves ==
  ASSUME GateTypes, NEW g \in Gates, NEW j \in Jobs, WorkerOk(worker[g][j], j, tree), StartWorker(g, j)
  PROVE  \E w2 : WorkerMoves(g, j, w2)
<1> DEFINE w  == worker[g][j]
           w2 == [w EXCEPT !.pc = "official", !.ver = tree]
<1>1. w \in Subprocess /\ tree \in 1..MaxVersion /\ tree \in 0..MaxVersion
  BY GateConstants DEF GateTypes
<1>2. w = Fresh(j)
  BY DEF WorkerOk, StartWorker
<1>3. /\ w2 \in Subprocess /\ w2.pc = "official" /\ w2.ver = tree /\ w2.salt = 0 /\ w2.todo = JobCorpus(j)
      /\ w2.div = 0 /\ w2.graded = {}
  <2>1. w.salt = 0 /\ w.todo = JobCorpus(j) /\ w.div = 0 /\ w.graded = {}
    BY <1>2 DEF Fresh
  <2> QED
    BY <1>1, <2>1 DEF Subprocess
<1> HIDE DEF w2
<1>4. Done(w2, j) = {}
  BY <1>3 DEF Done
<1>5. Disputes(w2.ver, {}) = {} /\ IsFiniteSet({}) /\ Cardinality({}) = 0
  BY FS_EmptySet DEF Disputes
<1>6. Tally(w2, j)
  BY <1>3, <1>4, <1>5 DEF Tally
<1>7. Distinct(w2.todo) /\ tree # 0
  BY <1>1, <1>3, JobFacts
<1>8. WorkerOk(w2, j, tree)
  BY <1>3, <1>6, <1>7 DEF WorkerOk
<1>9. worker' = [worker EXCEPT ![g][j] = w2]
  BY DEF StartWorker, w2
<1> QED
  BY <1>3, <1>8, <1>9 DEF WorkerMoves, StartWorker

\* What a subprocess that runs has at hand.
LEMMA AtWork ==
  ASSUME GateTypes, NEW g \in Gates, NEW j \in Jobs, WorkerOk(worker[g][j], j, tree),
         worker[g][j].pc \in {"official", "ours"}
  PROVE  LET w == worker[g][j]
         IN  /\ w \in Subprocess /\ w.ver = tree /\ tree \in 1..MaxVersion /\ OurSalt(w) = tree
             /\ Loaded(w) \subseteq TrueEntries
             /\ w.todo # <<>> => w.todo[1] \in Entries /\ Bytes[w.todo[1].path] \in Invoices
<1> DEFINE w == worker[g][j]
<1>1. w \in Subprocess /\ w.ver = tree /\ tree \in 1..MaxVersion
  BY DEF GateTypes, WorkerOk
<1>2. OurSalt(w) = tree
  BY <1>1 DEF OurSalt, WorkerOk
<1>3. LoadDiskCache \subseteq TrueEntries
  BY DEF LoadDiskCache, GateTypes, DiskOk
<1>4. Loaded(w) \subseteq TrueEntries
  BY <1>1, <1>3 DEF Loaded, Subprocess
<1>5. w.todo \in Seq(Entries)
  BY <1>1 DEF Subprocess
<1>6. w.todo # <<>> => w.todo[1] \in Entries
  BY <1>5
<1> QED
  BY <1>1, <1>2, <1>4, <1>6, GateCorpus DEF Entries

LEMMA HitsAreTrue ==
  ASSUME NEW entries, entries \subseteq TrueEntries, NEW key, Hits(entries, key) # {}
  PROVE  (CHOOSE e \in Hits(entries, key) : TRUE)[2] \in Verdict(key) \cap Verdicts
<1>1. PICK e \in Hits(entries, key) : e = CHOOSE d \in Hits(entries, key) : TRUE
  OBVIOUS
<1> QED
  BY <1>1 DEF Hits, TrueEntries

LEMMA NewEntryIsTrue ==
  ASSUME NEW key \in Keys, OneVerdict(Verdict(key)), Verdict(key) # {}
  PROVE  <<key, UNION Verdict(key)>> \in TrueEntries
BY TheVerdict DEF TrueEntries, Verdicts

LEMMA OfficialMoves ==
  ASSUME GateTypes, NEW g \in Gates, NEW j \in Jobs, WorkerOk(worker[g][j], j, tree), OfficialStep(g, j)
  PROVE  \E w2 : WorkerMoves(g, j, w2)
<1> DEFINE w    == worker[g][j]
           x    == w.todo[1]
           inv  == Bytes[x.path]
           key  == OfficialKey(inv)
           hits == Hits(Loaded(w), key)
           read == [w EXCEPT !.loaded = TRUE, !.cache = Loaded(w)]
           hit  == (CHOOSE e \in hits : TRUE)[2]
<1>1. w.pc = "official" /\ w.todo # <<>>
  BY DEF OfficialStep
<1>2. /\ w \in Subprocess /\ w.ver = tree /\ tree \in 1..MaxVersion /\ Loaded(w) \subseteq TrueEntries
      /\ x \in Entries /\ inv \in Invoices
  BY <1>1, AtWork
<1>3. OutcomesOf(inv, tree)
  BY <1>2, VerdictFacts
<1>4. read \in Subprocess /\ read = [w EXCEPT !.loaded = TRUE, !.cache = Loaded(w)]
  BY <1>2 DEF Subprocess
<1>5. /\ read.ver = w.ver /\ read.salt = w.salt /\ read.todo = w.todo /\ read.div = w.div
      /\ read.graded = w.graded /\ read.delta = w.delta /\ read.pc = w.pc
  BY <1>2 DEF Subprocess
<1>6. /\ hits # {} => worker' = [worker EXCEPT ![g][j] = [read EXCEPT !.pc = "ours", !.off = hit]]
      /\ hits = {} /\ Official[inv] = {} => worker' = [worker EXCEPT ![g][j] = [read EXCEPT !.todo = Tail(@)]]
      /\ hits = {} /\ Official[inv] # {} =>
           worker' = [worker EXCEPT ![g][j] =
             [read EXCEPT !.pc = "ours", !.off = UNION Official[inv],
                          !.delta = @ \cup {<<key, UNION Official[inv]>>}]]
  BY DEF OfficialStep
<1>7. WorkerOk(w, j, tree) /\ w.todo \in Seq(Entries)
  BY <1>2 DEF Subprocess
<1> HIDE DEF read, hits, hit, inv, w, key, x
<1>8. CASE hits = {} /\ Official[inv] = {}
  <2> DEFINE v == [read EXCEPT !.todo = Tail(@)]
  <2>1. /\ v.pc = w.pc /\ v.ver = w.ver /\ v.todo = Tail(w.todo) /\ v.div = w.div /\ v.graded = w.graded
        /\ v.salt = w.salt /\ (Tail(w.todo) \in Seq(Entries) => v \in Subprocess)
    BY <1>4, <1>5 DEF Subprocess
  <2> HIDE DEF v
  <2>2. ~Gradable(w.ver, x) /\ Disputed(w.ver, x) = {}
    BY <1>2, <1>8, DisputedFacts DEF Gradable, inv
  <2>3. w.div = w.div + Cardinality(Disputed(w.ver, x))
    BY <1>2, <2>2, FS_EmptySet DEF Subprocess
  <2>4. w.graded = w.graded \cup (IF Gradable(w.ver, x) THEN {x} ELSE {})
    BY <2>2
  <2>5. w.ver \in 1..MaxVersion /\ Distinct(w.todo) /\ ToSet(w.todo) \subseteq ToSet(JobCorpus(j)) /\ Tally(w, j)
    BY <1>1, <1>2, <1>7 DEF WorkerOk
  <2>6. /\ v.todo \in Seq(Entries) /\ Distinct(v.todo)
        /\ ToSet(v.todo) \subseteq ToSet(JobCorpus(j)) /\ Tally(v, j)
    BY <1>1, <1>7, <2>1, <2>3, <2>4, <2>5, TallyStep DEF x
  <2>7. WorkerOk(v, j, tree)
    BY <1>1, <1>2, <1>7, <2>1, <2>6 DEF WorkerOk
  <2>8. worker' = [worker EXCEPT ![g][j] = v]
    BY <1>6, <1>8 DEF v
  <2> QED
    BY <1>1, <1>2, <2>1, <2>6, <2>7, <2>8 DEF WorkerMoves, w
<1>9. ASSUME NEW v \in Subprocess, v.pc = "ours", v.ver = w.ver, v.salt = w.salt, v.todo = w.todo,
             v.div = w.div, v.graded = w.graded, v.off \in Official[inv],
             worker' = [worker EXCEPT ![g][j] = v]
      PROVE  \E w2 : WorkerMoves(g, j, w2)
  <2>1. Tally(v, j)
    BY <1>1, <1>7, <1>9 DEF WorkerOk, Tally, Done
  <2>2. WorkerOk(v, j, tree)
    BY <1>1, <1>2, <1>7, <1>9, <2>1 DEF WorkerOk, inv, x
  <2> QED
    BY <1>1, <1>2, <1>9, <2>2 DEF WorkerMoves, w
<1>10. CASE hits # {}
  <2> DEFINE v == [read EXCEPT !.pc = "ours", !.off = hit]
  <2>1. hit \in Official[inv] /\ hit \in Verdicts
    BY <1>2, <1>3, <1>10, HitsAreTrue DEF hit, hits, OutcomesOf, key
  <2>2. /\ v \in Subprocess /\ v.pc = "ours" /\ v.ver = w.ver /\ v.salt = w.salt /\ v.todo = w.todo
        /\ v.div = w.div /\ v.graded = w.graded /\ v.off = hit
    BY <1>4, <1>5, <2>1 DEF Subprocess
  <2>3. worker' = [worker EXCEPT ![g][j] = v]
    BY <1>6, <1>10
  <2> HIDE DEF v
  <2> QED
    BY <1>9, <2>1, <2>2, <2>3
<1>11. CASE hits = {} /\ Official[inv] # {}
  <2> DEFINE off == UNION Official[inv]
             v == [read EXCEPT !.pc = "ours", !.off = off, !.delta = @ \cup {<<key, off>>}]
  <2>1. off \in Official[inv] /\ off \in Verdicts /\ <<key, off>> \in TrueEntries
    BY <1>3, <1>11, TheVerdict, NewEntryIsTrue DEF OutcomesOf, key
  <2>2. worker' = [worker EXCEPT ![g][j] = v]
    BY <1>6, <1>11
  <2> HIDE DEF off
  <2>3. w.delta \cup {<<key, off>>} \in SUBSET TrueEntries
    BY <1>2, <2>1 DEF Subprocess
  <2>4. /\ v \in Subprocess /\ v.pc = "ours" /\ v.ver = w.ver /\ v.salt = w.salt /\ v.todo = w.todo
        /\ v.div = w.div /\ v.graded = w.graded /\ v.off = off
    BY <1>4, <1>5, <2>1, <2>3 DEF Subprocess
  <2> HIDE DEF v
  <2> QED
    BY <1>9, <2>1, <2>2, <2>4
<1> QED
  BY <1>8, <1>10, <1>11

\* The tally of one invoice.
LEMMA TalliedOk ==
  ASSUME GateTypes, NEW j \in Jobs, NEW w \in Subprocess, WorkerOk(w, j, tree),
         w.pc = "ours", w.salt = tree, w.ver = tree,
         NEW ours \in Ours[<<tree, Bytes[w.todo[1].path]>>]
  PROVE  LET v == Tallied(w, ours)
         IN  v \in Subprocess /\ WorkerOk(v, j, tree) /\ v.pc = "official" /\ v.ver = tree
<1> DEFINE x == w.todo[1]
           d == Cardinality(Disputed(tree, x))
           v == Tallied(w, ours)
<1>1. /\ w.todo \in Seq(Entries) /\ w.todo # <<>> /\ Distinct(w.todo) /\ tree \in 1..MaxVersion
      /\ ToSet(w.todo) \subseteq ToSet(JobCorpus(j)) /\ Tally(w, j)
      /\ w.off \in Official[Bytes[x.path]]
  BY DEF WorkerOk, Subprocess, GateTypes
<1>2. x \in Entries /\ Tail(w.todo) \in Seq(Entries)
  BY <1>1, TailFacts
<1>3. d \in Nat /\ Divergent(w.off, ours) = d /\ Gradable(tree, x)
  <2>1. /\ tree \in 1..MaxVersion /\ x \in Entries
        /\ w.off \in Official[Bytes[x.path]] /\ ours \in Ours[<<tree, Bytes[x.path]>>]
    BY <1>1, <1>2
  <2> HIDE DEF x
  <2>2. IsFiniteSet(Disputed(tree, x)) /\ Divergent(w.off, ours) = Cardinality(Disputed(tree, x))
    BY <2>1, DisputedFacts
  <2>3. Gradable(tree, x)
    BY <2>1 DEF Gradable
  <2> QED
    BY <2>2, <2>3, FS_CardinalityType
<1>4. w.div + d \in Nat /\ w.graded \cup {x} \in SUBSET Entries
  BY <1>2, <1>3 DEF Subprocess
<1>5. v = [w EXCEPT !.pc = "official", !.todo = Tail(@), !.graded = @ \cup {x},
                    !.div = @ + Divergent(w.off, ours)]
  BY DEF Tallied
<1> HIDE DEF d, x, v
<1>6. /\ v \in Subprocess /\ v.pc = "official" /\ v.ver = tree /\ v.salt = tree /\ v.todo = Tail(w.todo)
      /\ v.graded = w.graded \cup {x} /\ v.div = w.div + d
  BY <1>2, <1>3, <1>4, <1>5 DEF Subprocess
<1>7. /\ v.todo \in Seq(Entries) /\ Distinct(v.todo)
      /\ ToSet(v.todo) \subseteq ToSet(JobCorpus(j)) /\ Tally(v, j)
  BY <1>1, <1>3, <1>6, TallyStep DEF x, d
<1>8. WorkerOk(v, j, tree)
  BY <1>1, <1>6, <1>7 DEF WorkerOk
<1> QED
  BY <1>6, <1>8 DEF v

LEMMA OursMoves ==
  ASSUME GateTypes, NEW g \in Gates, NEW j \in Jobs, WorkerOk(worker[g][j], j, tree), CachedOurFired(g, j)
  PROVE  \E w2 : WorkerMoves(g, j, w2)
<1> DEFINE w      == worker[g][j]
           x      == w.todo[1]
           inv    == Bytes[x.path]
           key    == OurKey(OurSalt(w), inv)
           hits   == Hits(w.cache, key)
           salted == [w EXCEPT !.salt = OurSalt(w)]
           fired  == Ours[<<w.ver, inv>>]
           hit    == (CHOOSE e \in hits : TRUE)[2]
           noted  == [salted EXCEPT !.delta = @ \cup {<<key, UNION fired>>}]
<1>1. w.pc = "ours" /\ w.todo # <<>> /\ WorkerOk(w, j, tree)
  BY DEF CachedOurFired, WorkerOk
<1>2. /\ w \in Subprocess /\ w.ver = tree /\ tree \in 1..MaxVersion /\ OurSalt(w) = tree
      /\ x \in Entries /\ inv \in Invoices
  BY <1>1, AtWork
<1>3. OutcomesOf(inv, tree)
  BY <1>2, VerdictFacts
<1>4. /\ hits # {} => worker' = [worker EXCEPT ![g][j] = Tallied(salted, hit)]
      /\ hits = {} /\ fired = {} =>
           worker' = [worker EXCEPT ![g][j] = [salted EXCEPT !.pc = "official", !.todo = Tail(@)]]
      /\ hits = {} /\ fired # {} => worker' = [worker EXCEPT ![g][j] = Tallied(noted, UNION fired)]
  BY DEF CachedOurFired
<1>5. tree \in 0..MaxVersion /\ w.todo \in Seq(Entries)
  BY <1>2 DEF Subprocess
<1>6. /\ salted \in Subprocess /\ salted.pc = w.pc /\ salted.ver = w.ver /\ salted.salt = tree
      /\ salted.todo = w.todo /\ salted.div = w.div /\ salted.graded = w.graded
      /\ salted.off = w.off /\ salted.delta = w.delta
  BY <1>2, <1>5 DEF Subprocess
<1> HIDE DEF salted, hits, hit, inv, w, key, x, fired
<1>7. ASSUME NEW v, v.pc = w.pc, v.ver = w.ver, v.salt = tree, v.todo = w.todo, v.div = w.div,
             v.graded = w.graded, v.off = w.off
      PROVE  WorkerOk(v, j, tree)
  <2>1. Tally(v, j)
    BY <1>1, <1>7 DEF WorkerOk, Tally, Done
  <2> QED
    BY <1>1, <1>2, <1>7, <2>1 DEF WorkerOk
<1>8. w.pc = "ours" /\ WorkerOk(salted, j, tree) /\ fired = Ours[<<tree, inv>>]
  BY <1>1, <1>2, <1>6, <1>7 DEF fired
<1>9. CASE hits # {}
  <2>1. hit \in Ours[<<tree, inv>>]
    <3>1. w.cache \subseteq TrueEntries
      BY <1>2 DEF Subprocess
    <3> QED
      BY <1>2, <1>3, <1>9, <3>1, HitsAreTrue DEF hit, hits, OutcomesOf, key
  <2>2. /\ Tallied(salted, hit) \in Subprocess /\ WorkerOk(Tallied(salted, hit), j, tree)
        /\ Tallied(salted, hit).pc = "official" /\ Tallied(salted, hit).ver = tree
    BY <1>2, <1>6, <1>8, <2>1, TalliedOk DEF inv, x
  <2>3. worker' = [worker EXCEPT ![g][j] = Tallied(salted, hit)]
    BY <1>4, <1>9
  <2> QED
    BY <1>8, <2>2, <2>3 DEF WorkerMoves, w
<1>10. CASE hits = {} /\ fired # {}
  <2>1. UNION fired \in Ours[<<tree, inv>>] /\ <<key, UNION fired>> \in TrueEntries
    BY <1>2, <1>3, <1>8, <1>10, TheVerdict, NewEntryIsTrue DEF OutcomesOf, key
  <2>2. w.delta \cup {<<key, UNION fired>>} \in SUBSET TrueEntries
    BY <1>2, <2>1 DEF Subprocess
  <2>3. /\ noted \in Subprocess /\ noted.pc = w.pc /\ noted.ver = w.ver /\ noted.salt = tree
        /\ noted.todo = w.todo /\ noted.div = w.div /\ noted.graded = w.graded /\ noted.off = w.off
    BY <1>6, <2>2 DEF Subprocess
  <2> HIDE DEF noted
  <2>4. WorkerOk(noted, j, tree)
    BY <1>7, <2>3
  <2>5. /\ Tallied(noted, UNION fired) \in Subprocess /\ WorkerOk(Tallied(noted, UNION fired), j, tree)
        /\ Tallied(noted, UNION fired).pc = "official" /\ Tallied(noted, UNION fired).ver = tree
    BY <1>2, <1>8, <2>1, <2>3, <2>4, TalliedOk DEF inv, x
  <2>6. worker' = [worker EXCEPT ![g][j] = Tallied(noted, UNION fired)]
    BY <1>4, <1>10
  <2> QED
    BY <1>8, <2>5, <2>6 DEF WorkerMoves, w
<1>11. CASE hits = {} /\ fired = {}
  <2> DEFINE v == [salted EXCEPT !.pc = "official", !.todo = Tail(@)]
  <2>1. /\ v.pc = "official" /\ v.ver = w.ver /\ v.todo = Tail(w.todo) /\ v.div = w.div
        /\ v.graded = w.graded /\ v.salt = tree /\ (Tail(w.todo) \in Seq(Entries) => v \in Subprocess)
    BY <1>6 DEF Subprocess
  <2>2. worker' = [worker EXCEPT ![g][j] = v]
    BY <1>4, <1>11
  <2> HIDE DEF v
  <2>3. ~Gradable(w.ver, x) /\ Disputed(w.ver, x) = {}
    BY <1>2, <1>11, DisputedFacts DEF Gradable, inv, fired
  <2>4. w.div = w.div + Cardinality(Disputed(w.ver, x))
    BY <1>2, <2>3, FS_EmptySet DEF Subprocess
  <2>5. w.graded = w.graded \cup (IF Gradable(w.ver, x) THEN {x} ELSE {})
    BY <2>3
  <2>6. w.ver \in 1..MaxVersion /\ Distinct(w.todo) /\ ToSet(w.todo) \subseteq ToSet(JobCorpus(j)) /\ Tally(w, j)
    BY <1>1, <1>2 DEF WorkerOk
  <2>7. /\ v.todo \in Seq(Entries) /\ Distinct(v.todo)
        /\ ToSet(v.todo) \subseteq ToSet(JobCorpus(j)) /\ Tally(v, j)
    BY <1>1, <1>5, <2>1, <2>4, <2>5, <2>6, TallyStep DEF x
  <2>8. WorkerOk(v, j, tree)
    BY <1>1, <1>2, <2>1, <2>7 DEF WorkerOk
  <2> QED
    BY <1>2, <1>8, <2>1, <2>2, <2>7, <2>8 DEF WorkerMoves, w
<1> QED
  BY <1>9, <1>10, <1>11

\* A subprocess that ends, by itself or killed.
LEMMA EndMoves ==
  ASSUME GateTypes, NEW g \in Gates, NEW j \in Jobs, WorkerOk(worker[g][j], j, tree),
         FlushDelta(g, j) \/ KillWorker(g, j)
  PROVE  \E w2 : WorkerMoves(g, j, w2) /\ Settled(w2)
<1> DEFINE w == worker[g][j]
<1>1. w.pc \in {"official", "ours"} /\ (FlushDelta(g, j) => w.todo = <<>>)
  BY DEF FlushDelta, KillWorker
<1>2. w \in Subprocess /\ w.ver = tree /\ tree \in 1..MaxVersion
  BY <1>1, AtWork
<1>3. PICK end \in {"exited", "dead"} :
        /\ worker' = [worker EXCEPT ![g][j] = [w EXCEPT !.pc = end, !.delta = {}]]
        /\ end = "exited" => w.todo = <<>>
  BY <1>1 DEF FlushDelta, KillWorker
<1> DEFINE v == [w EXCEPT !.pc = end, !.delta = {}]
<1>4. /\ v \in Subprocess /\ v.pc = end /\ v.ver = w.ver /\ v.salt = w.salt /\ v.todo = w.todo
      /\ v.div = w.div /\ v.graded = w.graded
  BY <1>2 DEF Subprocess
<1> HIDE DEF v
<1>5. Tally(v, j)
  BY <1>1, <1>4 DEF WorkerOk, Tally, Done
<1>6. WorkerOk(v, j, tree)
  BY <1>1, <1>2, <1>3, <1>4, <1>5 DEF WorkerOk
<1>7. worker' = [worker EXCEPT ![g][j] = v]
  BY <1>3 DEF v
<1>8. v.pc # "queued" /\ v.ver = tree /\ Settled(v)
  BY <1>2, <1>4 DEF Settled
<1> QED
  BY <1>1, <1>4, <1>6, <1>7, <1>8 DEF WorkerMoves

-----------------------------------------------------------------------------
(***************************************************************************)
(* The invariant is inductive.                                             *)
(***************************************************************************)
LEMMA MovedWorkers ==
  ASSUME GateTypes, NEW g \in Gates, NEW j \in Jobs, NEW w2, WorkerMoves(g, j, w2)
  PROVE  /\ worker' \in [Gates -> [Jobs -> Subprocess]] /\ worker'[g][j] = w2
         /\ \A o \in Gates : o # g => worker'[o] = worker[o]
         /\ \A k \in Jobs : k # j => worker'[g][k] = worker[g][k]
BY DEF GateTypes, WorkerMoves

LEMMA WorkerStepKeeps ==
  ASSUME GateInv, NEW g \in Gates, NEW j \in Jobs, NEW w2, WorkerMoves(g, j, w2), UNCHANGED <<tree, gate>>
  PROVE  WorkersInv' /\ ParentsInv'
<1> DEFINE w == worker[g][j]
<1>1. /\ worker' \in [Gates -> [Jobs -> Subprocess]] /\ worker'[g][j] = w2
      /\ \A o \in Gates : o # g => worker'[o] = worker[o]
      /\ \A k \in Jobs : k # j => worker'[g][k] = worker[g][k]
  BY MovedWorkers DEF GateInv
<1>2. WorkersInv'
  <2>1. \A o \in Gates, k \in Jobs : WorkerOk(worker'[o][k], k, tree)
    BY <1>1 DEF WorkerMoves, GateInv, WorkersInv
  <2> QED
    BY <2>1 DEF WorkersInv
<1>3. ParentsInv'
  <2>1. w.pc \in {"official", "ours"} \/ (w.pc = "queued" /\ gate[g].pc = "grading")
    BY DEF WorkerMoves
  <2>2. ~Settled(w) /\ gate[g].pc # "idle"
    BY <2>1 DEF Settled, GateInv, ParentsInv
  <2>3. gate[g].pc \notin {"merging", "writing", "replacing", "unlinking", "summing", "finished"}
    BY <2>2 DEF GateInv, ParentsInv
  <2>4. \A k \in Jobs : worker'[g][k].ver = worker[g][k].ver \/ worker'[g][k].ver = tree
    BY <1>1 DEF WorkerMoves
  <2>5. Versions(g) \subseteq {tree}
    <3>1. CASE Active(g)
      BY <3>1 DEF GateInv, ParentsInv
    <3>2. CASE ~Active(g)
      <4>1. w.pc \in {"official", "ours"} /\ w.ver # 0 /\ w.ver = tree
        BY <2>1, <3>2 DEF Active, GateInv, WorkersInv, WorkerOk
      <4>2. tree \in Versions(g)
        BY <4>1 DEF Versions
      <4> QED
        BY <4>2 DEF GateInv, ParentsInv
    <3> QED
      BY <3>1, <3>2
  <2>6. Versions(g)' \subseteq {tree}
    BY <2>4, <2>5 DEF Versions
  <2> SUFFICES ASSUME NEW o \in Gates
               PROVE  /\ gate[o].pc = "idle" => \A k \in Jobs : worker'[o][k].pc = "queued"
                      /\ gate[o].pc \in {"merging", "writing", "replacing", "unlinking", "summing", "finished"}
                           => \A k \in Jobs : Settled(worker'[o][k])
                      /\ Active(o) => Versions(o)' \subseteq {tree}
                      /\ \A v1, v2 \in Versions(o)' : v1 = v2
                      /\ gate[o].pc = "finished" =>
                           /\ gate[o].divergences = Summed(o)'
                           /\ gate[o].failed <=> \E k \in Jobs : worker'[o][k].pc = "dead" \/ worker'[o][k].div # 0
    BY DEF ParentsInv, Active
  <2>7. CASE o = g
    BY <2>2, <2>3, <2>6, <2>7
  <2>8. CASE o # g
    <3>1. worker'[o] = worker[o]
      BY <1>1, <2>8
    <3>2. Versions(o)' = Versions(o) /\ Summed(o)' = Summed(o)
      BY <3>1 DEF Versions, Summed
    <3> QED
      BY <3>1, <3>2 DEF GateInv, ParentsInv
  <2> QED
    BY <2>7, <2>8
<1> QED
  BY <1>2, <1>3

\* A file more, or another content.
LEMMA FileWritten ==
  ASSUME DiskOk(disk), NEW name \in Names, NEW content, content \subseteq TrueEntries
  PROVE  DiskOk(WithFile(name, content))
BY DEF DiskOk, WithFile

LEMMA WorkerActionKeeps ==
  ASSUME GateInv, NEW g \in Gates, NEW j \in Jobs, WorkerStep(g, j) \/ KillWorker(g, j)
  PROVE  GateInv'
<1> USE DEF GateInv
<1>1. WorkerOk(worker[g][j], j, tree)
  BY DEF WorkersInv
<1>2. PICK w2 : WorkerMoves(g, j, w2)
  BY <1>1, StartMoves, OfficialMoves, OursMoves, EndMoves DEF WorkerStep
<1>3. UNCHANGED <<tree, tmp, gate>> /\ (disk' = disk \/ disk' = WithFile(<<g, j>>, worker[g][j].delta))
      /\ faults' \in {faults, faults + 1}
  BY DEF WorkerStep, StartWorker, OfficialStep, CachedOurFired, FlushDelta, KillWorker
<1>4. DiskOk(disk')
  <2>1. <<g, j>> \in Names /\ worker[g][j].delta \subseteq TrueEntries
    BY DEF GateTypes, Subprocess, Names
  <2> QED
    BY <1>3, <2>1, FileWritten DEF GateTypes
<1>5. worker' \in [Gates -> [Jobs -> Subprocess]]
  BY <1>2, MovedWorkers
<1>6. WorkersInv' /\ ParentsInv'
  BY <1>2, <1>3, WorkerStepKeeps
<1>7. faults' \in Nat
  BY <1>3 DEF GateTypes
<1> QED
  BY <1>3, <1>4, <1>5, <1>6, <1>7 DEF GateTypes

\* A parent goes on: its subprocesses stay as they are.
GoesOn(from, to) ==
  \/ from = "idle" /\ to = "grading"
  \/ from = "grading" /\ to \in {"summing", "merging"}
  \/ from \in {"merging", "writing", "replacing", "unlinking"}
     /\ to \in {"writing", "replacing", "unlinking", "summing"}
  \/ from = "summing" /\ to = "finished"
  \/ to = "killed"

ParentMoves(g) ==
  /\ UNCHANGED <<tree, worker>>
  /\ gate' \in [Gates -> Parent]
  /\ GoesOn(gate[g].pc, gate'[g].pc)
  /\ gate[g].pc = "grading" /\ gate'[g].pc # "killed" => \A j \in Jobs : Settled(worker[g][j])
  /\ gate'[g].pc = "finished" =>
       /\ gate'[g].divergences = Summed(g)
       /\ gate'[g].failed <=> \E j \in Jobs : worker[g][j].pc = "dead" \/ worker[g][j].div # 0
  /\ \A o \in Gates \ {g} :
       /\ gate'[o].pc = gate[o].pc /\ gate'[o].divergences = gate[o].divergences
       /\ gate'[o].failed = gate[o].failed

LEMMA ParentStepKeeps ==
  ASSUME GateInv, NEW g \in Gates, ParentMoves(g)
  PROVE  WorkersInv' /\ ParentsInv'
<1>1. WorkersInv'
  BY DEF GateInv, WorkersInv, ParentMoves
<1>2. \A o \in Gates : Versions(o)' = Versions(o) /\ Summed(o)' = Summed(o)
  BY DEF Versions, Summed, ParentMoves
<1>3. ParentsInv'
  <2> SUFFICES ASSUME NEW o \in Gates
               PROVE  /\ gate'[o].pc = "idle" => \A k \in Jobs : worker[o][k].pc = "queued"
                      /\ gate'[o].pc \in {"merging", "writing", "replacing", "unlinking", "summing", "finished"}
                           => \A k \in Jobs : Settled(worker[o][k])
                      /\ Active(o)' => Versions(o) \subseteq {tree}
                      /\ \A v1, v2 \in Versions(o) : v1 = v2
                      /\ gate'[o].pc = "finished" =>
                           /\ gate'[o].divergences = Summed(o)
                           /\ gate'[o].failed <=> \E k \in Jobs : worker[o][k].pc = "dead" \/ worker[o][k].div # 0
    BY <1>2 DEF ParentsInv, ParentMoves
  <2>1. CASE o # g
    BY <2>1 DEF ParentMoves, GateInv, ParentsInv, Active
  <2>2. CASE o = g
    <3>1. gate[g].pc = "idle" => Versions(g) = {}
      <4> SUFFICES ASSUME gate[g].pc = "idle", NEW j \in Jobs PROVE worker[g][j].ver = 0
        BY DEF Versions
      <4>1. worker[g][j].pc = "queued"
        BY DEF GateInv, ParentsInv
      <4>2. worker[g][j] = Fresh(j)
        BY <4>1 DEF GateInv, WorkersInv, WorkerOk
      <4> QED
        BY <4>2 DEF Fresh
    <3>2. gate[g].pc # "idle" /\ Active(g)' => Active(g)
      BY DEF ParentMoves, GoesOn, Active
    <3>3. GoesOn(gate[g].pc, gate'[g].pc)
      BY DEF ParentMoves
    <3>4. gate'[g].pc # "idle"
      BY <3>3 DEF GoesOn
    <3>5. gate'[g].pc \in {"merging", "writing", "replacing", "unlinking", "summing", "finished"}
            => \A k \in Jobs : Settled(worker[g][k])
      BY <3>3 DEF GoesOn, ParentMoves, GateInv, ParentsInv
    <3> QED
      BY <2>2, <3>1, <3>2, <3>4, <3>5 DEF GateInv, ParentsInv, ParentMoves
  <2> QED
    BY <2>1, <2>2
<1> QED
  BY <1>1, <1>3

\* A parent alone moves.
Alone(g, p) == gate' = [gate EXCEPT ![g] = p] /\ UNCHANGED <<tree, worker>>

LEMMA AloneMoves ==
  ASSUME gate \in [Gates -> Parent], NEW g \in Gates, NEW p \in Parent, Alone(g, p),
         GoesOn(gate[g].pc, p.pc),
         gate[g].pc = "grading" /\ p.pc # "killed" => \A j \in Jobs : Settled(worker[g][j]),
         p.pc = "finished" =>
           /\ p.divergences = Summed(g)
           /\ p.failed <=> \E j \in Jobs : worker[g][j].pc = "dead" \/ worker[g][j].div # 0
  PROVE  ParentMoves(g)
<1>1. gate' \in [Gates -> Parent] /\ gate'[g] = p /\ \A o \in Gates \ {g} : gate'[o] = gate[o]
  BY DEF Alone
<1> QED
  BY <1>1 DEF ParentMoves, Alone

\* The cache directory, as a parent finds it.
LEMMA Readable ==
  ASSUME GateTypes
  PROVE  LoadDiskCache \subseteq TrueEntries /\ DOMAIN disk \subseteq Names
         /\ \A X : UNION {disk[f] : f \in X \cap DOMAIN disk} \subseteq TrueEntries
BY DEF GateTypes, DiskOk, LoadDiskCache

LEMMA UnlinkedOk ==
  ASSUME DiskOk(disk), NEW X
  PROVE  DiskOk([f \in DOMAIN disk \ X |-> disk[f]])
BY DEF DiskOk

TmpOk(t) == t \in Seq(SUBSET TrueEntries) /\ Len(t) <= 1

LEMMA TmpFacts ==
  /\ TmpOk(<<>>) /\ \A c \in SUBSET TrueEntries : TmpOk(<<c>>)
  /\ \A t : TmpOk(t) /\ t # <<>> => t[1] \subseteq TrueEntries
BY DEF TmpOk

\* What every action of a parent does to the types.
ParentTypes == DiskOk(disk') /\ TmpOk(tmp') /\ faults' \in Nat

LEMMA StartGateMoves ==
  ASSUME GateInv, NEW g \in Gates, StartGate(g)
  PROVE  ParentMoves(g) /\ ParentTypes
<1> DEFINE p == [gate[g] EXCEPT !.pc = "grading"]
<1>1. GateTypes /\ gate[g] \in Parent /\ gate[g].pc = "idle"
  BY DEF GateInv, GateTypes, StartGate
<1>2. p \in Parent /\ p.pc = "grading"
  BY <1>1 DEF Parent
<1>3. Alone(g, p)
  BY DEF StartGate, Alone
<1> HIDE DEF p
<1>4. ParentMoves(g)
  BY <1>1, <1>2, <1>3, AloneMoves DEF GateTypes, GoesOn
<1> QED
  BY <1>1, <1>4 DEF StartGate, ParentTypes, GateTypes, TmpOk

LEMMA JoinAndListMoves ==
  ASSUME GateInv, NEW g \in Gates, JoinAndList(g)
  PROVE  ParentMoves(g) /\ ParentTypes
<1> DEFINE next == IF Cardinality(JsonFiles) <= 1 THEN "summing" ELSE "merging"
           p == [gate[g] EXCEPT !.listed = JsonFiles, !.pc = next]
<1>1. GateTypes /\ gate[g] \in Parent /\ gate[g].pc = "grading" /\ DOMAIN disk \subseteq Names
  BY Readable DEF GateInv, GateTypes, JoinAndList
<1>2. Alone(g, p)
  BY DEF JoinAndList, Alone
<1>3. next \in {"summing", "merging"} /\ JsonFiles \in SUBSET Names
  BY <1>1 DEF JsonFiles
<1> HIDE DEF next
<1>4. p \in Parent /\ p.pc = next
  BY <1>1, <1>3 DEF Parent
<1> HIDE DEF p
<1>5. ParentMoves(g)
  BY <1>1, <1>2, <1>3, <1>4, AloneMoves DEF GateTypes, GoesOn, JoinAndList
<1> QED
  BY <1>1, <1>5 DEF JoinAndList, ParentTypes, GateTypes, TmpOk

LEMMA MergeMoves ==
  ASSUME GateInv, NEW g \in Gates, Merge(g)
  PROVE  ParentMoves(g) /\ ParentTypes
<1> DEFINE all == UNION {disk[f] : f \in gate[g].listed \cap DOMAIN disk}
           p == [gate[g] EXCEPT !.pc = "writing", !.writes = "tmp", !.merged = all]
<1>1. GateTypes /\ gate[g] \in Parent /\ gate[g].pc = "merging" /\ all \in SUBSET TrueEntries
  BY Readable DEF GateInv, GateTypes, Merge
<1>2. Alone(g, p) /\ tmp' = <<{}>> /\ UNCHANGED <<disk, faults>>
  BY DEF Merge, Alone
<1> HIDE DEF all
<1>3. p \in Parent /\ p.pc = "writing"
  BY <1>1 DEF Parent
<1> HIDE DEF p
<1>4. ParentMoves(g)
  BY <1>1, <1>2, <1>3, AloneMoves DEF GateTypes, GoesOn
<1>5. TmpOk(tmp')
  BY <1>2, TmpFacts
<1> QED
  BY <1>1, <1>2, <1>4, <1>5 DEF ParentTypes, GateTypes

LEMMA DumpMergedMoves ==
  ASSUME GateInv, NEW g \in Gates, DumpMerged(g)
  PROVE  ParentMoves(g) /\ ParentTypes
<1> DEFINE p == [gate[g] EXCEPT !.pc = "replacing", !.writes = "none"]
<1>1. GateTypes /\ gate[g] \in Parent /\ gate[g].pc = "writing" /\ gate[g].merged \subseteq TrueEntries
  BY DEF GateInv, GateTypes, DumpMerged, Parent
<1>2. Alone(g, p) /\ UNCHANGED faults
  BY DEF DumpMerged, Alone
<1>3. \E content \in {gate[g].merged, {}} :
         \/ tmp' = <<content>> /\ UNCHANGED disk
         \/ disk' = WithFile(CacheFile, content) /\ UNCHANGED tmp
  BY DEF DumpMerged
<1>4. p \in Parent /\ p.pc = "replacing"
  BY <1>1 DEF Parent
<1> HIDE DEF p
<1>5. ParentMoves(g)
  BY <1>1, <1>2, <1>4, AloneMoves DEF GateTypes, GoesOn
<1>6. CacheFile \in Names
  BY DEF Names
<1>7. DiskOk(disk') /\ TmpOk(tmp')
  BY <1>1, <1>3, <1>6, TmpFacts, FileWritten DEF GateTypes, TmpOk
<1> QED
  BY <1>1, <1>2, <1>5, <1>7 DEF ParentTypes, GateTypes

LEMMA ReplaceCacheMoves ==
  ASSUME GateInv, NEW g \in Gates, ReplaceCache(g)
  PROVE  ParentMoves(g) /\ ParentTypes
<1>1. GateTypes /\ gate[g] \in Parent /\ gate[g].pc = "replacing" /\ UNCHANGED <<tree, worker, faults>>
  BY DEF GateInv, GateTypes, ReplaceCache
<1>2. CASE tmp = <<>>
  <2> DEFINE p == [gate[g] EXCEPT !.pc = "summing"]
  <2>1. Alone(g, p) /\ UNCHANGED <<disk, tmp>>
    BY <1>2 DEF ReplaceCache, Alone
  <2>2. p \in Parent /\ p.pc = "summing"
    BY <1>1 DEF Parent
  <2> HIDE DEF p
  <2>3. ParentMoves(g)
    BY <1>1, <2>1, <2>2, AloneMoves DEF GateTypes, GoesOn
  <2> QED
    BY <1>1, <2>1, <2>3 DEF ParentTypes, GateTypes, TmpOk
<1>3. CASE tmp # <<>>
  <2> DEFINE p == [gate[g] EXCEPT !.pc = "unlinking"]
             q(o) == [gate[o] EXCEPT !.writes = "cache"]
  <2>1. /\ disk' = WithFile(CacheFile, tmp[1]) /\ tmp' = <<>>
        /\ gate' = [o \in Gates |-> IF o = g THEN p ELSE IF gate[o].writes = "tmp" THEN q(o) ELSE gate[o]]
    BY <1>3 DEF ReplaceCache
  <2>2. p \in Parent /\ p.pc = "unlinking"
    BY <1>1 DEF Parent
  <2>3. \A o \in Gates : /\ gate[o] \in Parent /\ q(o) \in Parent /\ q(o).pc = gate[o].pc
                         /\ q(o).divergences = gate[o].divergences /\ q(o).failed = gate[o].failed
    <3> SUFFICES ASSUME NEW o \in Gates
                 PROVE  /\ gate[o] \in Parent /\ q(o) \in Parent /\ q(o).pc = gate[o].pc
                        /\ q(o).divergences = gate[o].divergences /\ q(o).failed = gate[o].failed
      OBVIOUS
    <3>1. gate[o] \in Parent
      BY <1>1 DEF GateTypes
    <3> QED
      BY <3>1 DEF Parent
  <2> HIDE DEF p, q
  <2>4. gate' \in [Gates -> Parent] /\ gate'[g] = p
    BY <2>1, <2>2, <2>3
  <2>5. \A o \in Gates \ {g} :
           /\ gate'[o].pc = gate[o].pc /\ gate'[o].divergences = gate[o].divergences
           /\ gate'[o].failed = gate[o].failed
    <3> SUFFICES ASSUME NEW o \in Gates \ {g}
                 PROVE  /\ gate'[o].pc = gate[o].pc /\ gate'[o].divergences = gate[o].divergences
                        /\ gate'[o].failed = gate[o].failed
      OBVIOUS
    <3>1. gate'[o] = IF gate[o].writes = "tmp" THEN q(o) ELSE gate[o]
      BY <2>1
    <3> QED
      BY <2>3, <3>1
  <2>6. ParentMoves(g)
    BY <1>1, <2>2, <2>4, <2>5 DEF ParentMoves, GoesOn
  <2>7. CacheFile \in Names /\ tmp[1] \subseteq TrueEntries /\ TmpOk(tmp')
    BY <1>1, <1>3, <2>1, TmpFacts DEF Names, GateTypes, TmpOk
  <2>8. DiskOk(disk')
    BY <1>1, <2>1, <2>7, FileWritten DEF GateTypes
  <2> QED
    BY <1>1, <2>6, <2>7, <2>8 DEF ParentTypes, GateTypes
<1> QED
  BY <1>2, <1>3

LEMMA UnlinkDeltasMoves ==
  ASSUME GateInv, NEW g \in Gates, UnlinkDeltas(g)
  PROVE  ParentMoves(g) /\ ParentTypes
<1> DEFINE p == [gate[g] EXCEPT !.pc = "summing"]
<1>1. GateTypes /\ gate[g] \in Parent /\ gate[g].pc = "unlinking"
  BY DEF GateInv, GateTypes, UnlinkDeltas
<1>2. Alone(g, p) /\ UNCHANGED <<tmp, faults>>
  BY DEF UnlinkDeltas, Alone
<1>3. p \in Parent /\ p.pc = "summing"
  BY <1>1 DEF Parent
<1> HIDE DEF p
<1>4. ParentMoves(g)
  BY <1>1, <1>2, <1>3, AloneMoves DEF GateTypes, GoesOn
<1>5. DiskOk(disk')
  BY <1>1, UnlinkedOk DEF UnlinkDeltas, GateTypes
<1> QED
  BY <1>1, <1>2, <1>4, <1>5 DEF ParentTypes, GateTypes, TmpOk

LEMMA KillParentMoves ==
  ASSUME GateInv, NEW g \in Gates, KillParent(g)
  PROVE  ParentMoves(g) /\ ParentTypes
<1> DEFINE p == [gate[g] EXCEPT !.pc = "killed", !.writes = "none"]
<1>1. GateTypes /\ gate[g] \in Parent /\ gate[g].pc # "finished"
  BY DEF GateInv, GateTypes, KillParent
<1>2. Alone(g, p) /\ UNCHANGED <<disk, tmp>> /\ faults' = faults + 1
  BY DEF KillParent, Alone
<1>3. p \in Parent /\ p.pc = "killed"
  BY <1>1 DEF Parent
<1> HIDE DEF p
<1>4. ParentMoves(g)
  BY <1>1, <1>2, <1>3, AloneMoves DEF GateTypes, GoesOn
<1> QED
  BY <1>1, <1>2, <1>4 DEF ParentTypes, GateTypes, TmpOk

-----------------------------------------------------------------------------
(***************************************************************************)
(* The sum over the jobs.                                                  *)
(***************************************************************************)
LEMMA JobsFinite == IsFiniteSet(Jobs)
<1>1. IsFiniteSet(LightLegs) /\ IsFiniteSet(HeavyLegs)
  BY GateCorpus, FS_Subset DEF Legs
<1>2. IsFiniteSet({Whole})
  BY FS_Singleton
<1>3. 0 \in Int /\ ShardCount - 1 \in Int
  BY GateConstants
<1>4. IsFiniteSet(0..(ShardCount - 1))
  BY <1>3, FS_Interval, Zenon
<1>5. IsFiniteSet(LightLegs \X {Whole}) /\ IsFiniteSet(HeavyLegs \X (0..(ShardCount - 1)))
  BY <1>1, <1>2, <1>4, FS_Product
<1> QED
  BY <1>5, FS_Union DEF Jobs

\* An entry of a leg's corpus is in the corpus of exactly one of its jobs.
LEMMA JobsPartition ==
  /\ \A j, k \in Jobs : j # k /\ j[1] = k[1] => ToSet(JobCorpus(j)) \cap ToSet(JobCorpus(k)) = {}
  /\ \A leg \in Legs : \A x \in ToSet(Corpus(leg)) :
       \E j \in Jobs : j[1] = leg /\ x \in ToSet(JobCorpus(j))
<1>1. \A job \in Jobs : ToSet(JobCorpus(job)) = {x \in ToSet(Corpus(job[1])) : InJob(x, job)}
  BY JobFacts
<1>2. ASSUME NEW j \in Jobs, NEW k \in Jobs, j # k, j[1] = k[1]
      PROVE  ToSet(JobCorpus(j)) \cap ToSet(JobCorpus(k)) = {}
  <2>1. j[2] # Whole /\ k[2] # Whole /\ j[2] # k[2]
    BY <1>2, GateConstants, GateCorpus DEF Jobs, Whole
  <2> QED
    BY <1>1, <2>1 DEF InJob
<1>3. ASSUME NEW leg \in Legs, NEW x \in ToSet(Corpus(leg))
      PROVE  \E j \in Jobs : j[1] = leg /\ x \in ToSet(JobCorpus(j))
  <2>1. CASE leg \in LightLegs
    <3>1. <<leg, Whole>> \in Jobs /\ InJob(x, <<leg, Whole>>)
      BY <2>1 DEF Jobs, InJob
    <3> QED
      BY <1>1, <3>1
  <2>2. CASE leg \in HeavyLegs
    <3> DEFINE shard == Digest[x.label] % ShardCount
    <3>1. x \in Entries
      BY CorpusFacts DEF ToSet
    <3>2. Digest[x.label] \in Nat
      BY <3>1, GateCorpus DEF Entries
    <3>3. shard \in 0..(ShardCount - 1)
      BY <3>2, GateConstants
    <3>4. <<leg, shard>> \in Jobs /\ InJob(x, <<leg, shard>>)
      BY <2>2, <3>3 DEF Jobs, InJob
    <3> QED
      BY <1>1, <3>4
  <2> QED
    BY <2>1, <2>2 DEF Legs
<1> QED
  BY <1>2, <1>3

\* What a job has counted, with its leg.
Counted(g) ==
  [j \in Jobs |-> IF worker[g][j].pc = "exited"
                  THEN {j[1]} \X Disputes(worker[g][j].ver, ToSet(JobCorpus(j))) ELSE {}]

LEMMA ExitedTally ==
  ASSUME WorkersInv, NEW g \in Gates, NEW j \in Jobs, worker[g][j].pc = "exited"
  PROVE  LET w == worker[g][j]
             all == ToSet(JobCorpus(j))
         IN  /\ w.div = Cardinality(Disputes(w.ver, all)) /\ IsFiniteSet(Disputes(w.ver, all))
             /\ w.graded = {x \in all : Gradable(w.ver, x)}
<1> DEFINE w == worker[g][j]
<1>1. w.todo = <<>> /\ Tally(w, j)
  BY DEF WorkersInv, WorkerOk
<1>2. Done(w, j) = ToSet(JobCorpus(j))
  BY <1>1 DEF Done, ToSet
<1> QED
  BY <1>1, <1>2 DEF Tally

LEMMA SummedIs ==
  ASSUME WorkersInv, NEW g \in Gates
  PROVE  /\ IsFiniteSet(Joined(Counted(g), Jobs))
         /\ Summed(g) = Cardinality(Joined(Counted(g), Jobs)) /\ Summed(g) \in Nat
<1> DEFINE D == Counted(g)
           fun == [j \in Jobs |-> IF worker[g][j].pc = "exited" THEN worker[g][j].div ELSE 0]
<1>1. \A j \in Jobs : IsFiniteSet(D[j]) /\ Cardinality(D[j]) = fun[j]
  <2> SUFFICES ASSUME NEW j \in Jobs PROVE IsFiniteSet(D[j]) /\ Cardinality(D[j]) = fun[j]
    OBVIOUS
  <2>1. CASE worker[g][j].pc # "exited"
    BY <2>1, FS_EmptySet DEF Counted
  <2>2. CASE worker[g][j].pc = "exited"
    <3> DEFINE E == Disputes(worker[g][j].ver, ToSet(JobCorpus(j)))
    <3>1. worker[g][j].div = Cardinality(E) /\ IsFiniteSet(E)
      BY <2>2, ExitedTally
    <3>2. D[j] = {j[1]} \X E /\ fun[j] = worker[g][j].div
      BY <2>2 DEF Counted
    <3>3. IsFiniteSet({j[1]}) /\ Cardinality({j[1]}) = 1
      BY FS_Singleton
    <3> HIDE DEF E
    <3>4. IsFiniteSet({j[1]} \X E) /\ Cardinality({j[1]} \X E) = 1 * Cardinality(E)
      BY <3>1, <3>3, FS_Product
    <3>5. Cardinality(E) \in Nat
      BY <3>1, FS_CardinalityType
    <3> QED
      BY <3>1, <3>2, <3>4, <3>5
  <2> QED
    BY <2>1, <2>2
<1>2. ASSUME NEW j \in Jobs, NEW k \in Jobs, j # k PROVE D[j] \cap D[k] = {}
  <2>1. CASE j[1] # k[1]
    BY <2>1 DEF Counted
  <2>2. CASE j[1] = k[1]
    <3>1. ToSet(JobCorpus(j)) \cap ToSet(JobCorpus(k)) = {}
      BY <1>2, <2>2, JobsPartition
    <3> QED
      BY <3>1 DEF Counted, Disputes
  <2> QED
    BY <2>1, <2>2
<1>3. Apart(D, Jobs)
  BY <1>1, <1>2 DEF Apart
<1>4. Summed(g) = SumFunction(fun) /\ DOMAIN fun = Jobs
  BY Zenon DEF Summed
<1> HIDE DEF fun, D
<1>5. IsFiniteSet(Joined(D, Jobs)) /\ SumFunction(fun) = Cardinality(Joined(D, Jobs))
  BY <1>1, <1>3, <1>4, JobsFinite, SumOfCardinalities
<1> QED
  BY <1>4, <1>5, FS_CardinalityType DEF D

LEMMA ReportMoves ==
  ASSUME GateInv, NEW g \in Gates, Report(g)
  PROVE  ParentMoves(g) /\ ParentTypes
<1> DEFINE bad == \E j \in Jobs : worker[g][j].pc = "dead" \/ worker[g][j].div # 0
           p == [gate[g] EXCEPT !.pc = "finished", !.divergences = Summed(g), !.failed = bad]
<1>1. GateTypes /\ gate[g] \in Parent /\ gate[g].pc = "summing"
  BY DEF GateInv, GateTypes, Report
<1>2. Alone(g, p) /\ UNCHANGED <<disk, tmp, faults>>
  BY DEF Report, Alone
<1>3. Summed(g) \in Nat
  BY SummedIs DEF GateInv
<1>4. bad \in BOOLEAN
  OBVIOUS
<1> HIDE DEF bad
<1>5. p \in Parent /\ p.pc = "finished" /\ p.divergences = Summed(g) /\ p.failed = bad
  BY <1>1, <1>3, <1>4 DEF Parent
<1> HIDE DEF p
<1>6. ParentMoves(g)
  BY <1>1, <1>2, <1>5, AloneMoves DEF GateTypes, GoesOn, bad
<1> QED
  BY <1>1, <1>2, <1>6 DEF ParentTypes, GateTypes, TmpOk

-----------------------------------------------------------------------------
(***************************************************************************)
(* The invariant.                                                          *)
(***************************************************************************)
LEMMA InitGate == Init => GateInv
<1> SUFFICES ASSUME Init PROVE GateInv
  OBVIOUS
<1>1. GateTypes
  <2>1. \A j \in Jobs : Fresh(j) \in Subprocess
    <3> SUFFICES ASSUME NEW j \in Jobs PROVE Fresh(j) \in Subprocess
      OBVIOUS
    <3>1. JobCorpus(j) \in Seq(Entries) /\ 0 \in 0..MaxVersion /\ {} \in Verdicts
      BY JobFacts, GateConstants DEF Verdicts
    <3> QED
      BY <3>1 DEF Fresh, Subprocess
  <2>2. IdleParent \in Parent
    BY DEF IdleParent, Parent
  <2>3. 1 \in 1..MaxVersion
    BY GateConstants
  <2>4. DiskOk(disk) /\ TmpOk(tmp)
    BY TmpFacts DEF Init, DiskOk
  <2> QED
    BY <2>1, <2>2, <2>3, <2>4 DEF Init, GateTypes, TmpOk
<1>2. WorkersInv
  <2> SUFFICES ASSUME NEW g \in Gates, NEW j \in Jobs PROVE WorkerOk(worker[g][j], j, tree)
    BY DEF WorkersInv
  <2>1. worker[g][j] = Fresh(j)
    BY DEF Init
  <2>2. Distinct(JobCorpus(j))
    BY JobFacts
  <2> QED
    BY <2>1, <2>2 DEF WorkerOk, Fresh
<1>3. ParentsInv
  <2> SUFFICES ASSUME NEW g \in Gates
               PROVE  gate[g].pc = "idle" /\ (\A j \in Jobs : worker[g][j].pc = "queued") /\ Versions(g) = {}
    BY DEF ParentsInv, Active
  <2> QED
    BY DEF Init, IdleParent, Fresh, Versions
<1> QED
  BY <1>1, <1>2, <1>3 DEF GateInv

LEMMA ParentActionKeeps ==
  ASSUME GateInv, NEW g \in Gates, StartGate(g) \/ ParentStep(g) \/ KillParent(g)
  PROVE  GateInv' /\ ParentMoves(g)
<1>1. ParentMoves(g) /\ ParentTypes
  BY StartGateMoves, JoinAndListMoves, MergeMoves, DumpMergedMoves, ReplaceCacheMoves,
     UnlinkDeltasMoves, ReportMoves, KillParentMoves DEF ParentStep
<1>2. WorkersInv' /\ ParentsInv'
  BY <1>1, ParentStepKeeps
<1>3. GateTypes'
  BY <1>1 DEF GateInv, GateTypes, ParentMoves, ParentTypes, TmpOk
<1> QED
  BY <1>1, <1>2, <1>3 DEF GateInv

\* The sources change while no gate runs.
EditTreeWhenQuiet == EditTree /\ \A g \in Gates : Quiet(g)

LEMMA EditKeeps ==
  ASSUME GateInv, EditTreeWhenQuiet
  PROVE  GateInv'
<1>1. UNCHANGED <<disk, tmp, worker, gate, faults>> /\ tree' = tree + 1 /\ tree < MaxVersion
  BY DEF EditTreeWhenQuiet, EditTree
<1>2. GateTypes'
  <2>1. tree' \in 1..MaxVersion
    BY <1>1, GateConstants DEF GateInv, GateTypes
  <2> QED
    BY <1>1, <2>1 DEF GateInv, GateTypes
<1>3. WorkersInv'
  <2> SUFFICES ASSUME NEW g \in Gates, NEW j \in Jobs PROVE WorkerOk(worker[g][j], j, tree')
    BY <1>1 DEF WorkersInv
  <2>1. worker[g][j].pc \notin {"official", "ours"}
    BY DEF EditTreeWhenQuiet, Quiet, Running
  <2> QED
    BY <2>1 DEF GateInv, WorkersInv, WorkerOk
<1>4. ParentsInv'
  <2>1. \A g \in Gates : Versions(g)' = Versions(g) /\ Summed(g)' = Summed(g) /\ ~Active(g)'
    BY <1>1 DEF Versions, Summed, EditTreeWhenQuiet, Quiet, Active
  <2> QED
    BY <1>1, <2>1 DEF GateInv, ParentsInv
<1> QED
  BY <1>2, <1>3, <1>4 DEF GateInv

LEMMA GateStepKeeps ==
  ASSUME GateInv, GateNext \/ EditTreeWhenQuiet \/ UNCHANGED vars
  PROVE  GateInv'
<1>1. CASE GateNext
  <2>1. CASE \E g \in Gates : StartGate(g) \/ ParentStep(g) \/ KillParent(g)
    BY <2>1, ParentActionKeeps
  <2>2. CASE \E g \in Gates, j \in Jobs : WorkerStep(g, j) \/ KillWorker(g, j)
    BY <2>2, WorkerActionKeeps
  <2> QED
    BY <1>1, <2>1, <2>2 DEF GateNext
<1>2. CASE EditTreeWhenQuiet
  BY <1>2, EditKeeps
<1>3. CASE UNCHANGED vars
  <2>1. UNCHANGED <<tree, disk, tmp, worker, gate, faults>>
    BY <1>3 DEF vars
  <2>2. \A g \in Gates : /\ Versions(g)' = Versions(g) /\ Summed(g)' = Summed(g) /\ Active(g)' = Active(g)
    BY <2>1 DEF Versions, Summed, Active
  <2>3. ParentsInv'
    BY <2>1, <2>2 DEF GateInv, ParentsInv
  <2> QED
    BY <2>1, <2>3 DEF GateInv, GateTypes, WorkersInv
<1> QED
  BY <1>1, <1>2, <1>3

-----------------------------------------------------------------------------
(***************************************************************************)
(* The cache, and the report of a gate.                                    *)
(***************************************************************************)
LEMMA MemoFromInv == GateInv => CacheIsMemo
<1> SUFFICES ASSUME GateInv, NEW e \in AllEntries PROVE e[2] \in Verdict(e[1])
  BY DEF CacheIsMemo
<1>1. GateTypes
  BY DEF GateInv
<1>2. LoadDiskCache \subseteq TrueEntries
  BY <1>1, Readable
<1>3. UNION ToSet(tmp) \subseteq TrueEntries
  <2>1. tmp \in Seq(SUBSET TrueEntries)
    BY <1>1 DEF GateTypes
  <2>2. \A t \in ToSet(tmp) : t \subseteq TrueEntries
    BY <2>1 DEF ToSet
  <2> QED
    BY <2>2
<1>4. \A g \in Gates, j \in Jobs : worker[g][j].delta \subseteq TrueEntries
  BY <1>1 DEF GateTypes, Subprocess
<1>5. e \in TrueEntries
  <2> DEFINE ds == {worker[g][j].delta : g \in Gates, j \in Jobs}
  <2>1. UNION ds \subseteq TrueEntries
    BY <1>4
  <2> DEFINE ts == UNION ToSet(tmp)
             us == UNION ds
  <2>2. AllEntries = LoadDiskCache \cup ts \cup us
    BY DEF AllEntries
  <2> HIDE DEF ts, us
  <2> QED
    BY <1>2, <1>3, <2>1, <2>2 DEF ts, us
<1> QED
  BY <1>5 DEF TrueEntries

\* The version all subprocesses of a finished gate have imported.
LEMMA OneVersion ==
  ASSUME GateInv, NEW g \in Gates, gate[g].pc = "finished"
  PROVE  \A j \in Jobs : worker[g][j].ver = GatedTree(g) /\ Settled(worker[g][j])
<1>1. \A j \in Jobs : Settled(worker[g][j])
  BY DEF GateInv, ParentsInv
<1>2. \A j \in Jobs : worker[g][j].ver # 0 /\ worker[g][j].ver \in Nat
  <2> SUFFICES ASSUME NEW j \in Jobs PROVE worker[g][j].ver # 0 /\ worker[g][j].ver \in Nat
    OBVIOUS
  <2>1. worker[g][j] \in Subprocess
    BY DEF GateInv, GateTypes
  <2>2. worker[g][j].ver \in Nat
    BY <2>1, GateConstants DEF Subprocess
  <2>3. WorkerOk(worker[g][j], j, tree) /\ worker[g][j].pc # "queued"
    BY <1>1 DEF GateInv, WorkersInv, Settled
  <2> QED
    BY <2>2, <2>3 DEF WorkerOk
<1>3. \A j, k \in Jobs : worker[g][j].ver = worker[g][k].ver
  <2>1. \A v1, v2 \in Versions(g) : v1 = v2
    BY DEF GateInv, ParentsInv
  <2>2. \A j \in Jobs : worker[g][j].ver \in Versions(g)
    BY <1>2 DEF Versions
  <2> QED
    BY <2>1, <2>2
<1> SUFFICES ASSUME NEW j \in Jobs PROVE worker[g][j].ver = GatedTree(g)
  BY <1>1
<1> DEFINE v == worker[g][j].ver
           S == {worker[g][k].ver : k \in Jobs}
<1>4. S = {v} /\ v \in Nat
  BY <1>2, <1>3
<1>5. Max(S) = v
  <2> HIDE DEF v, S
  <2>1. \A y \in S : v >= y
    BY <1>4
  <2>2. \A x \in S : x = v
    BY <1>4
  <2> QED
    BY <1>4, <2>1, <2>2 DEF Max
<1> QED
  BY <1>5 DEF GatedTree

LEMMA TotalIs ==
  ASSUME GateInv, NEW g \in Gates, gate[g].pc = "finished", \A j \in Jobs : worker[g][j].pc = "exited"
  PROVE  Joined(Counted(g), Jobs)
           = UNION {{leg} \X Disputes(GatedTree(g), ToSet(Corpus(leg))) : leg \in Legs}
<1> DEFINE v == GatedTree(g)
           whole(leg) == {leg} \X Disputes(v, ToSet(Corpus(leg)))
<1>1. \A j \in Jobs : Counted(g)[j] = {j[1]} \X Disputes(v, ToSet(JobCorpus(j)))
  BY OneVersion DEF Counted
<1>2. \A j \in Jobs : j[1] \in Legs /\ ToSet(JobCorpus(j)) \subseteq ToSet(Corpus(j[1]))
  BY JobFacts DEF Jobs, Legs
<1>3. ASSUME NEW j \in Jobs PROVE Counted(g)[j] \subseteq whole(j[1])
  BY <1>1, <1>2 DEF Disputes
<1>4. ASSUME NEW leg \in Legs PROVE whole(leg) \subseteq Joined(Counted(g), Jobs)
  <2> SUFFICES ASSUME NEW x \in ToSet(Corpus(leg)), NEW r \in Disputed(v, x)
               PROVE  <<leg, <<x, r>>>> \in Joined(Counted(g), Jobs)
    BY DEF Disputes
  <2>1. PICK j \in Jobs : j[1] = leg /\ x \in ToSet(JobCorpus(j))
    BY JobsPartition
  <2>2. <<leg, <<x, r>>>> \in Counted(g)[j]
    BY <1>1, <2>1 DEF Disputes
  <2> QED
    BY <2>2 DEF Joined
<1>5. Joined(Counted(g), Jobs) \subseteq UNION {whole(leg) : leg \in Legs}
  <2> HIDE DEF whole
  <2> QED
    BY <1>2, <1>3 DEF Joined
<1>6. UNION {whole(leg) : leg \in Legs} \subseteq Joined(Counted(g), Jobs)
  <2> HIDE DEF whole
  <2> QED
    BY <1>4
<1> QED
  BY <1>5, <1>6

LEMMA ExactFromInv == GateInv => GateExact
<1> SUFFICES ASSUME GateInv, NEW g \in Gates, gate[g].pc = "finished"
             PROVE  LET complete == \A j \in Jobs : worker[g][j].pc = "exited"
                        total == WholeCorpusTotal(GatedTree(g))
                    IN  /\ complete => gate[g].divergences = total
                        /\ gate[g].failed <=> ~complete \/ total # 0
  BY DEF GateExact
<1> DEFINE complete == \A j \in Jobs : worker[g][j].pc = "exited"
           total == WholeCorpusTotal(GatedTree(g))
           bad == \E j \in Jobs : worker[g][j].pc = "dead" \/ worker[g][j].div # 0
<1>1. gate[g].divergences = Summed(g) /\ (gate[g].failed <=> bad)
  BY DEF GateInv, ParentsInv
<1>2. WorkersInv /\ Summed(g) = Cardinality(Joined(Counted(g), Jobs)) /\ IsFiniteSet(Joined(Counted(g), Jobs))
  BY SummedIs DEF GateInv
<1>3. CASE ~complete
  <2>1. PICK j \in Jobs : worker[g][j].pc # "exited"
    BY <1>3
  <2>2. worker[g][j].pc = "dead"
    BY <2>1, OneVersion DEF Settled
  <2> QED
    BY <1>1, <1>3, <2>2
<1>4. CASE complete
  <2>1. total = Cardinality(Joined(Counted(g), Jobs))
    BY <1>4, TotalIs DEF WholeCorpusTotal
  <2>2. total = 0 <=> Joined(Counted(g), Jobs) = {}
    BY <1>2, <2>1, FS_EmptySet
  <2>3. \A j \in Jobs : worker[g][j].div = 0 <=> Counted(g)[j] = {}
    <3> SUFFICES ASSUME NEW j \in Jobs PROVE worker[g][j].div = 0 <=> Counted(g)[j] = {}
      OBVIOUS
    <3> DEFINE E == Disputes(worker[g][j].ver, ToSet(JobCorpus(j)))
    <3>1. worker[g][j].div = Cardinality(E) /\ IsFiniteSet(E)
      BY <1>2, <1>4, ExitedTally
    <3>2. Counted(g)[j] = {j[1]} \X E
      BY <1>4 DEF Counted
    <3> HIDE DEF E
    <3>3. worker[g][j].div = 0 <=> E = {}
      BY <3>1, FS_EmptySet
    <3>4. {j[1]} \X E = {} <=> E = {}
      <4>1. \A d \in E : <<j[1], d>> \in {j[1]} \X E
        OBVIOUS
      <4>2. E = {} => {j[1]} \X E = {}
        OBVIOUS
      <4> QED
        BY <4>1, <4>2
    <3> QED
      BY <3>2, <3>3, <3>4
  <2>4. Joined(Counted(g), Jobs) = {} <=> \A j \in Jobs : Counted(g)[j] = {}
    BY DEF Joined
  <2>5. bad <=> total # 0
    BY <1>4, <2>2, <2>3, <2>4
  <2>6. gate[g].divergences = total /\ (gate[g].failed <=> total # 0)
    <3> HIDE DEF total, bad
    <3> QED
      BY <1>1, <1>2, <2>1, <2>5
  <2> QED
    BY <1>4, <2>6
<1> QED
  BY <1>3, <1>4

LEMMA OnceFromInv == GateInv => GradedOnce
<1> SUFFICES ASSUME GateInv, NEW g \in Gates, gate[g].pc = "finished", NEW leg \in Legs,
                    \A j \in {k \in Jobs : k[1] = leg} : worker[g][j].pc = "exited",
                    NEW x \in ToSet(Corpus(leg))
             PROVE  Cardinality({j \in {k \in Jobs : k[1] = leg} : x \in worker[g][j].graded})
                      = IF Gradable(GatedTree(g), x) THEN 1 ELSE 0
  BY DEF GradedOnce, Gradable
<1> DEFINE mine == {j \in {k \in Jobs : k[1] = leg} : x \in worker[g][j].graded}
<1>1. \A j \in {k \in Jobs : k[1] = leg} :
        worker[g][j].graded = {y \in ToSet(JobCorpus(j)) : Gradable(GatedTree(g), y)}
  BY ExitedTally, OneVersion DEF GateInv
<1>2. PICK j \in Jobs : j[1] = leg /\ x \in ToSet(JobCorpus(j))
  BY JobsPartition
<1>3. \A k \in Jobs : k[1] = leg /\ x \in ToSet(JobCorpus(k)) => k = j
  BY <1>2, JobsPartition
<1>4. mine = IF Gradable(GatedTree(g), x) THEN {j} ELSE {}
  BY <1>1, <1>2, <1>3
<1> HIDE DEF mine
<1> QED
  BY <1>4, FS_Singleton, FS_EmptySet DEF mine

-----------------------------------------------------------------------------
(***************************************************************************)
(* Theorems.                                                               *)
(***************************************************************************)
LEMMA StillInv == StillSpec => []GateInv
<1>1. Init => GateInv
  BY InitGate
<1>2. GateInv /\ [GateNext]_vars => GateInv'
  BY GateStepKeeps
<1> QED
  BY <1>1, <1>2, PTL DEF StillSpec

\* "A verdict is replayed ONLY when the code under test and its inputs are byte-for-byte
\* the tree that was already proven" (differential.py:752): however many gates share the
\* cache directory at the same time, whichever subprocesses and parents are killed and
\* whichever writes fail, an entry of _load_disk_cache, of a delta or of the temporary file
\* is what a live run on the key's sources and invoice gives.
THEOREM ReplayIsLive == StillSpec => []CacheIsMemo
BY StillInv, MemoFromInv, PTL

\* "divergences are counted per (rule, invoice) so the sharded totals sum to the exact
\* whole-corpus total" (differential.py:7258) and "every invoice is still graded once, in
\* exactly one shard" (differential.py:6906), for every corpus, number of shards and state
\* of the cache: run_differential_parallel reports what one live pass would.
THEOREM ShardsAddUp == StillSpec => []GateIsHonest
<1>1. GateInv => GateIsHonest
  BY ExactFromInv, OnceFromInv DEF GateIsHonest
<1> QED
  BY <1>1, StillInv, PTL

\* Edits between gates.
GatePart == part = "gate" => GateInv

LEMMA ReleaseInv ==
  ASSUME ~EditWhileGrading
  PROVE  ReleaseSpec => []GatePart
<1>1. ReleaseInit => GatePart
  BY InitGate DEF ReleaseInit, GatePart
<1>2. GatePart /\ [ReleaseNext]_allVars => GatePart'
  <2> SUFFICES ASSUME GatePart, [ReleaseNext]_allVars, part' = "gate" PROVE GateInv'
    BY DEF GatePart
  <2>1. part = "gate" /\ (Next \/ UNCHANGED vars)
    BY DEF ReleaseNext, GateStep, LiveStep, ArtifactsStep, allVars, gateOnly, vars
  <2>2. GateNext \/ EditTreeWhenQuiet \/ UNCHANGED vars
    BY <2>1 DEF Next, EditTreeWhenQuiet, EditTree
  <2> QED
    BY <2>1, <2>2, GateStepKeeps DEF GatePart
<1> QED
  BY <1>1, <1>2, PTL DEF ReleaseSpec

\* The same over as many versions of the sources as are saved between gates: the
\* fingerprint in the key (_our_salt) keeps the verdicts of one version from the gates of
\* another, so the cache is what live runs give and a warm gate reports what a cold one does.
THEOREM VersionsApart ==
  ASSUME ~EditWhileGrading
  PROVE  ReleaseSpec => []MemoOverVersions
<1>1. GatePart => MemoOverVersions
  BY MemoFromInv, ExactFromInv DEF GatePart, MemoOverVersions
<1> QED
  BY <1>1, ReleaseInv, PTL

-----------------------------------------------------------------------------
(***************************************************************************)
(* One gate at a time keeps every verdict that is written.                 *)
(***************************************************************************)
Kept == LoadDiskCache \subseteq LoadDiskCache'

OthersQuiet(g) == \A o \in Gates \ {g} : Quiet(o)

\* What has to hold of the parent that moves, and of the files.
OwnStage(p) ==
  /\ p.writes # "none" <=> p.pc = "writing"
  /\ p.writes # "cache"
  /\ p.pc = "merging" => DOMAIN disk \subseteq p.listed
  /\ p.pc \in {"writing", "replacing"} => p.merged = LoadDiskCache
  /\ p.pc = "replacing" => tmp = <<p.merged>>
  /\ p.pc = "unlinking" => CacheFile \in DOMAIN disk /\ LoadDiskCache \subseteq disk[CacheFile]

LEMMA Stages == OneGate <=>
  /\ \A g, o \in Gates : ~Quiet(g) /\ ~Quiet(o) => g = o
  /\ \A g \in Gates, j \in Jobs : <<g, j>> \in DOMAIN disk => worker[g][j].pc = "exited"
  /\ \A g \in Gates : OwnStage(gate[g])
BY DEF OneGate, OwnStage

LEMMA QuietStage ==
  ASSUME OneGate, NEW o \in Gates, Quiet(o)
  PROVE  gate[o].writes = "none" /\ gate[o].pc \in {"idle", "finished", "killed"}
BY DEF OneGate, Quiet, Active

\* A parent moves while the other gates are quiet.
LEMMA AloneKeepsOne ==
  ASSUME GateInv, OneGate, NEW g \in Gates, OthersQuiet(g), NEW p \in Parent, Alone(g, p),
         DOMAIN disk' \subseteq DOMAIN disk \cup {CacheFile}, OwnStage(p)'
  PROVE  OneGate'
<1>1. gate' = [gate EXCEPT ![g] = p] /\ worker' = worker /\ gate'[g] = p
      /\ \A o \in Gates \ {g} : gate'[o] = gate[o]
  BY DEF Alone, GateInv, GateTypes
<1>2. \A o \in Gates \ {g} : Quiet(o)'
  BY <1>1 DEF OthersQuiet, Quiet, Active, Running
<1>3. \A o \in Gates : OwnStage(gate[o])'
  <2> SUFFICES ASSUME NEW o \in Gates PROVE OwnStage(gate[o])'
    OBVIOUS
  <2>1. CASE o = g
    BY <1>1, <2>1 DEF OwnStage
  <2>2. CASE o # g
    <3>1. gate'[o].writes = "none" /\ gate'[o].pc \in {"idle", "finished", "killed"}
      BY <1>1, <2>2, QuietStage DEF OthersQuiet
    <3> QED
      BY <3>1 DEF OwnStage
  <2> QED
    BY <2>1, <2>2
<1>4. \A o \in Gates, j \in Jobs : <<o, j>> # CacheFile
  BY DEF CacheFile
<1>5. \A o \in Gates, j \in Jobs : <<o, j>> \in DOMAIN disk' => worker'[o][j].pc = "exited"
  BY <1>1, <1>4, Stages
<1>6. \A x, o \in Gates : ~Quiet(x)' /\ ~Quiet(o)' => x = o
  BY <1>2
<1> QED
  BY <1>3, <1>5, <1>6 DEF OneGate, OwnStage

\* A subprocess moves: all it can do to the directory is add its own file.
LEMMA WorkerKeepsOne ==
  ASSUME GateInv, OneGate, NEW g \in Gates, NEW j \in Jobs, WorkerStep(g, j) \/ KillWorker(g, j)
  PROVE  OneGate' /\ Kept
<1> DEFINE file == <<g, j>>
<1>1. WorkerOk(worker[g][j], j, tree)
  BY DEF GateInv, WorkersInv
<1>2. PICK w2 : WorkerMoves(g, j, w2)
  BY <1>1, StartMoves, OfficialMoves, OursMoves, EndMoves DEF WorkerStep, GateInv
<1>3. UNCHANGED <<tmp, gate>>
  BY DEF WorkerStep, StartWorker, OfficialStep, CachedOurFired, FlushDelta, KillWorker
<1>4. /\ worker' \in [Gates -> [Jobs -> Subprocess]] /\ worker'[g][j] = w2
      /\ \A o \in Gates \ {g} : worker'[o] = worker[o]
      /\ \A k \in Jobs \ {j} : worker'[g][k] = worker[g][k]
  BY <1>2, MovedWorkers DEF GateInv
<1>5. disk' = disk \/ (disk' = WithFile(file, worker[g][j].delta) /\ w2.pc = "exited")
  <2>1. CASE FlushDelta(g, j)
    <3>1. disk' = disk \/ disk' = WithFile(file, worker[g][j].delta)
      BY <2>1 DEF FlushDelta
    <3>2. worker[g][j] \in Subprocess
      BY DEF GateInv, GateTypes
    <3>3. worker' = [worker EXCEPT ![g][j] = [worker[g][j] EXCEPT !.pc = "exited", !.delta = {}]]
      BY <2>1 DEF FlushDelta
    <3>4. [worker[g][j] EXCEPT !.pc = "exited", !.delta = {}].pc = "exited"
      BY <3>2 DEF Subprocess
    <3>5. worker'[g][j].pc = "exited"
      BY <3>3, <3>4 DEF GateInv, GateTypes
    <3> QED
      BY <1>4, <3>1, <3>5
  <2>2. CASE ~FlushDelta(g, j)
    BY <2>2 DEF WorkerStep, StartWorker, OfficialStep, CachedOurFired, KillWorker
  <2> QED
    BY <2>1, <2>2
<1>6. worker[g][j].pc \notin {"exited", "dead"} /\ ~Quiet(g) /\ ~Settled(worker[g][j])
  <2>1. worker[g][j].pc \in {"official", "ours"} \/ (worker[g][j].pc = "queued" /\ gate[g].pc = "grading")
    BY <1>2 DEF WorkerMoves
  <2> QED
    BY <2>1 DEF Quiet, Running, Active, Settled
<1>7. OthersQuiet(g)
  BY <1>6 DEF OneGate, OthersQuiet
<1>8. gate[g].pc \notin {"merging", "writing", "replacing", "unlinking"}
  BY <1>6 DEF GateInv, ParentsInv
<1>9. Kept
  <2>1. CASE disk' = disk
    BY <2>1 DEF Kept, LoadDiskCache
  <2>2. CASE disk' = WithFile(file, worker[g][j].delta)
    <3>1. file \notin DOMAIN disk
      BY <1>6 DEF OneGate
    <3>2. \A f \in DOMAIN disk : f \in DOMAIN disk' /\ disk'[f] = disk[f]
      BY <2>2, <3>1 DEF WithFile
    <3> QED
      BY <3>2 DEF Kept, LoadDiskCache
  <2> QED
    BY <1>5, <2>1, <2>2
<1>10. \A o \in Gates, k \in Jobs : <<o, k>> \in DOMAIN disk' => worker'[o][k].pc = "exited"
  <2> SUFFICES ASSUME NEW o \in Gates, NEW k \in Jobs, <<o, k>> \in DOMAIN disk'
               PROVE  worker'[o][k].pc = "exited"
    OBVIOUS
  <2>1. CASE o = g /\ k = j
    <3>1. file \notin DOMAIN disk
      BY <1>6 DEF OneGate
    <3> QED
      BY <1>4, <1>5, <2>1, <3>1
  <2>2. CASE ~(o = g /\ k = j)
    <3>1. worker'[o][k] = worker[o][k]
      BY <1>4, <2>2
    <3>2. <<o, k>> \in DOMAIN disk
      BY <1>5, <2>2 DEF WithFile
    <3> QED
      BY <3>1, <3>2 DEF OneGate
  <2> QED
    BY <2>1, <2>2
<1>11. \A o \in Gates \ {g} : Quiet(o)'
  BY <1>3, <1>4, <1>7 DEF OthersQuiet, Quiet, Active, Running
<1>12. \A o \in Gates : OwnStage(gate[o])'
  <2> SUFFICES ASSUME NEW o \in Gates PROVE OwnStage(gate[o])'
    OBVIOUS
  <2>1. gate'[o].pc \notin {"merging", "writing", "replacing", "unlinking"}
    BY <1>3, <1>7, <1>8, QuietStage DEF OthersQuiet
  <2>2. gate'[o].writes # "none" <=> gate'[o].pc = "writing"
    BY <1>3 DEF OneGate
  <2> QED
    BY <2>1, <2>2 DEF OwnStage
<1>13. \A x, o \in Gates : ~Quiet(x)' /\ ~Quiet(o)' => x = o
  BY <1>11
<1> QED
  BY <1>9, <1>10, <1>12, <1>13 DEF OneGate, OwnStage

\* The parents' actions.
LEMMA ParentKeepsOne ==
  ASSUME GateInv, OneGate, ~Overlapping, NEW g \in Gates, StartGate(g) \/ ParentStep(g) \/ KillParent(g)
  PROVE  OneGate' /\ Kept
<1>1. gate[g] \in Parent /\ OwnStage(gate[g])
  BY Stages DEF GateInv, GateTypes
<1>2. OthersQuiet(g)
  <2>1. CASE StartGate(g)
    BY <2>1 DEF StartGate, OthersQuiet
  <2>2. CASE ParentStep(g) \/ KillParent(g)
    <3>1. Active(g)
      BY <2>2 DEF ParentStep, KillParent, JoinAndList, Merge, DumpMerged, ReplaceCache, UnlinkDeltas,
                  Report, Active
    <3> QED
      BY <3>1 DEF OneGate, Quiet, OthersQuiet
  <2> QED
    BY <2>1, <2>2
<1> DEFINE Goes(p) ==
      /\ p \in Parent /\ Alone(g, p) /\ DOMAIN disk' \subseteq DOMAIN disk \cup {CacheFile}
      /\ OwnStage(p)' /\ Kept
<1>3. ASSUME NEW p, Goes(p) PROVE OneGate' /\ Kept
  BY <1>2, <1>3, AloneKeepsOne
<1>4. \A p \in Parent : UNCHANGED <<disk, tmp>> /\ OwnStage(p) => OwnStage(p)' /\ Kept
  BY DEF OwnStage, Kept, LoadDiskCache
<1>5. \A p \in Parent : p.pc \in {"grading", "summing", "finished", "killed"} /\ p.writes = "none" => OwnStage(p)'
  BY DEF OwnStage
<1>6. gate[g].pc # "writing" => gate[g].writes = "none"
  BY <1>1 DEF OwnStage
<1> HIDE DEF Goes
<1>7. CASE StartGate(g)
  <2>1. PICK p \in {[gate[g] EXCEPT !.pc = "grading"]} : TRUE
    OBVIOUS
  <2>2. gate[g].pc = "idle"
    BY <1>7 DEF StartGate
  <2>3. p \in Parent /\ p.pc = "grading" /\ p.writes = "none"
    BY <1>1, <1>6, <2>1, <2>2 DEF Parent
  <2>4. Alone(g, p) /\ UNCHANGED <<disk, tmp>>
    BY <1>7, <2>1 DEF StartGate, Alone
  <2>5. Goes(p)
    BY <1>5, <2>3, <2>4 DEF Goes, Kept, LoadDiskCache
  <2> QED
    BY <1>3, <2>5
<1>8. CASE JoinAndList(g)
  <2>1. PICK p \in {[gate[g] EXCEPT !.listed = JsonFiles,
                                    !.pc = IF Cardinality(JsonFiles) <= 1 THEN "summing" ELSE "merging"]} : TRUE
    OBVIOUS
  <2>2. gate[g].pc = "grading" /\ JsonFiles \in SUBSET Names
    BY <1>8, Readable DEF JoinAndList, JsonFiles, GateInv
  <2>3. p \in Parent /\ p.pc \in {"summing", "merging"} /\ p.writes = "none" /\ p.listed = DOMAIN disk
    BY <1>1, <1>6, <2>1, <2>2 DEF Parent, JsonFiles
  <2>4. Alone(g, p) /\ UNCHANGED <<disk, tmp>>
    BY <1>8, <2>1 DEF JoinAndList, Alone
  <2>5. OwnStage(p)
    BY <2>3 DEF OwnStage
  <2>6. Goes(p)
    BY <1>4, <2>3, <2>4, <2>5 DEF Goes
  <2> QED
    BY <1>3, <2>6
<1>9. CASE Merge(g)
  <2>1. PICK p \in {[gate[g] EXCEPT !.pc = "writing", !.writes = "tmp",
                                    !.merged = UNION {disk[f] : f \in gate[g].listed \cap DOMAIN disk}]} : TRUE
    OBVIOUS
  <2>2. gate[g].pc = "merging" /\ DOMAIN disk \subseteq gate[g].listed
    BY <1>1, <1>9 DEF Merge, OwnStage
  <2>3. gate[g].listed \cap DOMAIN disk = DOMAIN disk
    BY <2>2
  <2>4. UNION {disk[f] : f \in gate[g].listed \cap DOMAIN disk} = LoadDiskCache
    BY <2>3 DEF LoadDiskCache
  <2>5. LoadDiskCache \subseteq TrueEntries
    BY Readable DEF GateInv
  <2>6. p = [gate[g] EXCEPT !.pc = "writing", !.writes = "tmp", !.merged = LoadDiskCache]
    BY <2>1, <2>4
  <2>7. p \in Parent /\ p.pc = "writing" /\ p.writes = "tmp" /\ p.merged = LoadDiskCache
    BY <1>1, <2>5, <2>6 DEF Parent
  <2>8. Alone(g, p) /\ UNCHANGED disk
    BY <1>9, <2>1 DEF Merge, Alone
  <2>9. LoadDiskCache' = LoadDiskCache
    BY <2>8 DEF LoadDiskCache
  <2>10. Goes(p)
    BY <2>7, <2>8, <2>9 DEF Goes, OwnStage, Kept
  <2> QED
    BY <1>3, <2>10
<1>10. CASE DumpMerged(g)
  <2>1. PICK p \in {[gate[g] EXCEPT !.pc = "replacing", !.writes = "none"]} : TRUE
    OBVIOUS
  <2>2. gate[g].pc = "writing" /\ gate[g].writes = "tmp" /\ gate[g].merged = LoadDiskCache
    BY <1>1, <1>10 DEF DumpMerged, OwnStage, Parent
  <2>3. p \in Parent /\ p.pc = "replacing" /\ p.writes = "none" /\ p.merged = LoadDiskCache
    BY <1>1, <2>1, <2>2 DEF Parent
  <2>4. \A o \in Gates \ {g} : gate[o].writes = "none"
    BY <1>2, QuietStage DEF OthersQuiet
  <2>5. Alone(g, p)
    BY <1>10, <2>1 DEF DumpMerged, Alone
  <2>6. tmp' = <<LoadDiskCache>> /\ UNCHANGED disk
    BY <1>10, <2>2, <2>4 DEF DumpMerged
  <2>7. LoadDiskCache' = LoadDiskCache
    BY <2>6 DEF LoadDiskCache
  <2>8. Goes(p)
    BY <2>3, <2>5, <2>6, <2>7 DEF Goes, OwnStage, Kept
  <2> QED
    BY <1>3, <2>8
<1>11. CASE ReplaceCache(g)
  <2>1. PICK p \in {[gate[g] EXCEPT !.pc = "unlinking"]} : TRUE
    OBVIOUS
  <2>2. gate[g].pc = "replacing" /\ tmp = <<LoadDiskCache>>
    BY <1>1, <1>11 DEF ReplaceCache, OwnStage
  <2>3. p \in Parent /\ p.pc = "unlinking" /\ p.writes = "none"
    BY <1>1, <1>6, <2>1, <2>2 DEF Parent
  <2>4. tmp # <<>> /\ tmp[1] = LoadDiskCache
    BY <2>2
  <2>5. \A o \in Gates \ {g} : gate[o].writes = "none"
    BY <1>2, QuietStage DEF OthersQuiet
  <2>6. /\ disk' = WithFile(CacheFile, LoadDiskCache) /\ UNCHANGED <<tree, worker>>
        /\ gate' = [o \in Gates |-> IF o = g THEN p ELSE IF gate[o].writes = "tmp"
                                    THEN [gate[o] EXCEPT !.writes = "cache"] ELSE gate[o]]
    BY <1>11, <2>1, <2>4 DEF ReplaceCache
  <2>7. gate' = [o \in Gates |-> IF o = g THEN p ELSE gate[o]]
    BY <2>5, <2>6
  <2>8. gate' = [gate EXCEPT ![g] = p]
    BY <2>7 DEF GateInv, GateTypes
  <2>9. /\ CacheFile \in DOMAIN disk' /\ disk'[CacheFile] = LoadDiskCache
        /\ DOMAIN disk' \subseteq DOMAIN disk \cup {CacheFile}
        /\ \A f \in DOMAIN disk' : f # CacheFile => f \in DOMAIN disk /\ disk'[f] = disk[f]
    BY <2>6 DEF WithFile
  <2>10. \A f \in DOMAIN disk : disk[f] \subseteq LoadDiskCache
    BY DEF LoadDiskCache
  <2>11. \A f \in DOMAIN disk' : disk'[f] \subseteq LoadDiskCache
    BY <2>9, <2>10
  <2>12. LoadDiskCache' \subseteq LoadDiskCache /\ Kept
    BY <2>9, <2>11 DEF LoadDiskCache, Kept
  <2>13. Goes(p)
    BY <2>3, <2>6, <2>8, <2>9, <2>12 DEF Goes, OwnStage, Alone
  <2> QED
    BY <1>3, <2>13
<1>12. CASE UnlinkDeltas(g)
  <2>1. PICK p \in {[gate[g] EXCEPT !.pc = "summing"]} : TRUE
    OBVIOUS
  <2>2. gate[g].pc = "unlinking" /\ CacheFile \in DOMAIN disk /\ LoadDiskCache \subseteq disk[CacheFile]
    BY <1>1, <1>12 DEF UnlinkDeltas, OwnStage
  <2>3. p \in Parent /\ p.pc = "summing" /\ p.writes = "none"
    BY <1>1, <1>6, <2>1, <2>2 DEF Parent
  <2>4. Alone(g, p) /\ disk' = [f \in DOMAIN disk \ (gate[g].listed \ {CacheFile}) |-> disk[f]]
    BY <1>12, <2>1 DEF UnlinkDeltas, Alone
  <2>5. /\ DOMAIN disk' \subseteq DOMAIN disk /\ CacheFile \in DOMAIN disk'
        /\ disk'[CacheFile] = disk[CacheFile]
    BY <2>2, <2>4
  <2>6. Kept
    BY <2>2, <2>5 DEF Kept, LoadDiskCache
  <2>7. Goes(p)
    BY <1>5, <2>3, <2>4, <2>5, <2>6 DEF Goes
  <2> QED
    BY <1>3, <2>7
<1>13. CASE Report(g)
  <2> DEFINE bad == \E j \in Jobs : worker[g][j].pc = "dead" \/ worker[g][j].div # 0
  <2>1. PICK p \in {[gate[g] EXCEPT !.pc = "finished", !.divergences = Summed(g), !.failed = bad]} : TRUE
    OBVIOUS
  <2>2. gate[g].pc = "summing" /\ Summed(g) \in Nat /\ bad \in BOOLEAN
    BY <1>13, SummedIs DEF Report, GateInv
  <2>3. Alone(g, p) /\ UNCHANGED <<disk, tmp>>
    BY <1>13, <2>1 DEF Report, Alone
  <2> HIDE DEF bad
  <2>4. p \in Parent /\ p.pc = "finished" /\ p.writes = "none"
    BY <1>1, <1>6, <2>1, <2>2 DEF Parent
  <2>5. Goes(p)
    BY <1>5, <2>3, <2>4 DEF Goes, Kept, LoadDiskCache
  <2> QED
    BY <1>3, <2>5
<1>14. CASE KillParent(g)
  <2>1. PICK p \in {[gate[g] EXCEPT !.pc = "killed", !.writes = "none"]} : TRUE
    OBVIOUS
  <2>2. p \in Parent /\ p.pc = "killed" /\ p.writes = "none"
    BY <1>1, <2>1 DEF Parent
  <2>3. Alone(g, p) /\ UNCHANGED <<disk, tmp>>
    BY <1>14, <2>1 DEF KillParent, Alone
  <2>4. Goes(p)
    BY <1>5, <2>2, <2>3 DEF Goes, Kept, LoadDiskCache
  <2> QED
    BY <1>3, <2>4
<1> QED
  BY <1>7, <1>8, <1>9, <1>10, <1>11, <1>12, <1>13, <1>14 DEF ParentStep

LEMMA InitOne == Init => OneGate
<1> SUFFICES ASSUME Init PROVE OneGate
  OBVIOUS
<1>1. \A g \in Gates : gate[g].pc = "idle" /\ gate[g].writes = "none" /\ Running(g) = {}
  BY DEF Init, IdleParent, Fresh, Running
<1>2. DOMAIN disk = {}
  BY DEF Init
<1> QED
  BY <1>1, <1>2 DEF OneGate, Quiet, Active

LEMMA OneGateStep ==
  ASSUME GateInv, OneGate, ~Overlapping, Next \/ UNCHANGED vars
  PROVE  OneGate' /\ Kept
<1>1. CASE GateNext
  <2>1. CASE \E g \in Gates : StartGate(g) \/ ParentStep(g) \/ KillParent(g)
    BY <2>1, ParentKeepsOne
  <2>2. CASE \E g \in Gates, j \in Jobs : WorkerStep(g, j) \/ KillWorker(g, j)
    BY <2>2, WorkerKeepsOne
  <2> QED
    BY <1>1, <2>1, <2>2 DEF GateNext
<1>2. CASE EditTree \/ UNCHANGED vars
  <2>1. UNCHANGED <<disk, tmp, worker, gate>>
    BY <1>2 DEF EditTree, vars
  <2>2. \A g \in Gates : Quiet(g)' = Quiet(g)
    BY <2>1 DEF Quiet, Active, Running
  <2>3. LoadDiskCache' = LoadDiskCache
    BY <2>1 DEF LoadDiskCache
  <2> QED
    BY <2>1, <2>2, <2>3 DEF OneGate, Kept
<1> QED
  BY <1>1, <1>2 DEF Next

\* "Merge all cache files into one canonical cache.json and delete the per-process delta
\* files" (differential.py:852, _consolidate_disk_cache): as long as gates follow one another
\* no step of any process, and no death of one between two of them, takes a verdict out of
\* the cache directory.
THEOREM NoVerdictIsLost ==
  ASSUME ~EditWhileGrading, ~Overlapping
  PROVE  ReleaseSpec => VerdictsAreKept
<1> DEFINE One == part = "gate" => OneGate
<1>1. ReleaseInit => One
  BY InitOne DEF ReleaseInit
<1>2. GatePart /\ One /\ [ReleaseNext]_allVars => One' /\ [part = "gate" => Kept]_allVars
  <2> SUFFICES ASSUME GatePart, One, [ReleaseNext]_allVars
               PROVE  (part' = "gate" => OneGate') /\ (part = "gate" => Kept)
    OBVIOUS
  <2>1. part' = part /\ (part = "gate" => Next \/ UNCHANGED vars)
    BY DEF ReleaseNext, GateStep, LiveStep, ArtifactsStep, allVars, gateOnly, vars
  <2> QED
    BY <2>1, OneGateStep DEF GatePart
<1>3. [part = "gate" => Kept]_allVars
        => [part = "gate" => LoadDiskCache \subseteq LoadDiskCache']_allVars
  BY DEF Kept
<1> QED
  BY <1>1, <1>2, <1>3, ReleaseInv, PTL DEF ReleaseSpec, VerdictsAreKept

-----------------------------------------------------------------------------
(***************************************************************************)
(* The check of the served site.                                           *)
(***************************************************************************)
IsRow(s) == Len(s) \in Nat /\ s = [i \in 1 .. Len(s) |-> s[i]]

\* The phases that compare a file with the committed one, byte for byte or by its digest.
Decides(phase, p) ==
  \/ phase = "bytes" /\ p \in Range(SitePages) \cup {"sitemap"}
  \/ phase = "card" /\ p = "card"
  \/ phase = "manifest" /\ p = "manifest"
  \/ phase = "engine" /\ p \in Range(SiteEngine)

\* What the server has is the committed file or an older one, and of a file that was right
\* from the start the committed one.
ServedInv ==
  /\ live = [p \in Live!Paths |-> live[p]]
  /\ \A p \in Live!Paths : live[p] \in SiteStale[p] \cup {Live!Gone, SiteCommitted[p]}
  /\ \A p \in Live!Paths \ wrong : live[p] = SiteCommitted[p]

\* The GETs of the script, each of a path of the tree.
Scripted(entry) ==
  \/ \E p \in Live!Paths : entry = <<"spot", p>>
  \/ entry = <<"sitemap", "sitemap">>
  \/ \E p \in Range(SitePages) \ SiteRulePages : entry = <<"share", p>> /\ <<"", p>> \in Live!CommittedLocs
  \/ \E p \in SiteRulePages : entry = <<"noindex", p>> /\ SiteCommitted[p].noindex
  \/ \E p \in SiteRulePages : entry = <<"indexable", p>> /\ ~SiteCommitted[p].noindex
  \/ entry = <<"home", SitePages[1]>>
  \/ \E phase \in {"bytes", "card", "manifest", "engine"}, p \in Live!Paths :
       entry = <<phase, p>> /\ Decides(phase, p)

\* A GET that is to be done is of the script, or of a URL that the live sitemap names.
Planned(entry) ==
  \/ Scripted(entry)
  \/ /\ entry = <<"loc", entry[2]>>
     /\ entry[2] \in Live!Paths \/ "sitemap" \in wrong

ManifestFirst(s) == \A i, k \in 1 .. Len(s) : i < k /\ s[i][1] = "engine" => s[k][1] # "manifest"

TodoInv ==
  /\ IsRow(todo)
  /\ \A i \in 1 .. Len(todo) : Planned(todo[i])
  /\ ManifestFirst(todo)

\* The engine's digests are the committed ones, or will be compared with them.
DigestInv ==
  /\ findings = {} =>
       manifest = SiteCommitted["manifest"] \/ <<"manifest", "manifest">> \in ToSet(todo)
  /\ "manifest" \notin wrong => manifest \in {Live!NoManifest, SiteCommitted["manifest"]}

\* A file that is not the committed one is still to be compared.
PendingInv ==
  findings = {} =>
    \A p \in Live!Paths :
      live[p] # SiteCommitted[p] =>
        \E phase \in {"bytes", "card", "manifest", "engine"} :
          Decides(phase, p) /\ <<phase, p>> \in ToSet(todo)

ResultInv == result = "pass" => todo = <<>> /\ findings = {}

LiveInv ==
  ServedInv /\ TodoInv /\ DigestInv /\ PendingInv /\ ResultInv /\ Live!FindingIsReal

LivePart == part = "live" => LiveInv
-----------------------------------------------------------------------------
LEMMA RowFacts ==
  ASSUME NEW s, IsRow(s)
  PROVE  /\ Len(s) \in Nat /\ DOMAIN s = 1 .. Len(s) /\ s \in Seq(ToSet(s))
         /\ \A i \in 1 .. Len(s) : s[i] \in ToSet(s)
         /\ \A x \in ToSet(s) : \E i \in 1 .. Len(s) : s[i] = x
<1>1. Len(s) \in Nat /\ DOMAIN s = 1 .. Len(s)
  BY DEF IsRow
<1>2. /\ \A i \in 1 .. Len(s) : s[i] \in ToSet(s)
      /\ \A x \in ToSet(s) : \E i \in 1 .. Len(s) : s[i] = x
  BY <1>1 DEF ToSet
<1>3. s \in [1 .. Len(s) -> ToSet(s)]
  <2> DEFINE n == Len(s)
  <2>1. s = [i \in 1 .. n |-> s[i]]
    BY DEF IsRow
  <2> HIDE DEF n
  <2> QED
    BY <1>2, <2>1 DEF n
<1>4. s \in Seq(ToSet(s))
  BY <1>1, <1>3
<1> QED
  BY <1>1, <1>2, <1>4

LEMMA RowBy ==
  ASSUME NEW n \in Nat, NEW s, s = [i \in 1 .. n |-> s[i]]
  PROVE  IsRow(s) /\ Len(s) = n /\ ToSet(s) = {s[i] : i \in 1 .. n}
<1> DEFINE S == {s[i] : i \in 1 .. n}
<1>1. s \in [1 .. n -> S]
  <2> QED
    OBVIOUS
<1>2. s \in Seq(S) /\ Len(s) = n
  <2> HIDE DEF S
  <2> QED
    BY <1>1
<1>3. DOMAIN s = 1 .. n
  BY <1>1
<1> QED
  BY <1>2, <1>3 DEF IsRow, ToSet

\* One row after another.
LEMMA CatFacts ==
  ASSUME NEW s, NEW t, IsRow(s), IsRow(t)
  PROVE  /\ IsRow(s \o t) /\ Len(s \o t) = Len(s) + Len(t)
         /\ ToSet(s \o t) = ToSet(s) \cup ToSet(t)
         /\ \A i \in 1 .. Len(s) : (s \o t)[i] = s[i]
         /\ \A i \in Len(s) + 1 .. Len(s) + Len(t) : (s \o t)[i] = t[i - Len(s)]
<1> DEFINE S == ToSet(s) \cup ToSet(t)
           r == s \o t
<1>1. s \in Seq(S) /\ t \in Seq(S)
  <2>1. s \in Seq(ToSet(s)) /\ t \in Seq(ToSet(t))
    BY RowFacts
  <2>2. \A A, B : A \subseteq B => Seq(A) \subseteq Seq(B)
    OBVIOUS
  <2> QED
    BY <2>1, <2>2
<1>2. Len(s) \in Nat /\ Len(t) \in Nat
  BY RowFacts
<1>3. /\ r \in Seq(S) /\ Len(r) = Len(s) + Len(t) /\ DOMAIN r = 1 .. Len(s) + Len(t)
      /\ \A i \in 1 .. Len(s) : r[i] = s[i]
      /\ \A i \in Len(s) + 1 .. Len(s) + Len(t) : r[i] = t[i - Len(s)]
  <2> HIDE DEF S
  <2> QED
    BY <1>1, <1>2
<1>4. r = [i \in 1 .. Len(r) |-> r[i]]
  <2> HIDE DEF S, r
  <2> QED
    BY <1>3
<1>5. IsRow(r)
  BY <1>2, <1>3, <1>4 DEF IsRow
<1>6. ASSUME NEW x \in ToSet(s) PROVE x \in ToSet(r)
  <2>1. PICK i \in 1 .. Len(s) : s[i] = x
    BY RowFacts
  <2>2. i \in DOMAIN r /\ r[i] = x
    BY <1>2, <1>3, <2>1
  <2> QED
    BY <2>2 DEF ToSet
<1>7. ASSUME NEW x \in ToSet(t) PROVE x \in ToSet(r)
  <2>1. PICK i \in 1 .. Len(t) : t[i] = x
    BY RowFacts
  <2>2. i + Len(s) \in Len(s) + 1 .. Len(s) + Len(t) /\ (i + Len(s)) - Len(s) = i
    BY <1>2
  <2>3. i + Len(s) \in DOMAIN r /\ r[i + Len(s)] = x
    BY <1>2, <1>3, <2>1, <2>2
  <2> QED
    BY <2>3 DEF ToSet
<1>8. ASSUME NEW x \in ToSet(r) PROVE x \in S
  <2>1. PICK i \in 1 .. Len(s) + Len(t) : r[i] = x
    BY <1>3 DEF ToSet
  <2>2. CASE i <= Len(s)
    BY <1>2, <1>3, <2>1, <2>2, RowFacts
  <2>3. CASE i > Len(s)
    <3>1. i - Len(s) \in 1 .. Len(t) /\ i \in Len(s) + 1 .. Len(s) + Len(t)
      BY <1>2, <2>1, <2>3
    <3> QED
      BY <1>3, <2>1, <3>1, RowFacts
  <2> QED
    BY <1>2, <2>1, <2>2, <2>3
<1> QED
  BY <1>3, <1>5, <1>6, <1>7, <1>8

LEMMA EachFacts ==
  ASSUME NEW phase, NEW s, IsRow(s)
  PROVE  IsRow(Live!Each(phase, s)) /\ ToSet(Live!Each(phase, s)) = {<<phase, x>> : x \in ToSet(s)}
<1> DEFINE e == Live!Each(phase, s)
           n == Len(s)
<1>1. DOMAIN s = 1 .. n /\ n \in Nat
  BY RowFacts
<1>2. e = [i \in 1 .. n |-> <<phase, s[i]>>]
  BY <1>1 DEF Live!Each
<1> HIDE DEF e, n
<1>3. e = [i \in 1 .. n |-> e[i]] /\ \A i \in 1 .. n : e[i] = <<phase, s[i]>>
  BY <1>2
<1>4. IsRow(e) /\ ToSet(e) = {e[i] : i \in 1 .. n}
  BY <1>1, <1>3, RowBy
<1>5. ToSet(s) = {s[i] : i \in 1 .. n}
  BY <1>1 DEF ToSet
<1>6. {e[i] : i \in 1 .. n} = {<<phase, x>> : x \in {s[i] : i \in 1 .. n}}
  BY <1>3
<1>7. ToSet(e) = {<<phase, x>> : x \in ToSet(s)}
  BY <1>4, <1>5, <1>6, Zenon
<1> QED
  BY <1>4, <1>7 DEF e

LEMMA OneFacts ==
  ASSUME NEW x
  PROVE  IsRow(<<x>>) /\ ToSet(<<x>>) = {x}
<1>1. <<x>> = [i \in 1 .. 1 |-> <<x>>[i]] /\ <<x>>[1] = x
  OBVIOUS
<1>2. IsRow(<<x>>) /\ ToSet(<<x>>) = {<<x>>[i] : i \in 1 .. 1}
  BY <1>1, RowBy
<1>3. {<<x>>[i] : i \in 1 .. 1} = {x}
  BY <1>1
<1> QED
  BY <1>2, <1>3

\* The chosen pages are pages of the class.
LEMMA PagesInFacts ==
  ASSUME NEW class
  PROVE  IsRow(Live!PagesIn(class)) /\ ToSet(Live!PagesIn(class)) \subseteq class \cap Range(SitePages)
<1> DEFINE N == Len(SitePages)
           P == class \cap Range(SitePages)
           S == Seq(P)
           Body(f) == [n \in 0 .. N |->
                         IF n = 0 THEN <<>>
                         ELSE IF SitePages[n] \in class THEN Append(f[n - 1], SitePages[n]) ELSE f[n - 1]]
           picked == CHOOSE f : f = Body(f)
           step == [q \in S \X (1 .. N) |->
                      IF SitePages[q[2]] \in class THEN Append(q[1], SitePages[q[2]]) ELSE q[1]]
<1>1. N \in Nat /\ DOMAIN SitePages = 1 .. N /\ \A n \in 1 .. N : SitePages[n] \in Range(SitePages)
  BY SiteParts DEF Range
<1>2. <<>> \in S
  OBVIOUS
<1>3. \A n \in 1 .. N : SitePages[n] \in class => SitePages[n] \in P
  BY <1>1
<1>4. step \in [S \X (1 .. N) -> S]
  <2> SUFFICES ASSUME NEW q \in S \X (1 .. N)
               PROVE  (IF SitePages[q[2]] \in class THEN Append(q[1], SitePages[q[2]]) ELSE q[1]) \in S
    OBVIOUS
  <2>1. q[1] \in Seq(P) /\ q[2] \in 1 .. N
    OBVIOUS
  <2>2. CASE SitePages[q[2]] \in class
    <3>1. SitePages[q[2]] \in P
      BY <1>3, <2>1, <2>2
    <3> HIDE DEF P
    <3> QED
      BY <2>1, <2>2, <3>1
  <2> HIDE DEF P
  <2> QED
    BY <2>1, <2>2
<1>5. PICK f : IsLoop(f, N, S, <<>>, step)
  <2> HIDE DEF N, S, step
  <2> QED
    BY <1>1, <1>2, <1>4, LoopExists
<1>6. f = Body(f)
  <2>1. f \in [0 .. N -> S] /\ f[0] = <<>> /\ \A n \in 1 .. N : f[n] = step[<<f[n - 1], n>>]
    BY <1>5 DEF IsLoop
  <2>2. \A n \in 0 .. N : f[n] = Body(f)[n]
    <3> SUFFICES ASSUME NEW n \in 0 .. N, n # 0 PROVE f[n] = Body(f)[n]
      BY <2>1
    <3>1. n \in 1 .. N /\ n - 1 \in 0 .. N
      BY <1>1
    <3>2. f[n - 1] \in S
      BY <2>1, <3>1
    <3>3. <<f[n - 1], n>> \in S \X (1 .. N)
      BY <3>1, <3>2
    <3>4. f[n] = IF SitePages[n] \in class THEN Append(f[n - 1], SitePages[n]) ELSE f[n - 1]
      BY <2>1, <3>1, <3>3
    <3> QED
      BY <3>1, <3>4
  <2>3. f = [n \in 0 .. N |-> f[n]] /\ Body(f) = [n \in 0 .. N |-> Body(f)[n]]
    BY <2>1
  <2> HIDE DEF Body
  <2> QED
    BY <2>2, <2>3
<1>7. picked = Body(picked)
  <2> HIDE DEF Body
  <2> QED
    BY <1>6, Zenon
<1> HIDE DEF picked
<1>8. \A n \in 0 .. N : picked[n] \in S
  <2> DEFINE T == {n \in 0 .. N : picked[n] \in S}
  <2>1. 0 \in T
    <3>1. 0 \in 0 .. N /\ picked[0] = <<>>
      BY <1>1, <1>7
    <3> QED
      BY <1>2, <3>1
  <2>2. ASSUME NEW n \in 1 .. N, n - 1 \in T PROVE n \in T
    <3>1. n \in 0 .. N /\ n # 0
      BY <1>1
    <3>2. picked[n] = IF SitePages[n] \in class THEN Append(picked[n - 1], SitePages[n])
                      ELSE picked[n - 1]
      BY <1>7, <3>1
    <3>3. picked[n - 1] \in Seq(P)
      BY <2>2
    <3>4. CASE SitePages[n] \in class
      <4>1. SitePages[n] \in P
        BY <1>3, <3>4
      <4> HIDE DEF P
      <4>2. Append(picked[n - 1], SitePages[n]) \in Seq(P)
        BY <3>3, <4>1
      <4> QED
        BY <3>1, <3>2, <3>4, <4>2
    <3> QED
      BY <3>1, <3>2, <3>3, <3>4
  <2>3. \A n \in 0 .. N : n \in T
    <3> HIDE DEF T, N
    <3> QED
      BY <1>1, <2>1, <2>2, IntervalInduction
  <2> QED
    BY <2>3
<1>9. Live!PagesIn(class) = picked[N]
  BY DEF Live!PagesIn, picked
<1>10. picked[N] \in Seq(P)
  BY <1>1, <1>8
<1> HIDE DEF P
<1>11. IsRow(picked[N]) /\ ToSet(picked[N]) \subseteq P
  BY <1>10 DEF IsRow, ToSet
<1> QED
  BY <1>9, <1>11 DEF P

\* items[::step][:n] holds items only.
LEMMA StrideFacts ==
  ASSUME NEW items, Len(items) \in Nat, NEW n \in Nat \ {0}
  PROVE  /\ IsRow(Live!StrideSample(items, n))
         /\ \A x \in ToSet(Live!StrideSample(items, n)) : \E k \in 1 .. Len(items) : x = items[k]
<1> DEFINE L == Len(items)
           each == IF L \div n > 1 THEN L \div n ELSE 1
           whole == (L + each - 1) \div each
           m == IF whole < n THEN whole ELSE n
           s == Live!StrideSample(items, n)
<1>1. each \in Nat \ {0}
  <2>1. L \div n \in Int
    OBVIOUS
  <2> QED
    BY <2>1
<1>2. s = [i \in 1 .. m |-> items[1 + ((i - 1) * each)]]
  BY DEF Live!StrideSample
<1> HIDE DEF each, s
<1>3. whole \in Nat /\ whole * each <= L + each - 1
  <2>1. L + each - 1 \in Nat
    BY <1>1
  <2> DEFINE a == L + each - 1
  <2> HIDE DEF a
  <2>2. a \in Nat /\ a \div each \in Nat /\ (a \div each) * each <= a
    BY <1>1, <2>1 DEF a
  <2> QED
    BY <2>2 DEF a
<1> HIDE DEF whole
<1>4. m \in Nat /\ m <= whole
  BY <1>3
<1> HIDE DEF m
<1>5. ASSUME NEW i \in 1 .. m PROVE 1 + ((i - 1) * each) \in 1 .. L
  <2>1. i \in Nat /\ 1 <= i /\ i <= whole
    BY <1>3, <1>4
  <2>2. (i - 1) * each \in Nat /\ (i - 1) * each <= (whole - 1) * each
    BY <1>1, <1>3, <2>1
  <2>3. (whole - 1) * each = whole * each - each
    BY <1>1, <1>3
  <2>4. (whole * each) \in Nat
    BY <1>1, <1>3
  <2> DEFINE u == (i - 1) * each
             v == whole * each
             w == (whole - 1) * each
  <2>5. u \in Nat /\ v \in Nat /\ u <= w /\ w = v - each /\ v <= L + each - 1
    BY <1>3, <2>2, <2>3, <2>4
  <2> HIDE DEF u, v, w
  <2>6. 1 + u \in 1 .. L
    BY <1>1, <2>5
  <2> QED
    BY <2>6 DEF u
<1>6. s = [i \in 1 .. m |-> s[i]] /\ \A i \in 1 .. m : s[i] = items[1 + ((i - 1) * each)]
  BY <1>2
<1>7. IsRow(s) /\ ToSet(s) = {s[i] : i \in 1 .. m}
  BY <1>4, <1>6, RowBy
<1> QED
  BY <1>5, <1>6, <1>7 DEF s

\* The script asks for files of the tree, for the engine after its manifest.
LEMMA ScriptFacts ==
  /\ IsRow(Live!Script) /\ ManifestFirst(Live!Script)
  /\ \A e \in ToSet(Live!Script) : Scripted(e)
  /\ \A p \in Live!Paths :
       \E phase \in {"bytes", "card", "manifest", "engine"} :
         Decides(phase, p) /\ <<phase, p>> \in ToSet(Live!Script)
  /\ <<"manifest", "manifest">> \in ToSet(Live!Script)
<1> DEFINE map == <<"sitemap">>
           pages == SitePages \o map
           noindex == Live!StrideSample(Live!Noindex, SiteRobotsSample)
           indexable == Live!StrideSample(Live!Indexable, SiteRobotsSample)
           p1 == Live!Each("spot", pages)
           p2 == <<<<"sitemap", "sitemap">>>>
           p3 == Live!Each("share", Live!SurfacePages)
           p4 == Live!Each("noindex", noindex)
           p5 == Live!Each("indexable", indexable)
           p6 == <<<<"home", SitePages[1]>>>>
           p7 == Live!Each("bytes", pages)
           p8 == <<<<"card", "card">>>>
           p9 == <<<<"manifest", "manifest">>>>
           p10 == Live!Each("engine", SiteEngine)
           r8 == p1 \o p2 \o p3 \o p4 \o p5 \o p6 \o p7 \o p8
           r9 == r8 \o p9
<1>1. IsRow(SitePages) /\ IsRow(SiteEngine) /\ ToSet(SitePages) = Range(SitePages)
      /\ ToSet(SiteEngine) = Range(SiteEngine)
  <2>1. SitePages \in Seq(DOMAIN SiteCommitted) /\ SiteEngine \in Seq(DOMAIN SiteCommitted)
    BY SiteParts
  <2> QED
    BY <2>1 DEF IsRow, ToSet, Range
<1>2. IsRow(pages) /\ ToSet(pages) = Range(SitePages) \cup {"sitemap"}
  BY <1>1, OneFacts, CatFacts
<1>3. IsRow(Live!SurfacePages)
      /\ \A p \in ToSet(Live!SurfacePages) :
           p \in Range(SitePages) \ SiteRulePages /\ <<"", p>> \in Live!CommittedLocs
  <2> DEFINE class == {p \in Live!Paths \ SiteRulePages : <<"", p>> \in Live!CommittedLocs}
  <2>1. Live!SurfacePages = Live!PagesIn(class)
    BY DEF Live!SurfacePages
  <2>2. IsRow(Live!PagesIn(class)) /\ ToSet(Live!PagesIn(class)) \subseteq class \cap Range(SitePages)
    BY PagesInFacts
  <2> QED
    BY <2>1, <2>2
<1>4. IsRow(Live!Noindex) /\ IsRow(Live!Indexable)
      /\ (\A p \in ToSet(Live!Noindex) : p \in SiteRulePages /\ SiteCommitted[p].noindex)
      /\ (\A p \in ToSet(Live!Indexable) : p \in SiteRulePages /\ ~SiteCommitted[p].noindex)
  BY PagesInFacts DEF Live!Noindex, Live!Indexable
<1>5. IsRow(noindex) /\ \A p \in ToSet(noindex) : p \in SiteRulePages /\ SiteCommitted[p].noindex
  <2>1. Len(Live!Noindex) \in Nat /\ SiteRobotsSample \in Nat \ {0}
        /\ \A k \in 1 .. Len(Live!Noindex) : Live!Noindex[k] \in ToSet(Live!Noindex)
    BY <1>4, RowFacts, SiteParts
  <2> QED
    BY <1>4, <2>1, StrideFacts
<1>6. IsRow(indexable) /\ \A p \in ToSet(indexable) : p \in SiteRulePages /\ ~SiteCommitted[p].noindex
  <2>1. Len(Live!Indexable) \in Nat /\ SiteRobotsSample \in Nat \ {0}
        /\ \A k \in 1 .. Len(Live!Indexable) : Live!Indexable[k] \in ToSet(Live!Indexable)
    BY <1>4, RowFacts, SiteParts
  <2> QED
    BY <1>4, <2>1, StrideFacts
<1>7. SitePages[1] \in Range(SitePages)
  BY SiteParts DEF Range
<1>8. Live!Paths = Range(SitePages) \cup Range(SiteEngine) \cup {"sitemap", "card", "manifest"}
  BY SiteParts DEF Live!Paths
<1> HIDE DEF pages, noindex, indexable
<1>9. IsRow(p1) /\ ToSet(p1) = {<<"spot", p>> : p \in ToSet(pages)}
  BY <1>2, EachFacts
<1>10. IsRow(p2) /\ ToSet(p2) = {<<"sitemap", "sitemap">>}
  BY OneFacts
<1>11. IsRow(p3) /\ ToSet(p3) = {<<"share", p>> : p \in ToSet(Live!SurfacePages)}
  BY <1>3, EachFacts
<1>12. IsRow(p4) /\ ToSet(p4) = {<<"noindex", p>> : p \in ToSet(noindex)}
  BY <1>5, EachFacts
<1>13. IsRow(p5) /\ ToSet(p5) = {<<"indexable", p>> : p \in ToSet(indexable)}
  BY <1>6, EachFacts
<1>14. IsRow(p6) /\ ToSet(p6) = {<<"home", SitePages[1]>>}
  BY OneFacts
<1>15. IsRow(p7) /\ ToSet(p7) = {<<"bytes", p>> : p \in ToSet(pages)}
  BY <1>2, EachFacts
<1>16. IsRow(p8) /\ ToSet(p8) = {<<"card", "card">>}
  BY OneFacts
<1>17. IsRow(p9) /\ ToSet(p9) = {<<"manifest", "manifest">>} /\ Len(p9) = 1
  BY OneFacts
<1>18. IsRow(p10) /\ ToSet(p10) = {<<"engine", n>> : n \in Range(SiteEngine)}
  BY <1>1, EachFacts
<1>19. Live!Script = r9 \o p10
  BY DEF Live!Script, Live!Home, pages, noindex, indexable
<1> HIDE DEF p1, p2, p3, p4, p5, p6, p7, p8, p9, p10
<1>20. /\ IsRow(r8)
       /\ ToSet(r8) = ToSet(p1) \cup ToSet(p2) \cup ToSet(p3) \cup ToSet(p4) \cup ToSet(p5)
                      \cup ToSet(p6) \cup ToSet(p7) \cup ToSet(p8)
  <2>2. IsRow(p1 \o p2) /\ ToSet(p1 \o p2) = ToSet(p1) \cup ToSet(p2)
    BY <1>9, <1>10, CatFacts
  <2> DEFINE q2 == p1 \o p2
  <2> HIDE DEF q2
  <2>3. IsRow(q2 \o p3) /\ ToSet(q2 \o p3) = ToSet(q2) \cup ToSet(p3)
    BY <2>2, <1>11, CatFacts DEF q2
  <2> DEFINE q3 == q2 \o p3
  <2> HIDE DEF q3
  <2>4. IsRow(q3 \o p4) /\ ToSet(q3 \o p4) = ToSet(q3) \cup ToSet(p4)
    BY <2>3, <1>12, CatFacts DEF q3
  <2> DEFINE q4 == q3 \o p4
  <2> HIDE DEF q4
  <2>5. IsRow(q4 \o p5) /\ ToSet(q4 \o p5) = ToSet(q4) \cup ToSet(p5)
    BY <2>4, <1>13, CatFacts DEF q4
  <2> DEFINE q5 == q4 \o p5
  <2> HIDE DEF q5
  <2>6. IsRow(q5 \o p6) /\ ToSet(q5 \o p6) = ToSet(q5) \cup ToSet(p6)
    BY <2>5, <1>14, CatFacts DEF q5
  <2> DEFINE q6 == q5 \o p6
  <2> HIDE DEF q6
  <2>7. IsRow(q6 \o p7) /\ ToSet(q6 \o p7) = ToSet(q6) \cup ToSet(p7)
    BY <2>6, <1>15, CatFacts DEF q6
  <2> DEFINE q7 == q6 \o p7
  <2> HIDE DEF q7
  <2>8. IsRow(q7 \o p8) /\ ToSet(q7 \o p8) = ToSet(q7) \cup ToSet(p8)
    BY <2>7, <1>16, CatFacts DEF q7
  <2>9. r8 = q7 \o p8
    BY DEF q2, q3, q4, q5, q6, q7
  <2>10. ToSet(q7) = ToSet(p1) \cup ToSet(p2) \cup ToSet(p3) \cup ToSet(p4) \cup ToSet(p5)
                     \cup ToSet(p6) \cup ToSet(p7)
    BY <2>2, <2>3, <2>4, <2>5, <2>6, <2>7, Zenon DEF q2, q3, q4, q5, q6, q7
  <2> QED
    BY <2>8, <2>9, <2>10
<1> HIDE DEF r8
<1>21. /\ IsRow(r9) /\ ToSet(r9) = ToSet(r8) \cup {<<"manifest", "manifest">>}
  BY <1>17, <1>20, CatFacts
<1> HIDE DEF r9
<1>22. /\ IsRow(Live!Script)
       /\ ToSet(Live!Script) = ToSet(r9) \cup ToSet(p10)
       /\ Len(Live!Script) = Len(r9) + Len(p10)
       /\ \A i \in 1 .. Len(r9) : Live!Script[i] = r9[i]
       /\ \A i \in Len(r9) + 1 .. Len(r9) + Len(p10) : Live!Script[i] = p10[i - Len(r9)]
  BY <1>18, <1>19, <1>21, CatFacts
<1>23. \A e \in ToSet(r9) : e[1] # "engine"
  BY <1>9, <1>10, <1>11, <1>12, <1>13, <1>14, <1>15, <1>16, <1>20, <1>21
<1>24. \A e \in ToSet(p10) : e[1] # "manifest"
  BY <1>18
<1>25. ManifestFirst(Live!Script)
  <2> SUFFICES ASSUME NEW i \in 1 .. Len(Live!Script), NEW k \in 1 .. Len(Live!Script), i < k,
                      Live!Script[i][1] = "engine"
               PROVE  Live!Script[k][1] # "manifest"
    BY DEF ManifestFirst
  <2>1. Len(r9) \in Nat /\ Len(p10) \in Nat
    BY <1>18, <1>21, RowFacts
  <2>2. i > Len(r9)
    <3> SUFFICES ASSUME i <= Len(r9) PROVE FALSE
      BY <2>1, <1>22
    <3>1. i \in 1 .. Len(r9)
      BY <2>1, <1>22
    <3>2. Live!Script[i] \in ToSet(r9)
      BY <1>21, <1>22, <3>1, RowFacts
    <3> QED
      BY <1>23, <3>2
  <2>3. k \in Len(r9) + 1 .. Len(r9) + Len(p10) /\ k - Len(r9) \in 1 .. Len(p10)
    BY <1>22, <2>1, <2>2
  <2>4. Live!Script[k] \in ToSet(p10)
    BY <1>18, <1>22, <2>3, RowFacts
  <2> QED
    BY <1>24, <2>4
<1>26. ASSUME NEW e \in ToSet(Live!Script) PROVE Scripted(e)
  <2>1. CASE e \in ToSet(p1)
    BY <1>2, <1>8, <1>9, <2>1 DEF Scripted
  <2>2. CASE e \in ToSet(p2) \cup ToSet(p6)
    BY <1>10, <1>14, <2>2 DEF Scripted
  <2>3. CASE e \in ToSet(p3)
    BY <1>3, <1>11, <2>3 DEF Scripted
  <2>4. CASE e \in ToSet(p4)
    BY <1>5, <1>12, <2>4 DEF Scripted
  <2>5. CASE e \in ToSet(p5)
    BY <1>6, <1>13, <2>5 DEF Scripted
  <2>6. CASE e \in ToSet(p7)
    <3>1. PICK p \in Range(SitePages) \cup {"sitemap"} : e = <<"bytes", p>>
      BY <1>2, <1>15, <2>6
    <3>2. p \in Live!Paths /\ Decides("bytes", p)
      BY <1>8 DEF Decides
    <3> QED
      BY <3>1, <3>2 DEF Scripted
  <2>7. CASE e \in ToSet(p8) \cup {<<"manifest", "manifest">>}
    <3>1. Decides("card", "card") /\ Decides("manifest", "manifest")
      BY DEF Decides
    <3> QED
      BY <1>8, <1>16, <2>7, <3>1 DEF Scripted
  <2>8. CASE e \in ToSet(p10)
    <3>1. PICK p \in Range(SiteEngine) : e = <<"engine", p>>
      BY <1>18, <2>8
    <3>2. p \in Live!Paths /\ Decides("engine", p)
      BY <1>8 DEF Decides
    <3> QED
      BY <3>1, <3>2 DEF Scripted
  <2> QED
    BY <1>20, <1>21, <1>22, <2>1, <2>2, <2>3, <2>4, <2>5, <2>6, <2>7, <2>8
<1>27. ASSUME NEW p \in Live!Paths
       PROVE  \E phase \in {"bytes", "card", "manifest", "engine"} :
                Decides(phase, p) /\ <<phase, p>> \in ToSet(Live!Script)
  <2>1. CASE p \in Range(SitePages) \cup {"sitemap"}
    <3>1. <<"bytes", p>> \in ToSet(p7) /\ Decides("bytes", p)
      BY <1>2, <1>15, <2>1 DEF Decides
    <3> QED
      BY <1>20, <1>21, <1>22, <3>1
  <2>2. CASE p = "card"
    BY <1>16, <1>20, <1>21, <1>22, <2>2 DEF Decides
  <2>3. CASE p = "manifest"
    BY <1>21, <1>22, <2>3 DEF Decides
  <2>4. CASE p \in Range(SiteEngine)
    <3>1. <<"engine", p>> \in ToSet(p10) /\ Decides("engine", p)
      BY <1>18, <2>4 DEF Decides
    <3> QED
      BY <1>22, <3>1
  <2> QED
    BY <1>8, <2>1, <2>2, <2>3, <2>4
<1> QED
  BY <1>21, <1>22, <1>25, <1>26, <1>27

LEMMA RowTail ==
  ASSUME NEW s, IsRow(s), s # <<>>
  PROVE  /\ IsRow(Tail(s)) /\ Len(Tail(s)) = Len(s) - 1 /\ Head(s) = s[1] /\ 1 \in 1 .. Len(s)
         /\ \A i \in 1 .. Len(s) - 1 : Tail(s)[i] = s[i + 1]
         /\ s[1] \in ToSet(s) /\ ToSet(s) = {s[1]} \cup ToSet(Tail(s))
         /\ ManifestFirst(s) => ManifestFirst(Tail(s))
<1> DEFINE S == ToSet(s)
           t == Tail(s)
           n == Len(s)
<1>1. s \in Seq(S) /\ n \in Nat /\ DOMAIN s = 1 .. n
  BY RowFacts
<1> HIDE DEF S
<1>2. /\ n \in Nat \ {0} /\ t \in Seq(S) /\ Len(t) = n - 1 /\ Head(s) = s[1] /\ DOMAIN t = 1 .. n - 1
      /\ \A i \in 1 .. n - 1 : t[i] = s[i + 1]
  BY <1>1
<1>3. IsRow(t)
  <2> HIDE DEF t, n
  <2>1. t = [i \in 1 .. n - 1 |-> t[i]] /\ n - 1 \in Nat
    BY <1>2
  <2> QED
    BY <2>1, RowBy
<1>4. 1 \in 1 .. n /\ s[1] \in S
  BY <1>2, RowFacts DEF S
<1>5. ASSUME NEW x \in S, x # s[1] PROVE x \in ToSet(t)
  <2>1. PICK i \in 1 .. n : s[i] = x
    BY <1>5, RowFacts DEF S
  <2>2. i - 1 \in 1 .. n - 1 /\ (i - 1) + 1 = i
    BY <1>2, <1>5, <2>1
  <2>3. i - 1 \in DOMAIN t /\ t[i - 1] = x
    BY <1>2, <2>1, <2>2
  <2> QED
    BY <2>3 DEF ToSet
<1>6. ASSUME NEW x \in ToSet(t) PROVE x \in S
  <2>1. PICK i \in 1 .. n - 1 : t[i] = x
    BY <1>2 DEF ToSet
  <2>2. i + 1 \in 1 .. n /\ s[i + 1] = x
    BY <1>2, <2>1
  <2> QED
    BY <2>2, RowFacts DEF S
<1>7. ASSUME ManifestFirst(s) PROVE ManifestFirst(t)
  <2> SUFFICES ASSUME NEW i \in 1 .. Len(t), NEW k \in 1 .. Len(t), i < k, t[i][1] = "engine"
               PROVE  t[k][1] # "manifest"
    BY DEF ManifestFirst
  <2>1. i + 1 \in 1 .. Len(s) /\ k + 1 \in 1 .. Len(s) /\ i + 1 < k + 1
    BY <1>2
  <2>2. t[i] = s[i + 1] /\ t[k] = s[k + 1]
    BY <1>2
  <2> QED
    BY <1>7, <2>1, <2>2 DEF ManifestFirst
<1> QED
  BY <1>2, <1>3, <1>4, <1>5, <1>6, <1>7 DEF S

\* What is planned is a phase and a path; the script asks for paths of the tree only.
LEMMA PlannedFacts ==
  ASSUME NEW e, Planned(e)
  PROVE  /\ e = <<e[1], e[2]>>
         /\ ~Scripted(e) => e[1] = "loc" /\ (e[2] \in Live!Paths \/ "sitemap" \in wrong)
         /\ Scripted(e) => e[2] \in Live!Paths
         /\ e[1] = "sitemap" => e[2] = "sitemap"
         /\ e[1] = "manifest" => e[2] = "manifest"
         /\ e[1] \in {"bytes", "card", "manifest", "engine"} => Decides(e[1], e[2])
<1>1. /\ \A p \in Range(SitePages) : p \in Live!Paths
      /\ \A p \in SiteRulePages : p \in Live!Paths
      /\ "sitemap" \in Live!Paths
      /\ SitePages[1] \in Live!Paths
  BY SiteParts DEF Live!Paths, Range
<1>2. CASE ~Scripted(e)
  BY <1>2 DEF Planned
<1>3. ASSUME Scripted(e)
      PROVE  /\ e = <<e[1], e[2]>> /\ e[2] \in Live!Paths
             /\ e[1] = "sitemap" => e[2] = "sitemap"
             /\ e[1] = "manifest" => e[2] = "manifest"
             /\ e[1] \in {"bytes", "card", "manifest", "engine"} => Decides(e[1], e[2])
  <2>1. CASE \E p \in Live!Paths : e = <<"spot", p>>
    BY <2>1
  <2>2. CASE e = <<"sitemap", "sitemap">> \/ e = <<"home", SitePages[1]>>
    BY <1>1, <2>2
  <2>3. CASE \E p \in Range(SitePages) \ SiteRulePages : e = <<"share", p>>
    BY <1>1, <2>3
  <2>4. CASE \E p \in SiteRulePages : e = <<"noindex", p>> \/ e = <<"indexable", p>>
    BY <1>1, <2>4
  <2>5. CASE \E phase \in {"bytes", "card", "manifest", "engine"}, p \in Live!Paths :
               e = <<phase, p>> /\ Decides(phase, p)
    <3>1. PICK phase \in {"bytes", "card", "manifest", "engine"}, p \in Live!Paths :
                 e = <<phase, p>> /\ Decides(phase, p)
      BY <2>5
    <3> QED
      BY <3>1 DEF Decides
  <2> QED
    BY <1>3, <2>1, <2>2, <2>3, <2>4, <2>5 DEF Scripted
<1> QED
  BY <1>2, <1>3

\* A committed file passes every check of the script, as long as the engine manifest that was
\* read, if any, is the committed one.
LEMMA CommittedIsClean ==
  ASSUME NEW e, Scripted(e),
         e[1] = "engine" => manifest \in {Live!NoManifest, SiteCommitted["manifest"]}
  PROVE  Live!Check(e[1], e[2], SiteCommitted[e[2]]) = {}
<1>1. CASE \E p \in Live!Paths : e = <<"spot", p>>
  BY <1>1 DEF Live!Check
<1>2. CASE e = <<"sitemap", "sitemap">>
  BY <1>2, SiteIsInOrder DEF Live!Check
<1>3. CASE e = <<"home", SitePages[1]>>
  BY <1>3, SiteIsInOrder DEF Live!Check
<1>4. CASE \E p \in Range(SitePages) \ SiteRulePages :
             e = <<"share", p>> /\ <<"", p>> \in Live!CommittedLocs
  <2>1. PICK p \in Range(SitePages) \ SiteRulePages :
               e = <<"share", p>> /\ <<"", p>> \in Live!CommittedLocs
    BY <1>4
  <2>2. Live!Check("share", p, SiteCommitted[p]) = Live!ShareFindings(p, SiteCommitted[p])
    BY DEF Live!Check
  <2>3. Live!ShareFindings(p, SiteCommitted[p]) = {}
    BY <2>1, SiteIsInOrder
  <2> QED
    BY <2>1, <2>2, <2>3
<1>5. CASE \E p \in SiteRulePages : e = <<"noindex", p>> /\ SiteCommitted[p].noindex
  <2>1. PICK p \in SiteRulePages : e = <<"noindex", p>> /\ SiteCommitted[p].noindex
    BY <1>5
  <2>2. SiteCommitted[p].noindex = TRUE
    <3>1. SiteCommitted[p].noindex \in BOOLEAN
      BY SiteParts, SiteBodies
    <3> QED
      BY <2>1, <3>1
  <2>3. Live!Check("noindex", p, SiteCommitted[p]) = Live!RobotsFindings("noindex", SiteCommitted[p])
    BY DEF Live!Check
  <2>4. Live!RobotsFindings("noindex", SiteCommitted[p]) = {}
    BY <2>2 DEF Live!RobotsFindings
  <2> QED
    BY <2>1, <2>3, <2>4
<1>6. CASE \E p \in SiteRulePages : e = <<"indexable", p>> /\ ~SiteCommitted[p].noindex
  <2>1. PICK p \in SiteRulePages : e = <<"indexable", p>> /\ ~SiteCommitted[p].noindex
    BY <1>6
  <2>2. SiteCommitted[p].noindex = FALSE
    <3>1. SiteCommitted[p].noindex \in BOOLEAN
      BY SiteParts, SiteBodies
    <3> QED
      BY <2>1, <3>1
  <2>3. Live!Check("indexable", p, SiteCommitted[p]) = Live!RobotsFindings("indexable", SiteCommitted[p])
    BY DEF Live!Check
  <2>4. Live!RobotsFindings("indexable", SiteCommitted[p]) = {}
    BY <2>2 DEF Live!RobotsFindings
  <2> QED
    BY <2>1, <2>3, <2>4
<1>7. CASE \E phase \in {"bytes", "card", "manifest", "engine"}, p \in Live!Paths :
             e = <<phase, p>> /\ Decides(phase, p)
  <2>1. PICK phase \in {"bytes", "card", "manifest", "engine"}, p \in Live!Paths :
               e = <<phase, p>> /\ Decides(phase, p)
    BY <1>7
  <2>2. CASE phase \in {"bytes", "card"}
    BY <2>1, <2>2 DEF Live!Check, Live!ByteFindings
  <2>3. CASE phase = "manifest"
    <3>1. e = <<"manifest", "manifest">>
      BY <2>1, <2>3 DEF Decides
    <3>2. Live!Check("manifest", "manifest", SiteCommitted["manifest"]) =
            Live!CompareEngineManifests(SiteCommitted["manifest"], SiteCommitted["manifest"])
      BY DEF Live!Check
    <3>3. Live!CompareEngineManifests(SiteCommitted["manifest"], SiteCommitted["manifest"]) = {}
      BY DEF Live!CompareEngineManifests
    <3> QED
      BY <3>1, <3>2, <3>3
  <2>4. CASE phase = "engine"
    <3>1. e = <<"engine", p>> /\ p \in Range(SiteEngine)
      BY <2>1, <2>4 DEF Decides
    <3>2. Live!Check("engine", p, SiteCommitted[p]) = Live!EngineFindings(p, SiteCommitted[p])
      BY DEF Live!Check
    <3>3. CASE manifest = Live!NoManifest
      <4>1. DOMAIN manifest.digests = {}
        BY <3>3 DEF Live!NoManifest
      <4> QED
        BY <3>1, <3>2, <4>1 DEF Live!EngineFindings
    <3>4. CASE manifest = SiteCommitted["manifest"]
      <4>1. manifest.digests[p] = SiteCommitted[p].build
        BY <3>1, <3>4, SiteIsInOrder
      <4> QED
        BY <3>1, <3>2, <4>1 DEF Live!EngineFindings
    <3> QED
      BY <3>1, <3>3, <3>4
  <2> QED
    BY <2>1, <2>2, <2>3, <2>4
<1> QED
  BY <1>1, <1>2, <1>3, <1>4, <1>5, <1>6, <1>7 DEF Scripted

\* A manifest in which nothing differs is the committed one.
LEMMA ManifestIsRead ==
  ASSUME NEW b \in SiteStale["manifest"],
         Live!CompareEngineManifests(SiteCommitted["manifest"], b) = {}
  PROVE  b = SiteCommitted["manifest"]
<1> DEFINE c == SiteCommitted["manifest"]
<1>1. ManifestOf(b) /\ ManifestOf(c) /\ DOMAIN c.digests = c.files
  BY SiteBodies, SiteIsInOrder
<1>2. /\ c.files = b.files /\ c.version = b.version
      /\ \A n \in DOMAIN c.digests :
           n \in b.files \cup DOMAIN b.digests => n \in DOMAIN b.digests /\ b.digests[n] = c.digests[n]
  BY DEF Live!CompareEngineManifests
<1> HIDE DEF c
<1>3. DOMAIN b.digests \subseteq b.files
  BY <1>1 DEF ManifestOf
<1>4. DOMAIN b.digests = DOMAIN c.digests /\ \A n \in DOMAIN c.digests : b.digests[n] = c.digests[n]
  BY <1>1, <1>2, <1>3
<1>5. b.digests = c.digests
  <2>1. /\ b.digests = [n \in DOMAIN b.digests |-> b.digests[n]]
        /\ c.digests = [n \in DOMAIN c.digests |-> c.digests[n]]
    BY <1>1 DEF ManifestOf
  <2> DEFINE x == b.digests
             y == c.digests
  <2>2. x = [n \in DOMAIN x |-> x[n]] /\ y = [n \in DOMAIN y |-> y[n]]
        /\ DOMAIN x = DOMAIN y /\ \A n \in DOMAIN y : x[n] = y[n]
    BY <1>4, <2>1
  <2> HIDE DEF x, y
  <2>3. x = y
    BY <2>2
  <2> QED
    BY <2>3 DEF x, y
<1>6. /\ b = [version |-> b.version, files |-> b.files, digests |-> b.digests]
      /\ c = [version |-> c.version, files |-> c.files, digests |-> c.digests]
  BY <1>1 DEF ManifestOf
<1>7. b = c
  BY <1>2, <1>5, <1>6, Zenon
<1> QED
  BY <1>7 DEF c

\* A file that is not the committed one fails the check that decides about it.
LEMMA StaleIsFound ==
  ASSUME NEW p \in Live!Paths, NEW phase, Decides(phase, p), ServedInv,
         live[p] # SiteCommitted[p], live[p] # Live!Gone,
         phase = "engine" => manifest = SiteCommitted["manifest"]
  PROVE  Live!Check(phase, p, live[p]) # {}
<1>1. live[p] \in SiteStale[p]
  BY DEF ServedInv
<1>2. p # "manifest" => live[p].build # SiteCommitted[p].build
  BY <1>1, SiteBodies DEF Live!Paths
<1>3. CASE phase \in {"bytes", "card"}
  <2>1. p # "manifest"
    BY <1>3, SiteParts DEF Decides
  <2>2. Live!Check(phase, p, live[p]) = Live!ByteFindings(p, live[p])
    BY <1>3 DEF Live!Check
  <2> QED
    BY <1>2, <2>1, <2>2 DEF Live!ByteFindings
<1>4. CASE phase = "manifest"
  <2>1. p = "manifest"
    BY <1>4 DEF Decides
  <2>2. Live!Check(phase, p, live[p]) = Live!CompareEngineManifests(SiteCommitted["manifest"], live[p])
    BY <1>4, <2>1 DEF Live!Check
  <2> QED
    BY <1>1, <2>1, <2>2, ManifestIsRead
<1>5. CASE phase = "engine"
  <2>1. p \in Range(SiteEngine) /\ p # "manifest"
    BY <1>5, SiteParts DEF Decides
  <2>2. /\ p \in DOMAIN SiteCommitted["manifest"].digests
        /\ SiteCommitted["manifest"].digests[p] = SiteCommitted[p].build
    BY <2>1, SiteIsInOrder
  <2>3. Live!Check(phase, p, live[p]) = Live!EngineFindings(p, live[p])
    BY <1>5 DEF Live!Check
  <2> QED
    BY <1>2, <1>5, <2>1, <2>2, <2>3 DEF Live!EngineFindings
<1> QED
  BY <1>3, <1>4, <1>5 DEF Decides

-----------------------------------------------------------------------------
LEMMA InitSite ==
  ASSUME Live!Init
  PROVE  LiveInv
<1>1. PICK W, pick :
        /\ \A p \in W : pick[p] \in SiteStale[p] \cup {Live!Gone}
        /\ live = [p \in Live!Paths |-> IF p \in W THEN pick[p] ELSE SiteCommitted[p]]
        /\ wrong = W
  BY Zenon DEF Live!Init
<1>2. /\ todo = Live!Script /\ manifest = Live!NoManifest /\ findings = {} /\ result = "running"
  BY DEF Live!Init
<1>3. ServedInv
  BY <1>1 DEF ServedInv
<1>4. TodoInv
  <2>1. \A i \in 1 .. Len(todo) : Planned(todo[i])
    BY <1>2, ScriptFacts, RowFacts DEF Planned
  <2> QED
    BY <1>2, <2>1, ScriptFacts DEF TodoInv
<1>5. DigestInv
  BY <1>2, ScriptFacts DEF DigestInv
<1>6. PendingInv
  BY <1>2, ScriptFacts DEF PendingInv
<1>7. ResultInv /\ Live!FindingIsReal
  BY <1>2 DEF ResultInv, Live!FindingIsReal
<1> QED
  BY <1>3, <1>4, <1>5, <1>6, <1>7 DEF LiveInv

\* The GETs that are left are planned, whatever else happens to the site.
LEMMA TailKeeps ==
  ASSUME TodoInv, todo # <<>>, todo' = Tail(todo), wrong \subseteq wrong'
  PROVE  TodoInv'
<1>1. IsRow(todo) /\ (\A i \in 1 .. Len(todo) : Planned(todo[i])) /\ ManifestFirst(todo)
  BY DEF TodoInv
<1>2. /\ IsRow(todo') /\ ManifestFirst(todo') /\ Len(todo') = Len(todo) - 1 /\ Len(todo) \in Nat
      /\ \A i \in 1 .. Len(todo) - 1 : todo'[i] = todo[i + 1]
  BY <1>1, RowTail, RowFacts
<1>3. ASSUME NEW i \in 1 .. Len(todo') PROVE Planned(todo[i])'
  <2>1. i + 1 \in 1 .. Len(todo) /\ todo'[i] = todo[i + 1]
    BY <1>2
  <2>2. Planned(todo[i + 1])
    BY <1>1, <2>1
  <2> QED
    BY <2>1, <2>2 DEF Planned, Scripted, Decides
<1> QED
  BY <1>2, <1>3 DEF TodoInv

\* A GET without an answer is a finding of its own.
LEMMA NoAnswerKeeps ==
  ASSUME LiveInv, Live!NotServed \/ Live!GetFails
  PROVE  LiveInv'
<1>1. /\ todo # <<>> /\ todo' = Tail(todo) /\ result = "running" /\ UNCHANGED <<live, manifest, result>>
      /\ findings' = findings \cup {<<Head(todo)[1], Head(todo)[2], "status">>}
      /\ wrong \subseteq wrong'
  BY DEF Live!NotServed, Live!GetFails
<1>2. ServedInv'
  BY <1>1 DEF LiveInv, ServedInv, Live!Paths
<1>3. TodoInv'
  BY <1>1, TailKeeps DEF LiveInv
<1>4. findings' # {}
  BY <1>1
<1>5. DigestInv'
  BY <1>1, <1>4 DEF LiveInv, DigestInv
<1>6. PendingInv' /\ ResultInv'
  BY <1>1, <1>4 DEF PendingInv, ResultInv
<1>7. Live!FindingIsReal'
  <2>1. Head(todo) = todo[1] /\ Planned(todo[1])
    BY <1>1, RowTail DEF LiveInv, TodoInv
  <2> DEFINE phase == todo[1][1]
             p == todo[1][2]
  <2>2. p \in wrong' \/ (phase = "loc" /\ "sitemap" \in wrong')
    <3>1. CASE Live!GetFails
      BY <2>1, <3>1 DEF Live!GetFails
    <3>2. CASE Live!NotServed
      <4>1. p \in Live!Paths => live[p] = Live!Gone
        BY <2>1, <3>2 DEF Live!NotServed
      <4>2. p \in Live!Paths => p \in wrong
        BY <4>1, SiteBodies DEF LiveInv, ServedInv, Live!Paths
      <4>3. p \notin Live!Paths => phase = "loc" /\ "sitemap" \in wrong
        BY <2>1, PlannedFacts
      <4> QED
        BY <1>1, <4>2, <4>3
    <3> QED
      BY <3>1, <3>2
  <2>3. findings' = findings \cup {<<phase, p, "status">>}
    BY <1>1, <2>1
  <2> HIDE DEF phase, p
  <2> SUFFICES ASSUME NEW f \in findings'
               PROVE  \/ f[2] \in wrong'
                      \/ f[1] = "engine" /\ "manifest" \in wrong'
                      \/ f[1] = "loc" /\ "sitemap" \in wrong'
    BY DEF Live!FindingIsReal
  <2>4. CASE f \in findings
    BY <1>1, <2>4 DEF LiveInv, Live!FindingIsReal
  <2>5. CASE f = <<phase, p, "status">>
    BY <2>2, <2>5
  <2> QED
    BY <2>3, <2>4, <2>5
<1> QED
  BY <1>2, <1>3, <1>5, <1>6, <1>7 DEF LiveInv

\* More files arrive.
LEMMA CopyKeeps ==
  ASSUME LiveInv, Live!Copy
  PROVE  LiveInv'
<1>1. PICK q \in Live!Paths : live' = [live EXCEPT ![q] = SiteCommitted[q]]
  BY DEF Live!Copy
<1>2. UNCHANGED <<todo, manifest, findings, result, wrong>>
  BY DEF Live!Copy
<1>3. DOMAIN live = Live!Paths
  <2>1. live = [p \in Live!Paths |-> live[p]]
    BY DEF LiveInv, ServedInv
  <2> QED
    BY <2>1
<1>4. /\ live' = [p \in Live!Paths |-> live'[p]]
      /\ \A p \in Live!Paths : live'[p] = live[p] \/ live'[p] = SiteCommitted[p]
  BY <1>1, <1>3
<1>5. ServedInv'
  <2>1. \A p \in Live!Paths : live'[p] \in SiteStale[p] \cup {Live!Gone, SiteCommitted[p]}
    BY <1>4 DEF LiveInv, ServedInv
  <2>2. \A p \in Live!Paths \ wrong : live'[p] = SiteCommitted[p]
    BY <1>4 DEF LiveInv, ServedInv
  <2> QED
    BY <1>2, <1>4, <2>1, <2>2 DEF ServedInv, Live!Paths, Live!Gone
<1>6. TodoInv' /\ DigestInv' /\ ResultInv' /\ Live!FindingIsReal'
  <2>1. TodoInv' /\ DigestInv'
    BY <1>2 DEF LiveInv, TodoInv, DigestInv, Planned, Scripted, Decides
  <2>2. ResultInv'
    BY <1>2 DEF LiveInv, ResultInv
  <2>3. Live!FindingIsReal'
    BY <1>2 DEF LiveInv, Live!FindingIsReal
  <2> QED
    BY <2>1, <2>2, <2>3
<1>7. PendingInv'
  <2> SUFFICES ASSUME findings = {}, NEW p \in Live!Paths, live'[p] # SiteCommitted[p]
               PROVE  \E phase \in {"bytes", "card", "manifest", "engine"} :
                        Decides(phase, p) /\ <<phase, p>> \in ToSet(todo)
    BY <1>2 DEF PendingInv, Decides
  <2>1. live[p] # SiteCommitted[p]
    BY <1>4
  <2> QED
    BY <2>1 DEF LiveInv, PendingInv
<1> QED
  BY <1>5, <1>6, <1>7 DEF LiveInv

LEMMA ReportKeeps ==
  ASSUME LiveInv, Live!Report
  PROVE  LiveInv'
<1>1. /\ todo = <<>> /\ result' = IF findings = {} THEN "pass" ELSE "fail"
      /\ UNCHANGED <<live, todo, manifest, findings, wrong>>
  BY DEF Live!Report
<1>2. ServedInv' /\ TodoInv' /\ DigestInv' /\ PendingInv' /\ Live!FindingIsReal'
  <2>1. ServedInv' /\ PendingInv'
    BY <1>1 DEF LiveInv, ServedInv, PendingInv, Decides
  <2>2. TodoInv' /\ DigestInv'
    BY <1>1 DEF LiveInv, TodoInv, DigestInv, Planned, Scripted, Decides
  <2>3. Live!FindingIsReal'
    BY <1>1 DEF LiveInv, Live!FindingIsReal
  <2> QED
    BY <2>1, <2>2, <2>3
<1>3. ResultInv'
  BY <1>1 DEF ResultInv
<1> QED
  BY <1>2, <1>3 DEF LiveInv

\* An answer: the sample of the live sitemap is asked for before the rest, a file that is not
\* the committed one is found when its turn comes, and a committed one passes.
LEMMA AnswerKeeps ==
  ASSUME LiveInv, Live!Answered
  PROVE  LiveInv'
<1> DEFINE phase == todo[1][1]
           p == todo[1][2]
           body == live[p]
           after == Live!AfterAnswer(phase, p, body)
           rest == Tail(todo)
<1>1. IsRow(todo) /\ (\A i \in 1 .. Len(todo) : Planned(todo[i])) /\ ManifestFirst(todo)
  BY DEF LiveInv, TodoInv
<1>2. todo # <<>> /\ result = "running" /\ UNCHANGED <<live, result, wrong>>
  <2>1. todo # <<>> /\ result = "running" /\ UNCHANGED <<live, result, copies, faults, wrong>>
    BY Zenon DEF Live!Answered
  <2> QED
    BY <2>1
<1>3. /\ IsRow(rest) /\ ManifestFirst(rest) /\ Head(todo) = todo[1] /\ Len(rest) = Len(todo) - 1
      /\ ToSet(todo) = {todo[1]} \cup ToSet(rest) /\ 1 \in 1 .. Len(todo)
      /\ \A i \in 1 .. Len(todo) - 1 : rest[i] = todo[i + 1]
  BY <1>1, <1>2, RowTail
<1>4. Planned(todo[1]) /\ todo[1] = <<phase, p>>
  BY <1>1, <1>3, PlannedFacts
<1>5. /\ p \in Live!Paths /\ body # Live!Gone
      /\ findings' = findings \cup {<<phase, p, what>> : what \in Live!Check(phase, p, body)}
      /\ todo' = after \o rest
      /\ manifest' = IF phase = "manifest" THEN body ELSE manifest
  BY <1>3 DEF Live!Answered
<1>6. body \in SiteStale[p] \cup {SiteCommitted[p]} /\ (p \notin wrong => body = SiteCommitted[p])
  BY <1>5 DEF LiveInv, ServedInv
<1>7. IsRow(after) /\ \A x \in ToSet(after) : Planned(x) /\ x[1] = "loc"
  <2>1. CASE phase # "sitemap"
    <3>1. after = <<>> /\ Len(<<>>) = 0
      BY <2>1 DEF Live!AfterAnswer
    <3> QED
      BY <3>1 DEF IsRow, ToSet
  <2>2. CASE phase = "sitemap"
    <3> DEFINE sample == Live!StrideSample(body.locs, SiteSitemapSample)
               paths == [i \in DOMAIN sample |-> sample[i][2]]
    <3>1. p = "sitemap" /\ Len(body.locs) \in Nat /\ SiteSitemapSample \in Nat \ {0}
      BY <1>4, <1>6, <2>2, PlannedFacts, SiteBodies, SiteParts
    <3>2. IsRow(sample) /\ \A x \in ToSet(sample) : \E k \in 1 .. Len(body.locs) : x = body.locs[k]
      BY <3>1, StrideFacts
    <3>3. DOMAIN sample = 1 .. Len(sample) /\ Len(sample) \in Nat
          /\ \A i \in 1 .. Len(sample) : sample[i] \in ToSet(sample)
      BY <3>2, RowFacts
    <3>4. IsRow(paths) /\ ToSet(paths) = {sample[i][2] : i \in 1 .. Len(sample)}
      <4>1. paths = [i \in 1 .. Len(sample) |-> paths[i]]
        BY <3>3
      <4>2. IsRow(paths) /\ ToSet(paths) = {paths[i] : i \in 1 .. Len(sample)}
        BY <3>3, <4>1, RowBy
      <4> QED
        BY <3>3, <4>2
    <3>5. ASSUME NEW x \in ToSet(paths) PROVE x \in Live!Paths \/ "sitemap" \in wrong
      <4>1. PICK i \in 1 .. Len(sample) : x = sample[i][2]
        BY <3>4, <3>5
      <4>2. PICK k \in 1 .. Len(body.locs) : sample[i] = body.locs[k]
        BY <3>2, <3>3
      <4>3. "sitemap" \notin wrong => x \in DOMAIN SiteCommitted
        BY <1>6, <3>1, <4>1, <4>2, SiteIsInOrder
      <4> QED
        BY <4>3 DEF Live!Paths
    <3>6. after = Live!Each("loc", paths)
      BY <2>2 DEF Live!AfterAnswer
    <3> HIDE DEF paths, after
    <3>7. IsRow(after) /\ ToSet(after) = {<<"loc", x>> : x \in ToSet(paths)}
      BY <3>4, <3>6, EachFacts
    <3> QED
      BY <3>5, <3>7 DEF Planned
  <2> QED
    BY <2>1, <2>2
<1> HIDE DEF after
<1>8. /\ IsRow(todo') /\ ToSet(todo') = ToSet(after) \cup ToSet(rest)
      /\ Len(todo') = Len(after) + Len(rest) /\ Len(after) \in Nat /\ Len(rest) \in Nat
      /\ \A i \in 1 .. Len(after) : todo'[i] = after[i]
      /\ \A i \in Len(after) + 1 .. Len(after) + Len(rest) : todo'[i] = rest[i - Len(after)]
  BY <1>3, <1>5, <1>7, CatFacts, RowFacts
<1>9. TodoInv'
  <2>1. ASSUME NEW i \in 1 .. Len(todo') PROVE Planned(todo[i])'
    <3>1. Planned(todo'[i])
      <4>1. todo'[i] \in ToSet(after) \cup ToSet(rest)
        BY <1>8, RowFacts
      <4>2. CASE todo'[i] \in ToSet(after)
        BY <1>7, <4>2
      <4>3. CASE todo'[i] \in ToSet(rest)
        <5>1. todo'[i] \in ToSet(todo)
          BY <1>3, <4>3
        <5>2. \A x \in ToSet(todo) : \E k \in 1 .. Len(todo) : todo[k] = x
          BY <1>1, RowFacts
        <5> QED
          BY <1>1, <5>1, <5>2
      <4> QED
        BY <4>1, <4>2, <4>3
    <3> QED
      BY <1>2, <3>1 DEF Planned, Scripted, Decides
  <2>2. ManifestFirst(todo')
    <3> SUFFICES ASSUME NEW i \in 1 .. Len(todo'), NEW k \in 1 .. Len(todo'), i < k,
                        todo'[i][1] = "engine"
                 PROVE  todo'[k][1] # "manifest"
      BY DEF ManifestFirst
    <3>1. i > Len(after)
      <4> SUFFICES ASSUME i <= Len(after) PROVE FALSE
        BY <1>8
      <4>1. i \in 1 .. Len(after)
        BY <1>8
      <4>2. todo'[i] \in ToSet(after)
        BY <1>7, <1>8, <4>1, RowFacts
      <4> QED
        BY <1>7, <4>2
    <3>2. /\ i \in Len(after) + 1 .. Len(after) + Len(rest)
          /\ k \in Len(after) + 1 .. Len(after) + Len(rest)
          /\ i - Len(after) \in 1 .. Len(rest) /\ k - Len(after) \in 1 .. Len(rest)
          /\ i - Len(after) < k - Len(after)
      BY <1>8, <3>1
    <3>3. todo'[i] = rest[i - Len(after)] /\ todo'[k] = rest[k - Len(after)]
      BY <1>8, <3>2
    <3> QED
      BY <1>3, <3>2, <3>3 DEF ManifestFirst
  <2> QED
    BY <1>8, <2>1, <2>2 DEF TodoInv
<1>10. ServedInv' /\ ResultInv'
  BY <1>2 DEF LiveInv, ServedInv, ResultInv, Live!Paths, Live!Gone
\* What is next in the row is all the row when it is not in the rest.
<1>11. \A e \in ToSet(todo) : e # todo[1] => e \in ToSet(todo')
  BY <1>3, <1>8
<1>12. findings' = {} => findings = {} /\ Live!Check(phase, p, body) = {}
  BY <1>5
<1>13. findings = {} /\ phase = "engine" => manifest = SiteCommitted["manifest"]
  <2> SUFFICES ASSUME phase = "engine", <<"manifest", "manifest">> \in ToSet(todo) PROVE FALSE
    BY DEF LiveInv, DigestInv
  <2>1. PICK k \in 1 .. Len(todo) : todo[k] = <<"manifest", "manifest">>
    BY <1>1, RowFacts
  <2>2. Len(todo) \in Nat
    BY <1>1, RowFacts
  <2>3. k # 1
    BY <2>1
  <2> QED
    BY <1>1, <1>3, <2>1, <2>2, <2>3 DEF ManifestFirst
<1>14. ASSUME findings' = {}, Decides(phase, p) PROVE body = SiteCommitted[p]
  BY <1>5, <1>12, <1>13, <1>14, StaleIsFound DEF LiveInv
<1>15. DigestInv'
  <2>1. CASE phase = "manifest"
    <3>1. p = "manifest" /\ Decides(phase, p) /\ manifest' = body
      BY <1>4, <1>5, <2>1, PlannedFacts
    <3> QED
      BY <1>2, <1>6, <1>14, <3>1 DEF DigestInv
  <2>2. CASE phase # "manifest"
    <3>1. manifest' = manifest /\ <<"manifest", "manifest">> # todo[1]
      BY <1>5, <2>2
    <3> QED
      BY <1>2, <1>11, <1>12, <3>1 DEF LiveInv, DigestInv, Live!NoManifest
  <2> QED
    BY <2>1, <2>2
<1>16. PendingInv'
  <2> SUFFICES ASSUME findings' = {}, NEW q \in Live!Paths, live[q] # SiteCommitted[q]
               PROVE  \E ph \in {"bytes", "card", "manifest", "engine"} :
                        Decides(ph, q) /\ <<ph, q>> \in ToSet(todo')
    BY <1>2 DEF PendingInv, Decides
  <2>1. PICK ph \in {"bytes", "card", "manifest", "engine"} :
               Decides(ph, q) /\ <<ph, q>> \in ToSet(todo)
    BY <1>12 DEF LiveInv, PendingInv
  <2>2. <<ph, q>> # todo[1]
    <3> SUFFICES ASSUME <<ph, q>> = todo[1] PROVE FALSE
      OBVIOUS
    <3>1. ph = phase /\ q = p
      OBVIOUS
    <3> QED
      BY <1>14, <2>1, <3>1
  <2> QED
    BY <1>11, <2>1, <2>2
<1>17. Live!FindingIsReal'
  <2> SUFFICES ASSUME NEW f \in findings'
               PROVE  \/ f[2] \in wrong
                      \/ f[1] = "engine" /\ "manifest" \in wrong
                      \/ f[1] = "loc" /\ "sitemap" \in wrong
    BY <1>2 DEF Live!FindingIsReal
  <2>1. CASE f \in findings
    BY <2>1 DEF LiveInv, Live!FindingIsReal
  <2>2. CASE f \notin findings
    <3>1. PICK what \in Live!Check(phase, p, body) : f = <<phase, p, what>>
      BY <1>5, <2>2
    <3>2. Live!Check(phase, p, body) # {} /\ f[1] = phase /\ f[2] = p
      BY <3>1
    <3>3. CASE ~Scripted(todo[1])
      <4>1. phase = "loc"
        BY <1>4, <3>3, PlannedFacts
      <4>2. Live!Check("loc", p, body) = {}
        BY DEF Live!Check
      <4> QED
        BY <3>2, <4>1, <4>2
    <3>4. ASSUME Scripted(todo[1]), p \notin wrong, phase = "engine" => "manifest" \notin wrong
          PROVE  FALSE
      <4>1. body = SiteCommitted[p]
        BY <1>6, <3>4
      <4>2. phase = "engine" => manifest \in {Live!NoManifest, SiteCommitted["manifest"]}
        BY <3>4 DEF LiveInv, DigestInv
      <4>3. Live!Check(phase, p, SiteCommitted[p]) = {}
        BY <3>4, <4>2, CommittedIsClean
      <4> QED
        BY <3>2, <4>1, <4>3
    <3> QED
      BY <3>2, <3>3, <3>4
  <2> QED
    BY <2>1, <2>2
<1> QED
  BY <1>9, <1>10, <1>15, <1>16, <1>17 DEF LiveInv

LEMMA SiteInv == ReleaseSpec => []LivePart
<1>1. ReleaseInit => LivePart
  BY InitSite DEF ReleaseInit, LivePart
<1>2. LivePart /\ [ReleaseNext]_allVars => LivePart'
  <2> SUFFICES ASSUME LivePart, [ReleaseNext]_allVars, part' = "live" PROVE LiveInv'
    BY DEF LivePart
  <2>1. part = "live" /\ LiveInv
        /\ (Live!Next \/ UNCHANGED <<live, todo, manifest, findings, result, wrong>>)
    BY DEF LivePart, ReleaseNext, GateStep, LiveStep, ArtifactsStep, allVars, liveOnly
  <2>2. CASE Live!Next
    BY <2>1, <2>2, AnswerKeeps, NoAnswerKeeps, ReportKeeps, CopyKeeps DEF Live!Next, Live!Step
  <2>3. CASE UNCHANGED <<live, todo, manifest, findings, result, wrong>>
    <3>1. ServedInv' /\ ResultInv' /\ Live!FindingIsReal'
      BY <2>1, <2>3 DEF LiveInv, ServedInv, ResultInv, Live!FindingIsReal, Live!Paths, Live!Gone
    <3>2. TodoInv'
      BY <2>1, <2>3 DEF LiveInv, TodoInv, Planned, Scripted, Decides
    <3>3. DigestInv'
      BY <2>1, <2>3 DEF LiveInv, DigestInv, Live!NoManifest
    <3>4. PendingInv'
      BY <2>1, <2>3 DEF LiveInv, PendingInv, Decides, Live!Paths
    <3> QED
      BY <3>1, <3>2, <3>3, <3>4 DEF LiveInv
  <2> QED
    BY <2>1, <2>2, <2>3
<1> QED
  BY <1>1, <1>2, PTL DEF ReleaseSpec

\* "RESULT: PASS - live matches committed www/" (verify_live.py main): for every tree that
\* passes its own checks, every older state of every file, every answer that fails and every
\* file that is still copied during the run, a run that passes has compared, byte for byte or
\* by the digests of the committed manifest, every file the server has at its end; and what it
\* reports was wrong from the start, or is said by a wrong sitemap or manifest.
THEOREM VerdictOfTheSite == ReleaseSpec => []VerdictIsAboutTheSite
<1>1. LivePart => VerdictIsAboutTheSite
  <2> SUFFICES ASSUME LiveInv PROVE Live!PassMeansLive /\ Live!FindingIsReal
    BY DEF LivePart, VerdictIsAboutTheSite
  <2>1. Live!FindingIsReal
    BY DEF LiveInv
  <2>2. ASSUME result = "pass" PROVE live = SiteCommitted
    <3>1. todo = <<>> /\ findings = {}
      BY <2>2 DEF LiveInv, ResultInv
    <3>2. ToSet(todo) = {}
      BY <3>1 DEF ToSet
    <3>3. \A p \in Live!Paths : live[p] = SiteCommitted[p]
      BY <3>1, <3>2 DEF LiveInv, PendingInv
    <3>4. /\ live = [p \in Live!Paths |-> live[p]]
          /\ SiteCommitted = [p \in Live!Paths |-> SiteCommitted[p]]
      BY SiteParts DEF LiveInv, ServedInv, Live!Paths
    <3> QED
      BY <3>3, <3>4
  <2> QED
    BY <2>1, <2>2 DEF Live!PassMeansLive
<1> QED
  BY <1>1, SiteInv, PTL

-----------------------------------------------------------------------------
(***************************************************************************)
(* The generated files.                                                    *)
(***************************************************************************)
FileNames ==
  {"matrix", "page", "catalog", "packaged", "parity", "bindings", "audit", "api", "rules",
   "coverage", "rulesPage", "suite", "sbom", "reports", "attestation", "packagedAttestation"}

\* A disk: one content per generated file.
IsDisk(f) == f = [x \in FileNames |-> f[x]]

LEMMA GeneratorNames ==
  Generated!Generators =
    {"coverage", "remediation", "cii_parity", "syntax_binding", "known_open_audit",
     "api_contract", "export", "rules_doc", "testsuite_conformance", "sbom", "examples",
     "attestation"}
BY DEF Generated!Generators, Generated!TargetsOf

LEMMA TargetLists ==
  ASSUME NEW g \in Generated!Generators
  PROVE  Generated!TargetsOf[g] =
             CASE g = "coverage" -> <<"matrix", "page">>
               [] g = "remediation" -> <<"catalog", "packaged">>
               [] g = "cii_parity" -> <<"parity">>
               [] g = "syntax_binding" -> <<"bindings">>
               [] g = "known_open_audit" -> <<"audit">>
               [] g = "api_contract" -> <<"api">>
               [] g = "export" -> <<"rules", "coverage">>
               [] g = "rules_doc" -> <<"rulesPage">>
               [] g = "testsuite_conformance" -> <<"suite">>
               [] g = "sbom" -> <<"sbom">>
               [] g = "examples" -> <<"reports">>
               [] g = "attestation" -> <<"attestation", "packagedAttestation">>
BY GeneratorNames DEF Generated!TargetsOf

LEMMA TargetNames ==
  ASSUME NEW g \in Generated!Generators
  PROVE  Generated!TargetSet(g) =
           CASE g = "coverage" -> {"matrix", "page"}
             [] g = "remediation" -> {"catalog", "packaged"}
             [] g = "cii_parity" -> {"parity"}
             [] g = "syntax_binding" -> {"bindings"}
             [] g = "known_open_audit" -> {"audit"}
             [] g = "api_contract" -> {"api"}
             [] g = "export" -> {"rules", "coverage"}
             [] g = "rules_doc" -> {"rulesPage"}
             [] g = "testsuite_conformance" -> {"suite"}
             [] g = "sbom" -> {"sbom"}
             [] g = "examples" -> {"reports"}
             [] g = "attestation" -> {"attestation", "packagedAttestation"}
<1>1. ASSUME NEW a, NEW b, Generated!TargetsOf[g] = <<a, b>> PROVE Generated!TargetSet(g) = {a, b}
  BY <1>1 DEF Generated!TargetSet
<1>2. ASSUME NEW a, Generated!TargetsOf[g] = <<a>> PROVE Generated!TargetSet(g) = {a}
  BY <1>2 DEF Generated!TargetSet
<1> QED
  BY <1>1, <1>2, TargetLists, GeneratorNames

LEMMA FilesAre == Generated!Files = FileNames
<1>1. \A g \in Generated!Generators : Generated!TargetSet(g) \subseteq FileNames
  BY TargetNames, GeneratorNames DEF FileNames
<1>2. \A x \in FileNames : \E g \in Generated!Generators : x \in Generated!TargetSet(g)
  BY TargetNames, GeneratorNames DEF FileNames
<1> QED
  BY <1>1, <1>2 DEF Generated!Files

LEMMA FileContents ==
  ASSUME NEW f, NEW h, IsDisk(f), IsDisk(h), \A x \in FileNames : f[x] = h[x]
  PROVE  f = h
BY DEF IsDisk

-----------------------------------------------------------------------------
(***************************************************************************)
(* What the generators' results have in common, whatever they were         *)
(* computed from.                                                          *)
(***************************************************************************)

\* The rules of a matrix are those of its sources.
LEMMA MatrixRules ==
  ASSUME NEW s, NEW c
  PROVE  Generated!Matrix(s, c).rules = Generated!RuleTable(s)
BY DEF Generated!Matrix

\* Only the titles of a catalog are the matrix's.
LEMMA CatalogTitles ==
  ASSUME NEW s, NEW m, m.rules = Generated!RuleTable(s)
  PROVE  Generated!Catalog(s, m) = Generated!TrueCatalog(s)
<1> DEFINE t == [rules |-> Generated!RuleTable(s)]
<1>1. t.rules = m.rules
  OBVIOUS
<1> HIDE DEF t
<1>2. Generated!Catalog(s, t) = Generated!Catalog(s, m)
  BY <1>1 DEF Generated!Catalog
<1> QED
  BY <1>2 DEF Generated!TrueCatalog, t

\* The German messages the matrix counts are not.
LEMMA SameMessages ==
  ASSUME NEW s, NEW m, NEW n
  PROVE  Generated!GermanMessages(Generated!Catalog(s, m))
           = Generated!GermanMessages(Generated!Catalog(s, n))
<1> DEFINE F == Generated!EngineFireable(s)
           W == Generated!Wording(s)
           c == Generated!Catalog(s, m).rules
           d == Generated!Catalog(s, n).rules
<1>1. DOMAIN c = F /\ DOMAIN d = F
  BY DEF Generated!Catalog
<1>2. \A id \in F : c[id] = Generated!CatalogEntry(s, W, id, m.rules[id].title)
                 /\ d[id] = Generated!CatalogEntry(s, W, id, n.rules[id].title)
  BY DEF Generated!Catalog
<1>3. \A id \in F : c[id].message = d[id].message
  <2>1. \A id, t : Generated!CatalogEntry(s, W, id, t).message
                   = IF Generated!OfficialGerman(W, id) THEN W[id].text ELSE <<>>
    BY DEF Generated!CatalogEntry
  <2> HIDE DEF c, d, W
  <2> QED
    BY <1>2, <2>1
<1> HIDE DEF c, d, F
<1>4. {id \in DOMAIN c : c[id].message # <<>>} = {id \in DOMAIN d : d[id].message # <<>>}
  BY <1>1, <1>3
<1> QED
  BY <1>1, <1>4 DEF Generated!GermanMessages, c, d

LEMMA MatrixOfMessages ==
  ASSUME NEW s, NEW c, NEW d, Generated!GermanMessages(c) = Generated!GermanMessages(d)
  PROVE  Generated!Matrix(s, c) = Generated!Matrix(s, d)
BY DEF Generated!Matrix

\* Texts are never taken for a file that is cut short or not there.
LEMMA WholeContents ==
  /\ \A s, c : Generated!Whole(Generated!Matrix(s, c))
  /\ \A s, m : Generated!Whole(Generated!Catalog(s, m)) /\ Generated!Whole(Generated!Parity(s, m))
  /\ \A s : Generated!Whole(Generated!BindingCatalog(s)) /\ Generated!Whole(Generated!Sbom(s))
  /\ Generated!Absent # Generated!Torn
<1>1. \A v, w : [rules |-> v] # [state |-> w] /\ [entries |-> v] # [state |-> w]
  <2> SUFFICES ASSUME NEW v, NEW w PROVE [rules |-> v] # [state |-> w] /\ [entries |-> v] # [state |-> w]
    OBVIOUS
  <2>1. DOMAIN [rules |-> v] = {"rules"} /\ DOMAIN [entries |-> v] = {"entries"}
        /\ DOMAIN [state |-> w] = {"state"}
    OBVIOUS
  <2> QED
    BY <2>1
<1>2. \A s, m : Generated!Whole(Generated!Catalog(s, m)) /\ Generated!Whole(Generated!Parity(s, m))
  BY <1>1, Zenon DEF Generated!Whole, Generated!Torn, Generated!Absent, Generated!Catalog, Generated!Parity
<1>3. ASSUME NEW s, NEW c PROVE Generated!Whole(Generated!Matrix(s, c))
  <2>1. "rules" \in DOMAIN Generated!Matrix(s, c)
    BY DEF Generated!Matrix
  <2> QED
    BY <2>1 DEF Generated!Whole, Generated!Torn, Generated!Absent
<1>4. ASSUME NEW s PROVE Generated!Whole(Generated!BindingCatalog(s)) /\ Generated!Whole(Generated!Sbom(s))
  <2>1. "entries" \in DOMAIN Generated!BindingCatalog(s) /\ "version" \in DOMAIN Generated!Sbom(s)
    BY DEF Generated!BindingCatalog, Generated!Sbom
  <2> QED
    BY <2>1 DEF Generated!Whole, Generated!Torn, Generated!Absent
<1>5. Generated!Absent # Generated!Torn
  BY DEF Generated!Torn, Generated!Absent
<1> QED
  BY <1>2, <1>3, <1>4, <1>5

\* A catalog names KoSIT as the origin of exactly the messages it has.
GoodCatalog(c) ==
  \A id \in DOMAIN c.rules : c.rules[id].message # <<>> <=> c.rules[id].origin = "kosit"

LEMMA EntryText ==
  ASSUME NEW artifact, NEW id \in DOMAIN Generated!AssertIndex(artifact)
  PROVE  Generated!AssertIndex(artifact)[id].text # <<>>
<1>1. \E a, b : Generated!AssertIndex(artifact)[id].text = <<a, b>>
  BY DEF Generated!AssertIndex
<1> QED
  BY <1>1

LEMMA WordingText ==
  ASSUME NEW s, NEW id \in DOMAIN Generated!Wording(s)
  PROVE  Generated!Wording(s)[id].text # <<>>
<1> DEFINE xr == Generated!AssertIndex(s.kosit.ubl)
           core == Generated!AssertIndex(s.cenSource)
           cii == Generated!AssertIndex(s.kosit.cii)
<1>1. id \in DOMAIN xr \cup DOMAIN core \cup DOMAIN cii
  BY DEF Generated!Wording
<1>2. Generated!Wording(s)[id].text =
        IF id \in DOMAIN xr THEN xr[id].text ELSE IF id \in DOMAIN core THEN core[id].text
        ELSE cii[id].text
  BY <1>1 DEF Generated!Wording
<1> QED
  BY <1>1, <1>2, EntryText

LEMMA CatalogIsGood ==
  ASSUME NEW s, NEW m, ~Generated!CatalogAborts(s, m)
  PROVE  GoodCatalog(Generated!Catalog(s, m))
<1> DEFINE F == Generated!EngineFireable(s)
           W == Generated!Wording(s)
           c == Generated!Catalog(s, m).rules
<1>1. DOMAIN c = F
      /\ \A id \in F : c[id] = Generated!CatalogEntry(s, W, id, m.rules[id].title)
  BY DEF Generated!Catalog
<1>2. \A id \in F : W[id].text # <<>>
  <2>1. \A id \in F : id \in DOMAIN W
    BY DEF Generated!CatalogAborts, Generated!Unworded
  <2> QED
    BY <2>1, WordingText
<1>3. \A id, t :
        /\ Generated!CatalogEntry(s, W, id, t).message
             = IF Generated!OfficialGerman(W, id) THEN W[id].text ELSE <<>>
        /\ Generated!CatalogEntry(s, W, id, t).origin
             = IF Generated!OfficialGerman(W, id) THEN "kosit" ELSE "translation"
  BY DEF Generated!CatalogEntry
<1> HIDE DEF F, W, c
<1>4. \A id \in DOMAIN c : c[id].message # <<>> <=> c[id].origin = "kosit"
  BY <1>1, <1>2, <1>3
<1> QED
  BY <1>4 DEF GoodCatalog, c

-----------------------------------------------------------------------------
\* A content a file of that name can have.
Sound(x, content) ==
  /\ x \in {"catalog", "packaged"} /\ Generated!Whole(content) => GoodCatalog(content)
  /\ x = "sbom" /\ Generated!Whole(content) =>
       content.components = [c \in Generated!Corpora |-> content.components[c]]

\* r is f with one file written anew, or two.
Changed(f, r, x, v) == IsDisk(r) /\ r[x] = v /\ \A y \in FileNames \ {x} : r[y] = f[y]
Changed2(f, r, x, v, z, w) ==
  IsDisk(r) /\ r[x] = v /\ r[z] = w /\ \A y \in FileNames \ {x, z} : r[y] = f[y]

LEMMA Write1 ==
  ASSUME NEW f, IsDisk(f), NEW x \in FileNames, NEW v
  PROVE  Changed(f, [f EXCEPT ![x] = v], x, v)
<1> HIDE DEF FileNames
<1> QED
  BY DEF Changed, IsDisk

LEMMA Write2 ==
  ASSUME NEW f, IsDisk(f), NEW x \in FileNames, NEW z \in FileNames, x # z, NEW v, NEW w, NEW r,
         r = [f EXCEPT ![x] = v, ![z] = w]
  PROVE  Changed2(f, r, x, v, z, w)
<1> HIDE DEF FileNames
<1> QED
  BY DEF Changed2, IsDisk

Attesting(s, f) ==
  Generated!Attestation(s, f.rules, f.coverage, f.suite, f.sbom, Generated!Attested(f))

\* What each generator writes.
LEMMA WrittenFiles ==
  ASSUME NEW s, NEW f, IsDisk(f)
  PROVE
    /\ Changed2(f, Generated!Written("coverage", s, f),
         "matrix", Generated!Matrix(s, Generated!PackagedCatalog(f)),
         "page", Generated!Page(s, Generated!Matrix(s, Generated!PackagedCatalog(f)), f.parity, f.bindings))
    /\ Changed2(f, Generated!Written("remediation", s, f),
         "catalog", Generated!Catalog(s, f.matrix),
         "packaged", Generated!Catalog(s, f.matrix))
    /\ Changed(f, Generated!Written("cii_parity", s, f), "parity", Generated!Parity(s, f.matrix))
    /\ Changed(f, Generated!Written("syntax_binding", s, f), "bindings", Generated!BindingCatalog(s))
    /\ Changed(f, Generated!Written("known_open_audit", s, f), "audit", Generated!Audit(s, f.bindings))
    /\ Changed(f, Generated!Written("api_contract", s, f), "api", Generated!ApiContract(s))
    /\ Changed2(f, Generated!Written("export", s, f),
         "rules", Generated!ExportedRules(f.matrix, f.catalog),
         "coverage", Generated!ExportedCoverage(s, f.matrix, f.bindings))
    /\ Changed(f, Generated!Written("rules_doc", s, f), "rulesPage", Generated!RulesPage(Generated!PackagedCatalog(f)))
    /\ Changed(f, Generated!Written("testsuite_conformance", s, f), "suite", Generated!Suite(s))
    /\ Changed(f, Generated!Written("sbom", s, f), "sbom", Generated!Sbom(s))
    /\ Changed(f, Generated!Written("examples", s, f), "reports", Generated!Examples(s))
    /\ Changed2(f, Generated!Written("attestation", s, f),
         "attestation", Attesting(s, f),
         "packagedAttestation", Attesting(s, f))
<1> DEFINE W(g) == Generated!Written(g, s, f)
<1>1. Changed2(f, W("coverage"), "matrix", Generated!Matrix(s, Generated!PackagedCatalog(f)),
        "page", Generated!Page(s, Generated!Matrix(s, Generated!PackagedCatalog(f)), f.parity, f.bindings))
  <2> DEFINE v == Generated!Matrix(s, Generated!PackagedCatalog(f))
             w == Generated!Page(s, Generated!Matrix(s, Generated!PackagedCatalog(f)), f.parity, f.bindings)
  <2>1. W("coverage") = [f EXCEPT !["matrix"] = v, !["page"] = w]
    BY DEF Generated!Written, Generated!WithMatrix
  <2>2. "matrix" \in FileNames /\ "page" \in FileNames
    BY DEF FileNames
  <2>3. "matrix" # "page"
    OBVIOUS
  <2> HIDE DEF v, w, W
  <2>4. Changed2(f, W("coverage"), "matrix", v, "page", w)
    BY <2>1, <2>2, <2>3, Write2
  <2> QED
    BY <2>4 DEF v, w
<1>2. Changed2(f, W("remediation"), "catalog", Generated!Catalog(s, f.matrix),
        "packaged", Generated!Catalog(s, f.matrix))
  <2> DEFINE v == Generated!Catalog(s, f.matrix)
             w == Generated!Catalog(s, f.matrix)
  <2>1. W("remediation") = [f EXCEPT !["catalog"] = v, !["packaged"] = w]
    BY DEF Generated!Written
  <2>2. "catalog" \in FileNames /\ "packaged" \in FileNames
    BY DEF FileNames
  <2>3. "catalog" # "packaged"
    OBVIOUS
  <2> HIDE DEF v, w, W
  <2>4. Changed2(f, W("remediation"), "catalog", v, "packaged", w)
    BY <2>1, <2>2, <2>3, Write2
  <2> QED
    BY <2>4 DEF v, w
<1>3. Changed(f, W("cii_parity"), "parity", Generated!Parity(s, f.matrix))
  <2>1. W("cii_parity") = [f EXCEPT !.parity = Generated!Parity(s, f.matrix)]
    BY DEF Generated!Written
  <2>2. "parity" \in FileNames
    BY DEF FileNames
  <2> QED
    BY <2>1, <2>2, Write1
<1>4. Changed(f, W("syntax_binding"), "bindings", Generated!BindingCatalog(s))
  <2>1. W("syntax_binding") = [f EXCEPT !.bindings = Generated!BindingCatalog(s)]
    BY DEF Generated!Written
  <2>2. "bindings" \in FileNames
    BY DEF FileNames
  <2> QED
    BY <2>1, <2>2, Write1
<1>5. Changed(f, W("known_open_audit"), "audit", Generated!Audit(s, f.bindings))
  <2>1. W("known_open_audit") = [f EXCEPT !.audit = Generated!Audit(s, f.bindings)]
    BY DEF Generated!Written
  <2>2. "audit" \in FileNames
    BY DEF FileNames
  <2> QED
    BY <2>1, <2>2, Write1
<1>6. Changed(f, W("api_contract"), "api", Generated!ApiContract(s))
  <2>1. W("api_contract") = [f EXCEPT !.api = Generated!ApiContract(s)]
    BY DEF Generated!Written
  <2>2. "api" \in FileNames
    BY DEF FileNames
  <2> QED
    BY <2>1, <2>2, Write1
<1>7. Changed2(f, W("export"), "rules", Generated!ExportedRules(f.matrix, f.catalog),
        "coverage", Generated!ExportedCoverage(s, f.matrix, f.bindings))
  <2> DEFINE v == Generated!ExportedRules(f.matrix, f.catalog)
             w == Generated!ExportedCoverage(s, f.matrix, f.bindings)
  <2>1. W("export") = [f EXCEPT !["rules"] = v, !["coverage"] = w]
    BY DEF Generated!Written
  <2>2. "rules" \in FileNames /\ "coverage" \in FileNames
    BY DEF FileNames
  <2>3. "rules" # "coverage"
    OBVIOUS
  <2> HIDE DEF v, w, W
  <2>4. Changed2(f, W("export"), "rules", v, "coverage", w)
    BY <2>1, <2>2, <2>3, Write2
  <2> QED
    BY <2>4 DEF v, w
<1>8. Changed(f, W("rules_doc"), "rulesPage", Generated!RulesPage(Generated!PackagedCatalog(f)))
  <2>1. W("rules_doc") = [f EXCEPT !.rulesPage = Generated!RulesPage(Generated!PackagedCatalog(f))]
    BY DEF Generated!Written
  <2>2. "rulesPage" \in FileNames
    BY DEF FileNames
  <2> QED
    BY <2>1, <2>2, Write1
<1>9. Changed(f, W("testsuite_conformance"), "suite", Generated!Suite(s))
  <2>1. W("testsuite_conformance") = [f EXCEPT !.suite = Generated!Suite(s)]
    BY DEF Generated!Written
  <2>2. "suite" \in FileNames
    BY DEF FileNames
  <2> QED
    BY <2>1, <2>2, Write1
<1>10. Changed(f, W("sbom"), "sbom", Generated!Sbom(s))
  <2>1. W("sbom") = [f EXCEPT !.sbom = Generated!Sbom(s)]
    BY DEF Generated!Written
  <2>2. "sbom" \in FileNames
    BY DEF FileNames
  <2> QED
    BY <2>1, <2>2, Write1
<1>11. Changed(f, W("examples"), "reports", Generated!Examples(s))
  <2>1. W("examples") = [f EXCEPT !.reports = Generated!Examples(s)]
    BY DEF Generated!Written
  <2>2. "reports" \in FileNames
    BY DEF FileNames
  <2> QED
    BY <2>1, <2>2, Write1
<1>12. Changed2(f, W("attestation"), "attestation", Attesting(s, f),
        "packagedAttestation", Attesting(s, f))
  <2> DEFINE v == Attesting(s, f)
             w == Attesting(s, f)
  <2>1. W("attestation") = [f EXCEPT !["attestation"] = v, !["packagedAttestation"] = w]
    BY DEF Generated!Written, Attesting
  <2>2. "attestation" \in FileNames /\ "packagedAttestation" \in FileNames
    BY DEF FileNames
  <2>3. "attestation" # "packagedAttestation"
    OBVIOUS
  <2> HIDE DEF v, w, W
  <2>4. Changed2(f, W("attestation"), "attestation", v, "packagedAttestation", w)
    BY <2>1, <2>2, <2>3, Write2
  <2> QED
    BY <2>4 DEF v, w
<1> QED
  BY <1>1, <1>2, <1>3, <1>4, <1>5, <1>6, <1>7, <1>8, <1>9, <1>10, <1>11, <1>12

LEMMA WrittenIsSound ==
  ASSUME NEW g \in Generated!Generators, NEW s, NEW f, IsDisk(f), ~Generated!Aborts(g, s, f),
         NEW x \in Generated!TargetSet(g)
  PROVE  Sound(x, Generated!Written(g, s, f)[x])
<1>1. CASE g = "remediation"
  <2>1. ~Generated!CatalogAborts(s, f.matrix)
    BY <1>1 DEF Generated!Aborts
  <2>2. x \in {"catalog", "packaged"} /\ Generated!Written(g, s, f)[x] = Generated!Catalog(s, f.matrix)
    BY <1>1, WrittenFiles, TargetNames DEF Changed2
  <2> QED
    BY <2>1, <2>2, CatalogIsGood DEF Sound
<1>2. CASE g = "sbom"
  <2>1. x = "sbom" /\ Generated!Written(g, s, f)[x] = Generated!Sbom(s)
    BY <1>2, WrittenFiles, TargetNames DEF Changed
  <2> QED
    BY <2>1 DEF Sound, Generated!Sbom
<1>3. CASE g \notin {"remediation", "sbom"}
  BY <1>3, TargetNames, GeneratorNames DEF Sound
<1> QED
  BY <1>1, <1>2, <1>3

LEMMA TruthIsDisk ==
  ASSUME NEW s
  PROVE  IsDisk(Generated!Truth(s))
BY DEF Generated!Truth, Generated!TruthOf, IsDisk, FileNames

LEMMA TruthIsSound ==
  ASSUME NEW s, Generated!Buildable(s), NEW x \in FileNames
  PROVE  Sound(x, Generated!Truth(s)[x])
<1> DEFINE T == Generated!Truth(s)
<1>1. /\ T.catalog = Generated!TrueCatalog(s) /\ T.packaged = Generated!TrueCatalog(s)
      /\ T.matrix = Generated!Matrix(s, Generated!TrueCatalog(s)) /\ T.sbom = Generated!Sbom(s)
  BY DEF Generated!Truth, Generated!TruthOf
<1>2. ~Generated!Aborts("remediation", s, T)
  BY GeneratorNames DEF Generated!Buildable
<1>3. ~Generated!CatalogAborts(s, T.matrix)
  BY <1>2 DEF Generated!Aborts
<1>4. Generated!TrueCatalog(s) = Generated!Catalog(s, T.matrix)
  BY <1>1, MatrixRules, CatalogTitles
<1>5. GoodCatalog(Generated!TrueCatalog(s))
  BY <1>3, <1>4, CatalogIsGood
<1> QED
  BY <1>1, <1>5 DEF Sound, Generated!Sbom

-----------------------------------------------------------------------------
\* A disk every file of which reproduces is the one its sources determine.
LEMMA TruthFiles ==
  ASSUME NEW s
  PROVE  LET T == Generated!Truth(s) IN
         /\ T.matrix = Generated!Matrix(s, Generated!TrueCatalog(s))
         /\ T.page = Generated!Page(s, T.matrix, T.parity, T.bindings)
         /\ T.catalog = Generated!TrueCatalog(s) /\ T.packaged = Generated!TrueCatalog(s)
         /\ T.parity = Generated!Parity(s, T.matrix) /\ T.bindings = Generated!BindingCatalog(s)
         /\ T.audit = Generated!Audit(s, T.bindings) /\ T.api = Generated!ApiContract(s)
         /\ T.rules = Generated!ExportedRules(T.matrix, T.catalog)
         /\ T.coverage = Generated!ExportedCoverage(s, T.matrix, T.bindings)
         /\ T.rulesPage = Generated!RulesPage(T.catalog) /\ T.suite = Generated!Suite(s)
         /\ T.sbom = Generated!Sbom(s) /\ T.reports = Generated!Examples(s)
         /\ T.attestation = Attesting(s, T) /\ T.packagedAttestation = Attesting(s, T)
BY DEF Generated!Truth, Generated!TruthOf, Attesting, Generated!Attested

LEMMA ReproducedIsTrue ==
  ASSUME NEW s, NEW f, IsDisk(f), Generated!AllReproduced(s, f)
  PROVE  f = Generated!Truth(s)
<1> DEFINE T == Generated!Truth(s)
<1>1. \A g \in Generated!Generators : Generated!Written(g, s, f) = f
  BY DEF Generated!AllReproduced, Generated!Reproduces
<1>2. /\ f.matrix = Generated!Matrix(s, Generated!PackagedCatalog(f))
      /\ f.page = Generated!Page(s, Generated!Matrix(s, Generated!PackagedCatalog(f)), f.parity, f.bindings)
      /\ f.catalog = Generated!Catalog(s, f.matrix) /\ f.packaged = Generated!Catalog(s, f.matrix)
      /\ f.parity = Generated!Parity(s, f.matrix) /\ f.bindings = Generated!BindingCatalog(s)
      /\ f.audit = Generated!Audit(s, f.bindings) /\ f.api = Generated!ApiContract(s)
      /\ f.rules = Generated!ExportedRules(f.matrix, f.catalog)
      /\ f.coverage = Generated!ExportedCoverage(s, f.matrix, f.bindings)
      /\ f.rulesPage = Generated!RulesPage(Generated!PackagedCatalog(f))
      /\ f.suite = Generated!Suite(s) /\ f.sbom = Generated!Sbom(s)
      /\ f.reports = Generated!Examples(s)
      /\ f.attestation = Attesting(s, f) /\ f.packagedAttestation = Attesting(s, f)
  BY <1>1, WrittenFiles, GeneratorNames DEF Changed, Changed2
<1>3. Generated!PackagedCatalog(f) = f.catalog
  BY <1>2 DEF Generated!PackagedCatalog
<1>4. f.catalog = Generated!TrueCatalog(s) /\ f.packaged = Generated!TrueCatalog(s)
  BY <1>2, MatrixRules, CatalogTitles
<1>5. /\ f.matrix = T.matrix /\ f.catalog = T.catalog /\ f.packaged = T.packaged
      /\ f.bindings = T.bindings /\ f.suite = T.suite /\ f.sbom = T.sbom /\ f.api = T.api
      /\ f.reports = T.reports
  BY <1>2, <1>3, <1>4, TruthFiles
<1>6. /\ f.parity = T.parity /\ f.audit = T.audit /\ f.rules = T.rules /\ f.coverage = T.coverage
      /\ f.rulesPage = T.rulesPage
  BY <1>2, <1>3, <1>5, TruthFiles
<1>7. f.page = T.page
  BY <1>2, <1>5, <1>6, TruthFiles
<1>8. Attesting(s, f) = Attesting(s, T)
  BY <1>5, <1>6 DEF Attesting, Generated!Attested
<1>9. \A x \in FileNames : f[x] = T[x]
  BY <1>2, <1>5, <1>6, <1>7, <1>8, TruthFiles DEF FileNames
<1> QED
  BY <1>9, FileContents, TruthIsDisk

LEMMA VerifiedPins ==
  ASSUME NEW s, NEW f, IsDisk(f), Sound("sbom", f.sbom), Generated!VerifyPasses(s, f)
  PROVE  /\ f.attestation.corpus = [c \in Generated!Corpora |-> Generated!CorpusDigest(s, c)]
         /\ f.attestation.artifacts = Generated!Attested(f) /\ f.attestation.version = s.version
<1>1. f.attestation = Attesting(s, f)
  BY WrittenFiles DEF Generated!VerifyPasses, Changed2
<1>2. Generated!Whole(f.sbom)
  BY DEF Generated!VerifyPasses, Generated!Aborts, Generated!AttestationAborts
<1>3. /\ f.attestation.corpus = f.sbom.components /\ f.attestation.version = s.version
      /\ f.attestation.artifacts = Generated!Attested(f)
  BY <1>1 DEF Attesting, Generated!Attestation
<1>4. f.sbom.components = [c \in Generated!Corpora |-> f.sbom.components[c]]
  BY <1>2 DEF Sound
<1>5. \A c \in Generated!Corpora : Generated!CorpusDigest(s, c) = f.sbom.components[c]
  BY <1>3, <1>4 DEF Generated!VerifyPasses
<1> QED
  BY <1>3, <1>4, <1>5

-----------------------------------------------------------------------------
(***************************************************************************)
(* The inductive invariant: a file is torn, gone, or a text some run had.  *)
(***************************************************************************)
WriterInv ==
  \/ writer = Generated!Idle
  \/ /\ writer = [gen |-> writer.gen, out |-> writer.out, left |-> writer.left, open |-> writer.open]
     /\ writer.left \in Seq(FileNames) /\ writer.left # <<>>
     /\ \A i \in 1 .. Len(writer.left) : Sound(writer.left[i], writer.out[writer.left[i]])

DiskInv == IsDisk(surface) /\ \A x \in FileNames : Sound(x, surface[x])

ArtInv == sources \in Revisions /\ DiskInv /\ WriterInv
ArtPart == part = "artifacts" => ArtInv

LEMMA TornIsSound == \A x : Sound(x, Generated!Torn) /\ Sound(x, Generated!Absent)
BY DEF Sound, Generated!Whole

LEMMA InitArtifacts == Generated!ArtifactsInit => ArtInv
BY ReleasesBuild, TruthIsDisk, TruthIsSound
   DEF Generated!ArtifactsInit, ArtInv, DiskInv, WriterInv

LEMMA WriteIsSound ==
  ASSUME DiskInv, NEW x \in FileNames, NEW v, Sound(x, v),
         surface' = [surface EXCEPT ![x] = v]
  PROVE  DiskInv'
<1>1. Changed(surface, surface', x, v)
  BY Write1 DEF DiskInv
<1> QED
  BY <1>1 DEF DiskInv, Changed

LEMMA RevisionKeeps == ArtInv /\ Generated!EditSources => ArtInv'
BY DEF ArtInv, DiskInv, WriterInv, Generated!EditSources

LEMMA TakeKeeps ==
  ASSUME ArtInv, NEW x \in Generated!Files, Generated!TakeOther(x)
  PROVE  ArtInv'
<1>1. PICK content \in {Generated!Truth(s)[x] : s \in Releases \ {sources}} \cup {Generated!Absent} :
        surface' = [surface EXCEPT ![x] = content]
  BY DEF Generated!TakeOther
<1>2. Sound(x, content)
  BY <1>1, ReleasesBuild, TruthIsSound, TornIsSound, FilesAre
<1>3. DiskInv'
  BY <1>1, <1>2, WriteIsSound, FilesAre DEF ArtInv
<1> QED
  BY <1>3 DEF ArtInv, WriterInv, Generated!TakeOther

LEMMA ShortLists ==
  ASSUME NEW S, NEW a \in S, NEW b \in S
  PROVE  <<a, b>> \in Seq(S) /\ <<a, b>> # <<>> /\ <<a>> \in Seq(S) /\ <<a>> # <<>>
<1>1. <<a, b>> \in Seq(S) /\ <<a>> \in Seq(S)
  OBVIOUS
<1>2. <<a, b>> # <<>>
  OBVIOUS
<1>3. <<a>> # <<>>
  OBVIOUS
<1> QED
  BY <1>1, <1>2, <1>3

LEMMA StartKeeps ==
  ASSUME ArtInv, NEW g \in Generated!Generators, Generated!Start(g)
  PROVE  ArtInv'
<1> DEFINE new == Generated!Written(g, sources, surface)
           left == Generated!TargetsOf[g]
<1>1. writer' = [gen |-> g, out |-> [x \in Generated!TargetSet(g) |-> new[x]],
                 left |-> left, open |-> FALSE]
      /\ UNCHANGED <<sources, surface>> /\ ~Generated!Aborts(g, sources, surface)
  BY DEF Generated!Start
<1>2. \A x \in Generated!TargetSet(g) : Sound(x, new[x]) /\ x \in FileNames
  BY <1>1, WrittenIsSound, FilesAre DEF ArtInv, DiskInv, Generated!Files
<1>3. left \in Seq(Generated!TargetSet(g)) /\ left # <<>>
  <2>1. CASE \E a, b : left = <<a, b>>
    <3>1. PICK a, b : left = <<a, b>>
      BY <2>1
    <3>2. Generated!TargetSet(g) = {a, b}
      BY <3>1 DEF Generated!TargetSet
    <3> QED
      BY <3>1, <3>2, ShortLists
  <2>2. CASE \E a : left = <<a>>
    <3>1. PICK a : left = <<a>>
      BY <2>2
    <3>2. Generated!TargetSet(g) = {a}
      BY <3>1 DEF Generated!TargetSet
    <3> QED
      BY <3>1, <3>2, ShortLists
  <2>3. (\E a, b : left = <<a, b>>) \/ (\E a : left = <<a>>)
    BY TargetLists, GeneratorNames
  <2> QED
    BY <2>1, <2>2, <2>3
<1>4. left \in Seq(FileNames)
  <2>1. \A i \in 1 .. Len(left) : left[i] \in FileNames
    BY <1>2, <1>3
  <2> HIDE DEF left
  <2> QED
    BY <1>3, <2>1
<1>5. \A i \in 1 .. Len(left) : Sound(left[i], new[left[i]]) /\ left[i] \in Generated!TargetSet(g)
  <2> HIDE DEF left, new
  <2> QED
    BY <1>2, <1>3
<1> HIDE DEF left, new
<1>6. WriterInv'
  BY <1>1, <1>3, <1>4, <1>5 DEF WriterInv
<1> QED
  BY <1>1, <1>6 DEF ArtInv, DiskInv

LEMMA OpenKeeps == ArtInv /\ Generated!Open => ArtInv'
<1> SUFFICES ASSUME ArtInv, Generated!Open PROVE ArtInv'
  OBVIOUS
<1>1. /\ writer.left \in Seq(FileNames) /\ writer.left # <<>>
      /\ \A i \in 1 .. Len(writer.left) : Sound(writer.left[i], writer.out[writer.left[i]])
      /\ writer = [gen |-> writer.gen, out |-> writer.out, left |-> writer.left, open |-> writer.open]
  BY DEF ArtInv, WriterInv, Generated!Open
<1>2. WriterInv'
  BY <1>1 DEF WriterInv, Generated!Open
<1>3. Head(writer.left) \in FileNames
  BY <1>1
<1>4. DiskInv'
  <2>1. CASE surface' = surface
    BY <2>1 DEF ArtInv, DiskInv
  <2>2. CASE surface' = [surface EXCEPT ![Head(writer.left)] = Generated!Torn]
    BY <1>3, <2>2, TornIsSound, WriteIsSound DEF ArtInv
  <2> QED
    BY <2>1, <2>2 DEF Generated!Open
<1> QED
  BY <1>2, <1>4 DEF ArtInv, Generated!Open

LEMMA CloseKeeps == ArtInv /\ Generated!Close => ArtInv'
<1> SUFFICES ASSUME ArtInv, Generated!Close PROVE ArtInv'
  OBVIOUS
<1> DEFINE left == writer.left
<1>1. /\ left \in Seq(FileNames) /\ left # <<>>
      /\ \A i \in 1 .. Len(left) : Sound(left[i], writer.out[left[i]])
      /\ writer = [gen |-> writer.gen, out |-> writer.out, left |-> left, open |-> writer.open]
  BY DEF ArtInv, WriterInv, Generated!Close
<1>2. Head(left) \in FileNames /\ Sound(Head(left), writer.out[Head(left)])
  BY <1>1
<1>3. DiskInv'
  BY <1>2, WriteIsSound DEF ArtInv, Generated!Close
<1>4. WriterInv'
  <2>1. CASE Len(left) = 1
    BY <2>1 DEF WriterInv, Generated!Close
  <2>2. CASE Len(left) # 1
    <3> DEFINE rest == Tail(left)
    <3>1. writer' = [gen |-> writer.gen, out |-> writer.out, left |-> rest, open |-> FALSE]
      BY <1>1, <2>2 DEF Generated!Close
    <3>2. /\ rest \in Seq(FileNames) /\ rest # <<>> /\ Len(rest) = Len(left) - 1
          /\ \A i \in 1 .. Len(rest) : rest[i] = left[i + 1] /\ i + 1 \in 1 .. Len(left)
      <4>1. /\ Len(left) \in Nat /\ Len(left) # 0 /\ rest \in Seq(FileNames)
            /\ Len(rest) = Len(left) - 1 /\ \A i \in 1 .. Len(rest) : rest[i] = left[i + 1]
        <5> HIDE DEF left, FileNames
        <5> QED
          BY <1>1
      <4> HIDE DEF left, rest, FileNames
      <4> QED
        BY <2>2, <4>1
    <3> HIDE DEF rest, left
    <3>3. \A i \in 1 .. Len(rest) : Sound(rest[i], writer.out[rest[i]])
      BY <1>1, <3>2
    <3> QED
      BY <3>1, <3>2, <3>3 DEF WriterInv
  <2> QED
    BY <2>1, <2>2
<1> QED
  BY <1>3, <1>4 DEF ArtInv, Generated!Close

LEMMA KilledKeeps == ArtInv /\ Generated!Killed => ArtInv'
BY DEF ArtInv, DiskInv, WriterInv, Generated!Killed

LEMMA ArtifactsInv == ReleaseSpec => []ArtPart
<1>1. ReleaseInit => ArtPart
  BY InitArtifacts DEF ReleaseInit, ArtPart
<1>2. ArtPart /\ [ReleaseNext]_allVars => ArtPart'
  <2> SUFFICES ASSUME ArtPart, [ReleaseNext]_allVars, part' = "artifacts" PROVE ArtInv'
    BY DEF ArtPart
  <2>1. ArtInv /\ (Generated!ArtifactsNext \/ UNCHANGED artOnly)
    BY DEF ArtPart, ReleaseNext, GateStep, LiveStep, ArtifactsStep, allVars
  <2>2. CASE Generated!ArtifactsNext
    BY <2>1, <2>2, RevisionKeeps, TakeKeeps, StartKeeps, OpenKeeps, CloseKeeps, KilledKeeps
       DEF Generated!ArtifactsNext
  <2>3. CASE UNCHANGED artOnly
    BY <2>1, <2>3 DEF artOnly, ArtInv, DiskInv, WriterInv
  <2> QED
    BY <2>1, <2>2, <2>3
<1> QED
  BY <1>1, <1>2, PTL DEF ReleaseSpec

\* For all revisions, edits, runs and kills: files that reproduce are the ones their sources
\* determine, and an attestation that verifies pins the corpus, the version and the
\* artifacts on disk.
THEOREM ReproducedMeansTrue == ReleaseSpec => []PassingMeansTrue
<1>1. ArtPart => PassingMeansTrue
  <2> SUFFICES ASSUME part = "artifacts", ArtInv PROVE Generated!PassingMeansTrue
    BY DEF ArtPart, PassingMeansTrue
  <2>1. IsDisk(surface) /\ Sound("sbom", surface.sbom)
    BY DEF ArtInv, DiskInv, FileNames
  <2> QED
    BY <2>1, ReproducedIsTrue, VerifiedPins DEF Generated!PassingMeansTrue
<1> QED
  BY <1>1, ArtifactsInv, PTL

-----------------------------------------------------------------------------
(***************************************************************************)
(* The generators rebuild a disk that is not stuck.                        *)
(***************************************************************************)
Titled(s, m) == Generated!Whole(m) /\ Generated!EngineFireable(s) \subseteq DOMAIN m.rules

LEMMA RunCases ==
  ASSUME NEW g, NEW s, NEW f
  PROVE  /\ Generated!Aborts(g, s, f) => Generated!Run(g, s, f) = f
         /\ ~Generated!Aborts(g, s, f) => Generated!Run(g, s, f) = Generated!Written(g, s, f)
BY DEF Generated!Run

\* What a generator takes from sources that build.
LEMMA BuildableFacts ==
  ASSUME NEW s, Generated!Buildable(s)
  PROVE  LET T == Generated!Truth(s) IN
         /\ \A c : Generated!Whole(c) /\ GoodCatalog(c) => ~Generated!MatrixAborts(s, c)
         /\ \A m : Titled(s, m) => ~Generated!CatalogAborts(s, m)
         /\ Generated!EngineFireable(s) \subseteq DOMAIN Generated!RuleTable(s)
         /\ ~Generated!ParityAborts(s, T.matrix)
         /\ ~Generated!AuditAborts(s, T.matrix, T.bindings)
         /\ ~Generated!ExportAborts(T.matrix, T.catalog, T.bindings)
         /\ ~Generated!AttestationAborts(T.rules, T.coverage, T.suite, T.sbom, Generated!Attested(T))
<1> DEFINE T == Generated!Truth(s)
<1>1. \A g \in Generated!Generators : ~Generated!Aborts(g, s, T)
  BY DEF Generated!Buildable
<1>2. /\ ~Generated!MatrixAborts(s, Generated!PackagedCatalog(T))
      /\ ~Generated!CatalogAborts(s, T.matrix) /\ ~Generated!ParityAborts(s, T.matrix)
      /\ ~Generated!AuditAborts(s, T.matrix, T.bindings)
      /\ ~Generated!ExportAborts(T.matrix, T.catalog, T.bindings)
      /\ ~Generated!AttestationAborts(T.rules, T.coverage, T.suite, T.sbom, Generated!Attested(T))
  <2> HIDE DEF T
  <2> QED
    BY <1>1, GeneratorNames DEF Generated!Aborts
<1>3. \A c : Generated!Whole(c) /\ GoodCatalog(c) => ~Generated!MatrixAborts(s, c)
  BY <1>2 DEF Generated!MatrixAborts, GoodCatalog
<1>4. \A m : Titled(s, m) => ~Generated!CatalogAborts(s, m)
  BY <1>2 DEF Generated!CatalogAborts, Generated!Unworded, Titled
<1>5. T.matrix.rules = Generated!RuleTable(s)
  BY TruthFiles, MatrixRules
<1>6. Generated!EngineFireable(s) \subseteq DOMAIN Generated!RuleTable(s)
  BY <1>2, <1>5 DEF Generated!CatalogAborts, Generated!Unworded
<1> QED
  BY <1>2, <1>3, <1>4, <1>6

\* What gen_coverage and gen_remediation each need of the disk to go on.
Ready(s, d) ==
  /\ IsDisk(d) /\ d.bindings = Generated!BindingCatalog(s) /\ d.parity # Generated!Torn
  /\ Titled(s, d.matrix)

LEMMA GeneratedIsTitled ==
  ASSUME NEW s, Generated!Buildable(s), NEW c
  PROVE  Titled(s, Generated!Matrix(s, c))
BY BuildableFacts, MatrixRules, WholeContents DEF Titled

LEMMA BindingRun ==
  ASSUME NEW s, NEW f, IsDisk(f)
  PROVE  Changed(f, Generated!Run("syntax_binding", s, f), "bindings", Generated!BindingCatalog(s))
<1>1. ~Generated!Aborts("syntax_binding", s, f)
  BY DEF Generated!Aborts
<1> QED
  BY <1>1, RunCases, WrittenFiles

\* gen_cii_parity changes the parity list at most, and leaves it readable.
LEMMA ParityRun ==
  ASSUME NEW s, NEW f, IsDisk(f), f.parity # Generated!Torn \/ ~Generated!ParityAborts(s, f.matrix)
  PROVE  LET r == Generated!Run("cii_parity", s, f) IN
         /\ IsDisk(r) /\ \A x \in FileNames \ {"parity"} : r[x] = f[x]
         /\ r.parity # Generated!Torn
         /\ ~Generated!ParityAborts(s, f.matrix) => r.parity = Generated!Parity(s, f.matrix)
<1> DEFINE r == Generated!Run("cii_parity", s, f)
<1>1. Generated!Aborts("cii_parity", s, f) <=> Generated!ParityAborts(s, f.matrix)
  BY DEF Generated!Aborts
<1>2. CASE Generated!ParityAborts(s, f.matrix)
  <2>1. r = f
    BY <1>1, <1>2, RunCases
  <2> QED
    BY <1>2, <2>1
<1>3. CASE ~Generated!ParityAborts(s, f.matrix)
  <2>1. Changed(f, r, "parity", Generated!Parity(s, f.matrix))
    BY <1>1, <1>3, RunCases, WrittenFiles
  <2> QED
    BY <2>1, WholeContents DEF Changed, Generated!Whole
<1> QED
  BY <1>2, <1>3

LEMMA RemediationRun ==
  ASSUME NEW s, Generated!Buildable(s), NEW f, IsDisk(f), Titled(s, f.matrix)
  PROVE  LET r == Generated!Run("remediation", s, f) IN
         /\ IsDisk(r) /\ \A x \in FileNames \ {"catalog", "packaged"} : r[x] = f[x]
         /\ r.catalog = Generated!Catalog(s, f.matrix) /\ r.packaged = Generated!Catalog(s, f.matrix)
         /\ GoodCatalog(Generated!Catalog(s, f.matrix))
<1>1. ~Generated!CatalogAborts(s, f.matrix)
  BY BuildableFacts
<1>2. ~Generated!Aborts("remediation", s, f)
  BY <1>1 DEF Generated!Aborts
<1> QED
  BY <1>1, <1>2, RunCases, WrittenFiles, CatalogIsGood DEF Changed2

LEMMA CoverageRun ==
  ASSUME NEW s, Generated!Buildable(s), NEW f, IsDisk(f), f.parity # Generated!Torn,
         f.bindings # Generated!Torn, NEW c, c = Generated!PackagedCatalog(f),
         Generated!Whole(c), GoodCatalog(c)
  PROVE  LET r == Generated!Run("coverage", s, f) IN
         /\ IsDisk(r) /\ \A x \in FileNames \ {"matrix", "page"} : r[x] = f[x]
         /\ r.matrix = Generated!Matrix(s, c)
         /\ r.page = Generated!Page(s, Generated!Matrix(s, c), f.parity, f.bindings)
<1>1. ~Generated!MatrixAborts(s, c) /\ ~Generated!PageAborts(f.parity, f.bindings)
  BY BuildableFacts DEF Generated!PageAborts
<1>2. ~Generated!Aborts("coverage", s, f)
  BY <1>1 DEF Generated!Aborts
<1> QED
  BY <1>2, RunCases, WrittenFiles DEF Changed2

\* The two middle rounds of the rebuild, and the generators after them.
Settle(s, f) ==
  Generated!Run("coverage", s, Generated!Run("cii_parity", s, Generated!Run("remediation", s, f)))
Publish(s, f) ==
  LET R(g, d) == Generated!Run(g, s, d)
  IN R("attestation", R("examples", R("sbom", R("testsuite_conformance",
       R("rules_doc", R("export", R("api_contract", R("known_open_audit", f))))))))

LEMMA RebuiltRounds ==
  ASSUME NEW s, NEW f
  PROVE  Generated!Rebuilt(s, f) =
           Publish(s, Settle(s, Settle(s, Generated!Run("coverage", s,
             Generated!Run("cii_parity", s, Generated!Run("syntax_binding", s, f))))))
<1> DEFINE order == Generated!RebuildOrder
           Body(b) == [k \in 0 .. Len(order) |-> IF k = 0 THEN f ELSE Generated!Run(order[k], s, b[k - 1])]
           built == CHOOSE b : b = Body(b)
<1>1. /\ Len(order) = 17
      /\ order[1] = "syntax_binding"
      /\ order[2] = "cii_parity"
      /\ order[3] = "coverage"
      /\ order[4] = "remediation"
      /\ order[5] = "cii_parity"
      /\ order[6] = "coverage"
      /\ order[7] = "remediation"
      /\ order[8] = "cii_parity"
      /\ order[9] = "coverage"
      /\ order[10] = "known_open_audit"
      /\ order[11] = "api_contract"
      /\ order[12] = "export"
      /\ order[13] = "rules_doc"
      /\ order[14] = "testsuite_conformance"
      /\ order[15] = "sbom"
      /\ order[16] = "examples"
      /\ order[17] = "attestation"
  BY DEF Generated!RebuildOrder
<1>2. PICK b1 : b1 = Generated!Run(order[1], s, f)
  OBVIOUS
<1>3. PICK b2 : b2 = Generated!Run(order[2], s, b1)
  OBVIOUS
<1>4. PICK b3 : b3 = Generated!Run(order[3], s, b2)
  OBVIOUS
<1>5. PICK b4 : b4 = Generated!Run(order[4], s, b3)
  OBVIOUS
<1>6. PICK b5 : b5 = Generated!Run(order[5], s, b4)
  OBVIOUS
<1>7. PICK b6 : b6 = Generated!Run(order[6], s, b5)
  OBVIOUS
<1>8. PICK b7 : b7 = Generated!Run(order[7], s, b6)
  OBVIOUS
<1>9. PICK b8 : b8 = Generated!Run(order[8], s, b7)
  OBVIOUS
<1>10. PICK b9 : b9 = Generated!Run(order[9], s, b8)
  OBVIOUS
<1>11. PICK b10 : b10 = Generated!Run(order[10], s, b9)
  OBVIOUS
<1>12. PICK b11 : b11 = Generated!Run(order[11], s, b10)
  OBVIOUS
<1>13. PICK b12 : b12 = Generated!Run(order[12], s, b11)
  OBVIOUS
<1>14. PICK b13 : b13 = Generated!Run(order[13], s, b12)
  OBVIOUS
<1>15. PICK b14 : b14 = Generated!Run(order[14], s, b13)
  OBVIOUS
<1>16. PICK b15 : b15 = Generated!Run(order[15], s, b14)
  OBVIOUS
<1>17. PICK b16 : b16 = Generated!Run(order[16], s, b15)
  OBVIOUS
<1>18. PICK b17 : b17 = Generated!Run(order[17], s, b16)
  OBVIOUS
<1> DEFINE e == [k \in 0 .. 17 |-> IF k = 0 THEN f ELSE <<b1, b2, b3, b4, b5, b6, b7, b8, b9, b10, b11, b12, b13, b14, b15, b16, b17>>[k]]
<1>19. /\ e[0] = f
      /\ e[1] = b1
      /\ e[2] = b2
      /\ e[3] = b3
      /\ e[4] = b4
      /\ e[5] = b5
      /\ e[6] = b6
      /\ e[7] = b7
      /\ e[8] = b8
      /\ e[9] = b9
      /\ e[10] = b10
      /\ e[11] = b11
      /\ e[12] = b12
      /\ e[13] = b13
      /\ e[14] = b14
      /\ e[15] = b15
      /\ e[16] = b16
      /\ e[17] = b17
  OBVIOUS
<1>20. e = Body(e)
  <2> DEFINE Value(k) == IF k = 0 THEN f ELSE Generated!Run(order[k], s, e[k - 1])
  <2>1. e = [k \in 0 .. 17 |-> e[k]]
    OBVIOUS
  <2> HIDE DEF e, order
  <2>2. e[0] = Value(0)
    BY <1>19
  <2>3. e[1] = Value(1)
    BY <1>19, <1>2
  <2>4. e[2] = Value(2)
    BY <1>19, <1>3
  <2>5. e[3] = Value(3)
    BY <1>19, <1>4
  <2>6. e[4] = Value(4)
    BY <1>19, <1>5
  <2>7. e[5] = Value(5)
    BY <1>19, <1>6
  <2>8. e[6] = Value(6)
    BY <1>19, <1>7
  <2>9. e[7] = Value(7)
    BY <1>19, <1>8
  <2>10. e[8] = Value(8)
    BY <1>19, <1>9
  <2>11. e[9] = Value(9)
    BY <1>19, <1>10
  <2>12. e[10] = Value(10)
    BY <1>19, <1>11
  <2>13. e[11] = Value(11)
    BY <1>19, <1>12
  <2>14. e[12] = Value(12)
    BY <1>19, <1>13
  <2>15. e[13] = Value(13)
    BY <1>19, <1>14
  <2>16. e[14] = Value(14)
    BY <1>19, <1>15
  <2>17. e[15] = Value(15)
    BY <1>19, <1>16
  <2>18. e[16] = Value(16)
    BY <1>19, <1>17
  <2>19. e[17] = Value(17)
    BY <1>19, <1>18
  <2> HIDE DEF Value
  <2>20. \A k \in 0 .. 17 : e[k] = Value(k)
    BY <2>2, <2>3, <2>4, <2>5, <2>6, <2>7, <2>8, <2>9, <2>10, <2>11, <2>12, <2>13, <2>14, <2>15, <2>16, <2>17, <2>18, <2>19
  <2>21. e = [k \in 0 .. 17 |-> Value(k)]
    BY <2>1, <2>20
  <2> QED
    BY <1>1, <2>21 DEF Value
<1>21. built = Body(built)
  <2> HIDE DEF Body
  <2> QED
    BY <1>20, Zenon
<1>22. Generated!Rebuilt(s, f) = built[17]
  BY <1>1 DEF Generated!Rebuilt
<1> HIDE DEF built, order
<1>23. \A k \in 0 .. 17 : built[k] = IF k = 0 THEN f ELSE Generated!Run(order[k], s, built[k - 1])
  BY <1>1, <1>21, Zenon
<1>24. built[0] = f
  BY <1>23
<1>25. built[1] = Generated!Run("syntax_binding", s, built[0])
  BY <1>1, <1>23
<1>26. built[2] = Generated!Run("cii_parity", s, built[1])
  BY <1>1, <1>23
<1>27. built[3] = Generated!Run("coverage", s, built[2])
  BY <1>1, <1>23
<1>28. built[4] = Generated!Run("remediation", s, built[3])
  BY <1>1, <1>23
<1>29. built[5] = Generated!Run("cii_parity", s, built[4])
  BY <1>1, <1>23
<1>30. built[6] = Generated!Run("coverage", s, built[5])
  BY <1>1, <1>23
<1>31. built[7] = Generated!Run("remediation", s, built[6])
  BY <1>1, <1>23
<1>32. built[8] = Generated!Run("cii_parity", s, built[7])
  BY <1>1, <1>23
<1>33. built[9] = Generated!Run("coverage", s, built[8])
  BY <1>1, <1>23
<1>34. built[10] = Generated!Run("known_open_audit", s, built[9])
  BY <1>1, <1>23
<1>35. built[11] = Generated!Run("api_contract", s, built[10])
  BY <1>1, <1>23
<1>36. built[12] = Generated!Run("export", s, built[11])
  BY <1>1, <1>23
<1>37. built[13] = Generated!Run("rules_doc", s, built[12])
  BY <1>1, <1>23
<1>38. built[14] = Generated!Run("testsuite_conformance", s, built[13])
  BY <1>1, <1>23
<1>39. built[15] = Generated!Run("sbom", s, built[14])
  BY <1>1, <1>23
<1>40. built[16] = Generated!Run("examples", s, built[15])
  BY <1>1, <1>23
<1>41. built[17] = Generated!Run("attestation", s, built[16])
  BY <1>1, <1>23
<1> QED
  BY <1>22, <1>24, <1>25, <1>26, <1>27, <1>28, <1>29, <1>30, <1>31, <1>32, <1>33, <1>34, <1>35, <1>36, <1>37, <1>38, <1>39, <1>40, <1>41 DEF Publish, Settle

LEMMA SettleFiles ==
  ASSUME NEW s, Generated!Buildable(s), NEW d, Ready(s, d)
  PROVE  LET r == Settle(s, d)
             c == Generated!Catalog(s, d.matrix)
         IN  /\ Ready(s, r) /\ r.matrix = Generated!Matrix(s, Generated!TrueCatalog(s))
             /\ r.catalog = c /\ r.packaged = c
             /\ ~Generated!ParityAborts(s, d.matrix) => r.parity = Generated!Parity(s, d.matrix)
             /\ r.page = Generated!Page(s, r.matrix, r.parity, r.bindings)
<1> DEFINE c == Generated!Catalog(s, d.matrix)
           a == Generated!Run("remediation", s, d)
           b == Generated!Run("cii_parity", s, a)
           r == Generated!Run("coverage", s, b)
<1>1. /\ IsDisk(a) /\ \A x \in FileNames \ {"catalog", "packaged"} : a[x] = d[x]
      /\ a.catalog = c /\ a.packaged = c /\ GoodCatalog(c)
  BY RemediationRun DEF Ready
<1>2. a.matrix = d.matrix /\ a.parity = d.parity /\ a.bindings = d.bindings
  BY <1>1 DEF FileNames
<1>3. /\ IsDisk(b) /\ \A x \in FileNames \ {"parity"} : b[x] = a[x]
      /\ b.parity # Generated!Torn
      /\ ~Generated!ParityAborts(s, d.matrix) => b.parity = Generated!Parity(s, d.matrix)
  BY <1>1, <1>2, ParityRun DEF Ready
<1>4. b.matrix = d.matrix /\ b.catalog = c /\ b.packaged = c /\ b.bindings = d.bindings
  BY <1>1, <1>2, <1>3 DEF FileNames
<1>5. Generated!Whole(c) /\ c = Generated!PackagedCatalog(b) /\ b.bindings # Generated!Torn
  BY <1>4, WholeContents DEF Generated!PackagedCatalog, Ready, Generated!Whole
<1>6. /\ IsDisk(r) /\ \A x \in FileNames \ {"matrix", "page"} : r[x] = b[x]
      /\ r.matrix = Generated!Matrix(s, c)
      /\ r.page = Generated!Page(s, Generated!Matrix(s, c), b.parity, b.bindings)
  BY <1>1, <1>3, <1>5, CoverageRun
<1>7. r.parity = b.parity /\ r.catalog = c /\ r.packaged = c /\ r.bindings = b.bindings
  BY <1>4, <1>6 DEF FileNames
<1>8. r.matrix = Generated!Matrix(s, Generated!TrueCatalog(s))
  BY <1>6, SameMessages, MatrixOfMessages DEF Generated!TrueCatalog
<1>9. r = Settle(s, d)
  BY DEF Settle
<1>10. Titled(s, r.matrix)
  BY <1>8, GeneratedIsTitled
<1> HIDE DEF a, b, r, c
<1>11. Ready(s, r)
  BY <1>3, <1>4, <1>6, <1>7, <1>10 DEF Ready
<1> QED
  BY <1>3, <1>6, <1>7, <1>8, <1>9, <1>11 DEF c

\* The first three runs.
LEMMA ReadAgain ==
  ASSUME NEW s, Generated!Buildable(s), NEW f, IsDisk(f), \A x \in FileNames : Sound(x, f[x]),
         ~Generated!Stuck(s, f)
  PROVE  Ready(s, Generated!Run("coverage", s,
                    Generated!Run("cii_parity", s, Generated!Run("syntax_binding", s, f))))
<1> DEFINE a == Generated!Run("syntax_binding", s, f)
           b == Generated!Run("cii_parity", s, a)
           r == Generated!Run("coverage", s, b)
           c == Generated!PackagedCatalog(f)
<1>1. /\ IsDisk(a) /\ a.bindings = Generated!BindingCatalog(s)
      /\ \A x \in FileNames \ {"bindings"} : a[x] = f[x]
  BY BindingRun DEF Changed
<1>2. a.matrix = f.matrix /\ a.parity = f.parity /\ a.catalog = f.catalog /\ a.packaged = f.packaged
  BY <1>1 DEF FileNames
<1>3. f.parity # Generated!Torn \/ ~Generated!ParityAborts(s, f.matrix)
  BY DEF Generated!Stuck
<1>4. /\ IsDisk(b) /\ \A x \in FileNames \ {"parity"} : b[x] = a[x]
      /\ b.parity # Generated!Torn
  BY <1>1, <1>2, <1>3, ParityRun
<1>5. /\ b.matrix = f.matrix /\ b.catalog = f.catalog /\ b.packaged = f.packaged
      /\ b.bindings = Generated!BindingCatalog(s)
  BY <1>1, <1>2, <1>4 DEF FileNames
<1>6. c = Generated!PackagedCatalog(b) /\ b.bindings # Generated!Torn
  BY <1>5, WholeContents DEF Generated!PackagedCatalog, Generated!Whole
<1>7. CASE Generated!Whole(c)
  <2>1. GoodCatalog(c)
    <3>1. Sound("catalog", f.catalog) /\ Sound("packaged", f.packaged)
      BY DEF FileNames
    <3> QED
      BY <1>7, <3>1 DEF Sound, Generated!PackagedCatalog
  <2>2. /\ IsDisk(r) /\ \A x \in FileNames \ {"matrix", "page"} : r[x] = b[x]
        /\ r.matrix = Generated!Matrix(s, c)
    BY <1>4, <1>6, <1>7, <2>1, CoverageRun
  <2>3. r.parity = b.parity /\ r.bindings = b.bindings
    BY <2>2 DEF FileNames
  <2>4. Titled(s, r.matrix)
    BY <2>2, GeneratedIsTitled
  <2> QED
    BY <1>4, <1>5, <2>2, <2>3, <2>4 DEF Ready
<1>8. CASE ~Generated!Whole(c)
  <2>1. Generated!Aborts("coverage", s, b)
    BY <1>6, <1>8 DEF Generated!Aborts, Generated!MatrixAborts
  <2>2. r = b
    BY <2>1, RunCases
  <2>3. Titled(s, f.matrix)
    BY <1>8 DEF Generated!Stuck, Titled
  <2> QED
    BY <1>4, <1>5, <2>2, <2>3 DEF Ready
<1> QED
  BY <1>7, <1>8

\* d has the true content of the files of X.
Agrees(s, d, X) == IsDisk(d) /\ \A x \in X : d[x] = Generated!Truth(s)[x]
BaseFiles == {"matrix", "page", "catalog", "packaged", "parity", "bindings"}

LEMMA AgreeMore ==
  ASSUME NEW s, NEW d, NEW X, Agrees(s, d, X), X \subseteq FileNames, NEW r, NEW x \in FileNames, NEW z \in FileNames,
         Changed(d, r, x, Generated!Truth(s)[x])
           \/ Changed2(d, r, x, Generated!Truth(s)[x], z, Generated!Truth(s)[z])
  PROVE  /\ Changed(d, r, x, Generated!Truth(s)[x]) => Agrees(s, r, X \cup {x})
         /\ Changed2(d, r, x, Generated!Truth(s)[x], z, Generated!Truth(s)[z]) =>
              Agrees(s, r, X \cup {x, z})
<1> HIDE DEF FileNames
<1> QED
  BY DEF Agrees, Changed, Changed2

\* A generator that finds the true files writes the true files.
LEMMA PublishRuns ==
  ASSUME NEW s, Generated!Buildable(s), NEW d, NEW X, Agrees(s, d, X),
         BaseFiles \subseteq X, X \subseteq FileNames
  PROVE  /\ Agrees(s, Generated!Run("known_open_audit", s, d), X \cup {"audit"})
         /\ Agrees(s, Generated!Run("api_contract", s, d), X \cup {"api"})
         /\ Agrees(s, Generated!Run("export", s, d), X \cup {"rules", "coverage"})
         /\ Agrees(s, Generated!Run("rules_doc", s, d), X \cup {"rulesPage"})
         /\ Agrees(s, Generated!Run("testsuite_conformance", s, d), X \cup {"suite"})
         /\ Agrees(s, Generated!Run("sbom", s, d), X \cup {"sbom"})
         /\ Agrees(s, Generated!Run("examples", s, d), X \cup {"reports"})
         /\ {"audit", "api", "rules", "coverage", "suite", "sbom"} \subseteq X =>
              Agrees(s, Generated!Run("attestation", s, d),
                     X \cup {"attestation", "packagedAttestation"})
<1> DEFINE T == Generated!Truth(s)
<1>1. IsDisk(d) /\ d.matrix = T.matrix /\ d.catalog = T.catalog /\ d.packaged = T.packaged
      /\ d.parity = T.parity /\ d.bindings = T.bindings
  BY DEF Agrees, BaseFiles
<1>2. Generated!PackagedCatalog(d) = T.catalog /\ Generated!Whole(T.catalog)
  <2>1. T.catalog = Generated!TrueCatalog(s) /\ T.packaged = T.catalog
    BY TruthFiles
  <2>2. Generated!Whole(T.catalog)
    BY <2>1, WholeContents DEF Generated!TrueCatalog
  <2> HIDE DEF T
  <2> QED
    BY <1>1, <2>1, <2>2 DEF Generated!PackagedCatalog
<1>3. /\ ~Generated!Aborts("known_open_audit", s, d) /\ ~Generated!Aborts("export", s, d)
      /\ ~Generated!Aborts("rules_doc", s, d) /\ ~Generated!Aborts("api_contract", s, d)
      /\ ~Generated!Aborts("testsuite_conformance", s, d) /\ ~Generated!Aborts("sbom", s, d)
      /\ ~Generated!Aborts("examples", s, d)
  BY <1>1, <1>2, BuildableFacts DEF Generated!Aborts
<1>4. \A x \in {"audit", "api", "rules", "coverage", "rulesPage", "suite", "sbom", "reports",
               "attestation", "packagedAttestation"} : x \in FileNames
  BY DEF FileNames
<1>5. Changed(d, Generated!Run("known_open_audit", s, d), "audit", T.audit)
  BY <1>1, <1>3, RunCases, WrittenFiles, TruthFiles
<1>6. Changed(d, Generated!Run("api_contract", s, d), "api", T.api)
  BY <1>1, <1>3, RunCases, WrittenFiles, TruthFiles
<1>7. Changed2(d, Generated!Run("export", s, d), "rules", T.rules, "coverage", T.coverage)
  BY <1>1, <1>3, RunCases, WrittenFiles, TruthFiles
<1>8. Changed(d, Generated!Run("rules_doc", s, d), "rulesPage", T.rulesPage)
  BY <1>1, <1>2, <1>3, RunCases, WrittenFiles, TruthFiles
<1>9. Changed(d, Generated!Run("testsuite_conformance", s, d), "suite", T.suite)
  BY <1>1, <1>3, RunCases, WrittenFiles, TruthFiles
<1>10. Changed(d, Generated!Run("sbom", s, d), "sbom", T.sbom)
  BY <1>1, <1>3, RunCases, WrittenFiles, TruthFiles
<1>11. Changed(d, Generated!Run("examples", s, d), "reports", T.reports)
  BY <1>1, <1>3, RunCases, WrittenFiles, TruthFiles
<1>12. ASSUME {"audit", "api", "rules", "coverage", "suite", "sbom"} \subseteq X
       PROVE  Changed2(d, Generated!Run("attestation", s, d), "attestation", T.attestation,
                       "packagedAttestation", T.packagedAttestation)
  <2>1. /\ d.audit = T.audit /\ d.api = T.api /\ d.rules = T.rules /\ d.coverage = T.coverage
        /\ d.suite = T.suite /\ d.sbom = T.sbom
    BY <1>12 DEF Agrees
  <2>2. Generated!Attested(d) = Generated!Attested(T)
    BY <1>1, <2>1 DEF Generated!Attested
  <2>3. ~Generated!Aborts("attestation", s, d)
    BY <2>1, <2>2, BuildableFacts DEF Generated!Aborts
  <2>4. Attesting(s, d) = Attesting(s, T)
    BY <2>1, <2>2 DEF Attesting
  <2> QED
    BY <1>1, <2>3, <2>4, RunCases, WrittenFiles, TruthFiles
<1> HIDE DEF T
<1>13. \A r, x, z :
         /\ x \in FileNames /\ Changed(d, r, x, T[x]) => Agrees(s, r, X \cup {x})
         /\ x \in FileNames /\ z \in FileNames /\ Changed2(d, r, x, T[x], z, T[z]) =>
              Agrees(s, r, X \cup {x, z})
  BY AgreeMore DEF T
<1> QED
  BY <1>4, <1>5, <1>6, <1>7, <1>8, <1>9, <1>10, <1>11, <1>12, <1>13

LEMMA Published ==
  ASSUME NEW s, Generated!Buildable(s), NEW d, Agrees(s, d, BaseFiles)
  PROVE  Publish(s, d) = Generated!Truth(s)
<1> DEFINE d1 == Generated!Run("known_open_audit", s, d)
           d2 == Generated!Run("api_contract", s, d1)
           d3 == Generated!Run("export", s, d2)
           d4 == Generated!Run("rules_doc", s, d3)
           d5 == Generated!Run("testsuite_conformance", s, d4)
           d6 == Generated!Run("sbom", s, d5)
           d7 == Generated!Run("examples", s, d6)
           d8 == Generated!Run("attestation", s, d7)
           X1 == BaseFiles \cup {"audit"}
           X2 == X1 \cup {"api"}
           X3 == X2 \cup {"rules", "coverage"}
           X4 == X3 \cup {"rulesPage"}
           X5 == X4 \cup {"suite"}
           X6 == X5 \cup {"sbom"}
           X7 == X6 \cup {"reports"}
<1>1. /\ BaseFiles \subseteq FileNames /\ X1 \subseteq FileNames /\ X2 \subseteq FileNames
      /\ X3 \subseteq FileNames /\ X4 \subseteq FileNames /\ X5 \subseteq FileNames
      /\ X6 \subseteq FileNames /\ X7 \subseteq FileNames
      /\ FileNames \subseteq X7 \cup {"attestation", "packagedAttestation"}
      /\ {"audit", "api", "rules", "coverage", "suite", "sbom"} \subseteq X7
  BY DEF FileNames, BaseFiles
<1>2. /\ BaseFiles \subseteq X1 /\ BaseFiles \subseteq X2 /\ BaseFiles \subseteq X3 /\ BaseFiles \subseteq X4
      /\ BaseFiles \subseteq X5 /\ BaseFiles \subseteq X6 /\ BaseFiles \subseteq X7
  OBVIOUS
<1>3. d8 = Publish(s, d)
  BY DEF Publish
<1> HIDE DEF FileNames, BaseFiles
<1>4. Agrees(s, d1, X1)
  BY <1>1, PublishRuns
<1>5. Agrees(s, d2, X2)
  <2> HIDE DEF X1, d1
  <2> QED
    BY <1>1, <1>2, <1>4, PublishRuns
<1>6. Agrees(s, d3, X3)
  <2> HIDE DEF X2, d2
  <2> QED
    BY <1>1, <1>2, <1>5, PublishRuns
<1>7. Agrees(s, d4, X4)
  <2> HIDE DEF X3, d3
  <2> QED
    BY <1>1, <1>2, <1>6, PublishRuns
<1>8. Agrees(s, d5, X5)
  <2> HIDE DEF X4, d4
  <2> QED
    BY <1>1, <1>2, <1>7, PublishRuns
<1>9. Agrees(s, d6, X6)
  <2> HIDE DEF X5, d5
  <2> QED
    BY <1>1, <1>2, <1>8, PublishRuns
<1>10. Agrees(s, d7, X7)
  <2> HIDE DEF X6, d6
  <2> QED
    BY <1>1, <1>2, <1>9, PublishRuns
<1>11. Agrees(s, d8, X7 \cup {"attestation", "packagedAttestation"})
  <2> HIDE DEF X7, d7
  <2> QED
    BY <1>1, <1>2, <1>10, PublishRuns
<1> HIDE DEF X7, d8
<1>12. IsDisk(d8) /\ \A x \in FileNames : d8[x] = Generated!Truth(s)[x]
  BY <1>1, <1>11 DEF Agrees
<1> QED
  BY <1>3, <1>12, TruthIsDisk, FileContents

LEMMA RebuiltIsTrue ==
  ASSUME NEW s, Generated!Buildable(s), NEW f, IsDisk(f), \A x \in FileNames : Sound(x, f[x]),
         ~Generated!Stuck(s, f)
  PROVE  Generated!Rebuilt(s, f) = Generated!Truth(s)
<1> DEFINE T == Generated!Truth(s)
           a == Generated!Run("coverage", s,
                  Generated!Run("cii_parity", s, Generated!Run("syntax_binding", s, f)))
           b == Settle(s, a)
           d == Settle(s, b)
<1>1. Ready(s, a)
  BY ReadAgain
<1>2. Generated!Rebuilt(s, f) = Publish(s, d)
  BY RebuiltRounds
<1> HIDE DEF a
<1>3. Ready(s, b) /\ b.matrix = T.matrix
  BY <1>1, SettleFiles, TruthFiles
<1> HIDE DEF b
<1>4. /\ Ready(s, d) /\ d.matrix = T.matrix /\ d.catalog = Generated!Catalog(s, T.matrix)
      /\ d.packaged = Generated!Catalog(s, T.matrix) /\ d.parity = T.parity
      /\ d.page = Generated!Page(s, d.matrix, d.parity, d.bindings)
  BY <1>3, SettleFiles, TruthFiles, BuildableFacts
<1>5. Generated!Catalog(s, T.matrix) = T.catalog /\ T.packaged = T.catalog
  BY TruthFiles, MatrixRules, CatalogTitles
<1>6. d.bindings = T.bindings /\ IsDisk(d)
  BY <1>4, TruthFiles DEF Ready
<1>7. d.page = T.page
  BY <1>4, <1>6, TruthFiles
<1> HIDE DEF d
<1>8. Agrees(s, d, BaseFiles)
  BY <1>4, <1>5, <1>6, <1>7 DEF Agrees, BaseFiles
<1> QED
  BY <1>2, <1>8, Published

\* The true files of sources that build reproduce, and their attestation verifies.
LEMMA TruthReproduces ==
  ASSUME NEW s, Generated!Buildable(s)
  PROVE  Generated!AllReproduced(s, Generated!Truth(s)) /\ Generated!VerifyPasses(s, Generated!Truth(s))
<1> DEFINE T == Generated!Truth(s)
<1>1. IsDisk(T) /\ \A g \in Generated!Generators : ~Generated!Aborts(g, s, T)
  BY TruthIsDisk DEF Generated!Buildable
<1>2. Generated!PackagedCatalog(T) = T.catalog
  BY TruthFiles DEF Generated!PackagedCatalog
<1>3. T.catalog = Generated!Catalog(s, T.matrix) /\ T.packaged = T.catalog
  BY TruthFiles, MatrixRules, CatalogTitles
<1>4. \A g \in Generated!Generators :
        IsDisk(Generated!Written(g, s, T)) /\ \A x \in FileNames : Generated!Written(g, s, T)[x] = T[x]
  <2> SUFFICES ASSUME NEW g \in Generated!Generators
               PROVE  IsDisk(Generated!Written(g, s, T))
                      /\ \A x \in FileNames : Generated!Written(g, s, T)[x] = T[x]
    OBVIOUS
  <2> HIDE DEF T, FileNames
  <2>1. \/ \E x : Changed(T, Generated!Written(g, s, T), x, T[x])
        \/ \E x, z : Changed2(T, Generated!Written(g, s, T), x, T[x], z, T[z])
    <3>1. CASE g = "coverage"
      BY <1>1, <1>2, <3>1, WrittenFiles, TruthFiles DEF T
    <3>2. CASE g = "remediation"
      BY <1>1, <1>3, <3>2, WrittenFiles DEF T
    <3>3. CASE g \in {"export", "attestation"}
      BY <1>1, <3>3, WrittenFiles, TruthFiles DEF T
    <3>4. CASE g = "rules_doc"
      BY <1>1, <1>2, <3>4, WrittenFiles, TruthFiles DEF T
    <3>5. CASE g \in {"cii_parity", "syntax_binding", "known_open_audit"}
      BY <1>1, <3>5, WrittenFiles, TruthFiles DEF T
    <3>6. CASE g \in {"api_contract", "testsuite_conformance", "sbom", "examples"}
      BY <1>1, <3>6, WrittenFiles, TruthFiles DEF T
    <3> QED
      BY <3>1, <3>2, <3>3, <3>4, <3>5, <3>6, GeneratorNames
  <2> QED
    BY <2>1 DEF Changed, Changed2
<1>5. \A g \in Generated!Generators : Generated!Written(g, s, T) = T
  BY <1>1, <1>4, FileContents
<1>6. Generated!AllReproduced(s, T)
  BY <1>1, <1>5 DEF Generated!AllReproduced, Generated!Reproduces
<1>7. T.attestation = Attesting(s, T) /\ T.sbom = Generated!Sbom(s)
  BY TruthFiles
<1>8. /\ Generated!Whole(T.attestation) /\ T.attestation.corpus = T.sbom.components
      /\ T.attestation.artifacts = Generated!Attested(T)
  <2>1. /\ "corpus" \in DOMAIN Attesting(s, T) /\ Attesting(s, T).corpus = T.sbom.components
        /\ Attesting(s, T).artifacts = Generated!Attested(T)
    BY DEF Attesting, Generated!Attestation
  <2> QED
    BY <1>7, <2>1 DEF Generated!Whole, Generated!Torn, Generated!Absent
<1>9. \A c \in DOMAIN T.attestation.corpus : Generated!CorpusDigest(s, c) = T.attestation.corpus[c]
  BY <1>7, <1>8 DEF Generated!Sbom
<1>10. \A x \in DOMAIN Generated!Attested(T) :
         T[x] = Generated!Attested(T)[x] /\ Generated!Attested(T)[x] # Generated!Absent
  <2>1. \A x \in DOMAIN Generated!Attested(T) : Generated!Attested(T)[x] # Generated!Absent
    BY BuildableFacts DEF Generated!AttestationAborts
  <2>2. \A x \in DOMAIN Generated!Attested(T) : T[x] = Generated!Attested(T)[x]
    <3> HIDE DEF T
    <3> QED
      BY DEF Generated!Attested
  <2> QED
    BY <2>1, <2>2
<1>11. Generated!Written("attestation", s, T).attestation = T.attestation
       /\ ~Generated!Aborts("attestation", s, T)
  BY <1>1, <1>5, GeneratorNames
<1>12. Generated!VerifyPasses(s, T)
  <2> HIDE DEF T
  <2> QED
    BY <1>8, <1>9, <1>10, <1>11 DEF Generated!VerifyPasses
<1> QED
  BY <1>6, <1>12

\* A disk that is stuck stays so, whichever generator runs.
LEMMA StuckStays ==
  ASSUME NEW s, NEW f, IsDisk(f), Generated!Stuck(s, f), NEW g \in Generated!Generators
  PROVE  Generated!Stuck(s, Generated!Run(g, s, f))
<1> DEFINE r == Generated!Run(g, s, f)
<1>1. CASE Generated!Aborts(g, s, f)
  BY <1>1, RunCases
<1>2. CASE ~Generated!Aborts(g, s, f)
  <2>1. r = Generated!Written(g, s, f)
    BY <1>2, RunCases
  <2>2. g \notin {"coverage", "remediation", "cii_parity"} =>
          /\ r.matrix = f.matrix /\ r.catalog = f.catalog /\ r.packaged = f.packaged
          /\ r.parity = f.parity
    BY <2>1, WrittenFiles, GeneratorNames DEF Changed, Changed2, FileNames
  <2>3. CASE ~Generated!Whole(Generated!PackagedCatalog(f)) /\ ~Titled(s, f.matrix)
    <3>1. g # "coverage"
      BY <1>2, <2>3 DEF Generated!Aborts, Generated!MatrixAborts
    <3>2. g # "remediation"
      BY <1>2, <2>3 DEF Generated!Aborts, Generated!CatalogAborts, Generated!Unworded, Titled
    <3>3. g = "cii_parity" =>
            r.matrix = f.matrix /\ r.catalog = f.catalog /\ r.packaged = f.packaged
      BY <2>1, WrittenFiles DEF Changed, FileNames
    <3>4. r.matrix = f.matrix /\ r.catalog = f.catalog /\ r.packaged = f.packaged
      BY <2>2, <3>1, <3>2, <3>3
    <3> QED
      BY <2>3, <3>4 DEF Generated!Stuck, Generated!PackagedCatalog, Titled
  <2>4. CASE f.parity = Generated!Torn /\ Generated!ParityAborts(s, f.matrix)
    <3>1. g # "coverage" /\ g # "cii_parity"
      BY <1>2, <2>4 DEF Generated!Aborts, Generated!PageAborts
    <3>2. g = "remediation" => r.matrix = f.matrix /\ r.parity = f.parity
      BY <2>1, WrittenFiles DEF Changed2, FileNames
    <3> QED
      BY <2>2, <2>4, <3>1, <3>2 DEF Generated!Stuck
  <2> QED
    BY <2>3, <2>4 DEF Generated!Stuck, Titled
<1> QED
  BY <1>1, <1>2

\* For all revisions, edits, runs and kills: the generators bring a disk back to what its
\* sources say, unless it is stuck, and then no generator changes that.
THEOREM RebuildConverges == ReleaseSpec => []RebuildsUnlessStuck
<1>1. ArtPart => RebuildsUnlessStuck
  <2> SUFFICES ASSUME ArtInv, sources \in Releases
               PROVE  IF Generated!Stuck(sources, surface)
                      THEN \A g \in Generated!Generators :
                             Generated!Stuck(sources, Generated!Run(g, sources, surface))
                      ELSE /\ Generated!AllReproduced(sources, Generated!Rebuilt(sources, surface))
                           /\ Generated!VerifyPasses(sources, Generated!Rebuilt(sources, surface))
    BY DEF ArtPart, RebuildsUnlessStuck, Generated!RebuildsUnlessStuck, Generated!Restored
  <2>1. Generated!Buildable(sources) /\ IsDisk(surface) /\ \A x \in FileNames : Sound(x, surface[x])
    BY ReleasesBuild DEF ArtInv, DiskInv
  <2>2. CASE Generated!Stuck(sources, surface)
    BY <2>1, <2>2, StuckStays
  <2>3. CASE ~Generated!Stuck(sources, surface)
    BY <2>1, <2>3, RebuiltIsTrue, TruthReproduces
  <2> QED
    BY <2>2, <2>3
<1> QED
  BY <1>1, ArtifactsInv, PTL
=============================================================================
