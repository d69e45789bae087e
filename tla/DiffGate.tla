------------------------------ MODULE DiffGate ------------------------------
(***************************************************************************)
(* The differential gate of differential.py: every leg compares our        *)
(* verdicts with the official Schematron's over a corpus.  A gate runs the *)
(* light legs whole and the heavy ones in shards, as subprocesses of a     *)
(* pool; each replays verdicts of a content-addressed cache directory,     *)
(* writes its fresh ones as a file of its own, and the parent folds those  *)
(* files into cache.json once all have been joined.                        *)
(*                                                                         *)
(* An invoice is its bytes; a label names a corpus entry, a path a file.   *)
(***************************************************************************)
EXTENDS Integers, Sequences, FiniteSets, SequencesExt, FiniteSetsExt

CONSTANTS
  Gates,            \* runs of the gate
  LightLegs, HeavyLegs,
  ShardCount,       \* shards of a heavy leg
  Cores,            \* subprocesses at a time
  Gathered,         \* leg -> sequence of [label, path] the gatherers found
  Bytes,            \* path -> the invoice in the file
  Digest,           \* label -> md5 as a number
  Ours,             \* <<tree version, invoice>> -> our verdict: {the rules
                    \* fired}, or {} when the code raises
  Official,         \* invoice -> the Schematron's verdict, or {}
  MaxVersion,       \* bound: edits of the source tree
  MaxFaults,        \* bound: killed processes and failed cache writes
  EditWhileGrading, \* the source tree may change under a running gate
  Overlapping       \* two gates may run at the same time

Legs == LightLegs \cup HeavyLegs
Entries == [label : DOMAIN Digest, path : DOMAIN Bytes]
Invoices == DOMAIN Official

\* A validator says one thing of an invoice, or nothing.
OneVerdict(outcome) == IsFiniteSet(UNION outcome) /\ \A r, s \in outcome : r = s

ASSUME GateConstants ==
  /\ ShardCount \in Nat \ {0} /\ Cores \in Nat \ {0} /\ MaxVersion \in Nat \ {0}
  /\ MaxFaults \in Nat /\ EditWhileGrading \in BOOLEAN /\ Overlapping \in BOOLEAN

ASSUME GateCorpus ==
  /\ IsFiniteSet(Legs) /\ LightLegs \cap HeavyLegs = {}
  /\ Gathered \in [Legs -> Seq(Entries)]
  /\ Bytes \in [DOMAIN Bytes -> Invoices] /\ Digest \in [DOMAIN Digest -> Nat]
  /\ \A inv \in Invoices : /\ OneVerdict(Official[inv])
                           /\ \A version \in 1..MaxVersion : OneVerdict(Ours[<<version, inv>>])

VARIABLES
  tree,    \* the version of the package sources on disk
  disk,    \* the cache directory: file name -> entries; a file that does not
           \* parse is read as one without entries
  tmp,     \* .cache.json.tmp: <<>> or <<its content>>
  worker,  \* gate -> job -> the subprocess
  gate,    \* gate -> the parent
  faults
vars == <<tree, disk, tmp, worker, gate, faults>>

(***************************************************************************)
(* The corpus of a leg and its shards.                                     *)
(***************************************************************************)
Whole == -1

\* What a sequence has at some of its places, in order.
KeptAt(all, places) ==
  LET kept[n \in 0..Len(all)] ==
        IF n = 0 THEN <<>>
        ELSE IF n \in places THEN Append(kept[n - 1], all[n]) ELSE kept[n - 1]
  IN  kept[Len(all)]

\* build_corpus and its siblings: the first entry of each path.
Corpus(leg) ==
  LET all == Gathered[leg]
  IN  KeptAt(all, {i \in DOMAIN all : \A k \in 1..(i - 1) : all[k].path # all[i].path})

\* _maybe_shard: by the digest of the label.
MaybeShard(corpus, shard) ==
  IF shard = Whole THEN corpus
  ELSE KeptAt(corpus, {i \in DOMAIN corpus : Digest[corpus[i].label] % ShardCount = shard})

Jobs == (LightLegs \X {Whole}) \cup (HeavyLegs \X (0..(ShardCount - 1)))
JobCorpus(job) == MaybeShard(Corpus(job[1]), job[2])

(***************************************************************************)
(* The cache.  An entry is <<key, verdict>>; our side's key carries the    *)
(* salt, the fingerprint of the package sources.                           *)
(***************************************************************************)
\* Mutant: the fingerprint is left out of the key.
OurKeyUnsalted(salt, inv) == <<"ours", 1, inv>>

OurKey(salt, inv) == <<"ours", salt, inv>>
OfficialKey(inv) == <<"official", 0, inv>>
CacheFile == <<"cache.json">>

\* What a run on the key's inputs would give.
Verdict(key) == IF key[1] = "ours" THEN Ours[<<key[2], key[3]>>] ELSE Official[key[3]]

\* _load_disk_cache: every readable file.
LoadDiskCache == UNION {disk[f] : f \in DOMAIN disk}

Hits(entries, key) == {e \in entries : e[1] = key}

Fresh(job) ==
  [pc |-> "queued", ver |-> 0, salt |-> 0, cache |-> {}, loaded |-> FALSE,
   delta |-> {}, todo |-> JobCorpus(job), off |-> {}, div |-> 0, graded |-> {}]

IdleParent ==
  [pc |-> "idle", listed |-> {}, merged |-> {}, writes |-> "none",
   divergences |-> 0, failed |-> FALSE]

Init ==
  /\ tree = 1 /\ disk = [f \in {} |-> {}] /\ tmp = <<>> /\ faults = 0
  /\ worker = [g \in Gates |-> [j \in Jobs |-> Fresh(j)]]
  /\ gate = [g \in Gates |-> IdleParent]

\* Mutant: a killed subprocess keeps its place in the pool.
RunningOrDead(g) == {j \in Jobs : worker[g][j].pc \notin {"queued", "exited"}}

Running(g) == {j \in Jobs : worker[g][j].pc \notin {"queued", "exited", "dead"}}
Active(g) == gate[g].pc \notin {"idle", "finished", "killed"}
Quiet(g) == ~Active(g) /\ Running(g) = {}

(***************************************************************************)
(* A subprocess.                                                           *)
(***************************************************************************)
StartGate(g) ==
  /\ gate[g].pc = "idle" /\ (Overlapping \/ \A o \in Gates : Quiet(o))
  /\ gate' = [gate EXCEPT ![g].pc = "grading"]
  /\ UNCHANGED <<tree, disk, tmp, worker, faults>>

\* _run_leg_subprocess: python imports the package as it is now.
StartWorker(g, j) ==
  /\ gate[g].pc = "grading" /\ worker[g][j].pc = "queued"
  /\ Cardinality(Running(g)) < Cores
  /\ worker' = [worker EXCEPT ![g][j] = [@ EXCEPT !.pc = "official", !.ver = tree]]
  /\ UNCHANGED <<tree, disk, tmp, gate, faults>>

\* The directory is read once, at the first lookup.
Loaded(w) == IF w.loaded THEN w.cache ELSE LoadDiskCache

\* Official.fired of the next invoice: replayed, or a fresh transform; an
\* error skips the invoice and is never cached.
OfficialStep(g, j) ==
  LET w == worker[g][j]
      inv == Bytes[w.todo[1].path]
      key == OfficialKey(inv)
      hits == Hits(Loaded(w), key)
      read == [w EXCEPT !.loaded = TRUE, !.cache = Loaded(w)]
  IN  /\ w.pc = "official" /\ w.todo # <<>>
      /\ worker' = [worker EXCEPT ![g][j] =
           IF hits # {}
           THEN [read EXCEPT !.pc = "ours", !.off = (CHOOSE e \in hits : TRUE)[2]]
           ELSE IF Official[inv] = {}
           THEN [read EXCEPT !.todo = Tail(@)]
           ELSE [read EXCEPT !.pc = "ours", !.off = UNION Official[inv],
                             !.delta = @ \cup {<<key, UNION Official[inv]>>}]]
      /\ UNCHANGED <<tree, disk, tmp, gate, faults>>

\* _our_salt: computed once per process, from the files as they are then.
OurSalt(w) == IF w.salt = 0 THEN tree ELSE w.salt

\* Mutant: rules only we fire are not counted.
DivergentMisses(off, ours) == Cardinality(off \ ours)

\* _run_leg's tally of one invoice: a divergence per rule fired on one side.
Divergent(off, ours) == Cardinality((off \ ours) \cup (ours \ off))

Tallied(w, ours) ==
  [w EXCEPT !.pc = "official", !.todo = Tail(@), !.graded = @ \cup {w.todo[1]},
            !.div = @ + Divergent(w.off, ours)]

\* Mutant: an exception is cached as a verdict that fires nothing.
CachedOurFiredErrors(g, j) ==
  LET w == worker[g][j]
      inv == Bytes[w.todo[1].path]
      key == OurKey(OurSalt(w), inv)
      salted == [w EXCEPT !.salt = OurSalt(w)]
      seen == UNION Ours[<<w.ver, inv>>]
  IN  /\ w.pc = "ours"
      /\ worker' = [worker EXCEPT ![g][j] =
           Tallied([salted EXCEPT !.delta = @ \cup {<<key, seen>>}], seen)]
      /\ UNCHANGED <<tree, disk, tmp, gate, faults>>

\* _cached_our_fired, then the tally.
CachedOurFired(g, j) ==
  LET w == worker[g][j]
      inv == Bytes[w.todo[1].path]
      key == OurKey(OurSalt(w), inv)
      hits == Hits(w.cache, key)
      salted == [w EXCEPT !.salt = OurSalt(w)]
      fired == Ours[<<w.ver, inv>>]
  IN  /\ w.pc = "ours"
      /\ worker' = [worker EXCEPT ![g][j] =
           IF hits # {} THEN Tallied(salted, (CHOOSE e \in hits : TRUE)[2])
           ELSE IF fired = {}
           THEN [salted EXCEPT !.pc = "official", !.todo = Tail(@)]
           ELSE Tallied([salted EXCEPT !.delta = @ \cup {<<key, UNION fired>>}],
                        UNION fired)]
      /\ UNCHANGED <<tree, disk, tmp, gate, faults>>

WithFile(name, content) ==
  [f \in DOMAIN disk \cup {name} |-> IF f = name THEN content ELSE disk[f]]

\* Official.close: _flush_delta writes a uniquely named file and renames it
\* into place; a write failure is swallowed.
FlushDelta(g, j) ==
  LET w == worker[g][j]
  IN  /\ w.pc = "official" /\ w.todo = <<>>
      /\ worker' = [worker EXCEPT ![g][j] = [@ EXCEPT !.pc = "exited", !.delta = {}]]
      /\ \/ /\ disk' = IF w.delta = {} THEN disk ELSE WithFile(<<g, j>>, w.delta)
            /\ UNCHANGED faults
         \/ /\ w.delta # {} /\ faults < MaxFaults
            /\ faults' = faults + 1 /\ UNCHANGED disk
      /\ UNCHANGED <<tree, tmp, gate>>

\* The subprocess is killed: no divergence line, a non-zero return code.
KillWorker(g, j) ==
  /\ worker[g][j].pc \in {"official", "ours"} /\ faults < MaxFaults
  /\ worker' = [worker EXCEPT ![g][j] = [@ EXCEPT !.pc = "dead", !.delta = {}]]
  /\ faults' = faults + 1
  /\ UNCHANGED <<tree, disk, tmp, gate>>

(***************************************************************************)
(* The parent: _consolidate_disk_cache, then the sum.                      *)
(***************************************************************************)
Settled(w) == w.pc \in {"exited", "dead"}
JsonFiles == DOMAIN disk

JoinAndList(g) ==
  /\ gate[g].pc = "grading" /\ \A j \in Jobs : Settled(worker[g][j])
  /\ gate' = [gate EXCEPT ![g] =
       [@ EXCEPT !.listed = JsonFiles,
                 !.pc = IF Cardinality(JsonFiles) <= 1 THEN "summing" ELSE "merging"]]
  /\ UNCHANGED <<tree, disk, tmp, worker, faults>>

\* The listed files that are still there; then the temporary file is opened,
\* which truncates it.
Merge(g) ==
  LET found == gate[g].listed \cap DOMAIN disk
  IN  /\ gate[g].pc = "merging"
      /\ gate' = [gate EXCEPT ![g] =
           [@ EXCEPT !.pc = "writing", !.writes = "tmp", !.merged = UNION {disk[f] : f \in found}]]
      /\ tmp' = <<{}>>
      /\ UNCHANGED <<tree, disk, worker, faults>>

\* The dump is complete.  Where another parent has the same file open, or
\* has already renamed it to cache.json, the bytes of both land in it.
DumpMerged(g) ==
  LET shared == \E o \in Gates \ {g} : gate[o].writes # "none"
      contents == {gate[g].merged} \cup (IF shared THEN {{}} ELSE {})
  IN  /\ gate[g].pc = "writing"
      /\ gate' = [gate EXCEPT ![g] = [@ EXCEPT !.pc = "replacing", !.writes = "none"]]
      /\ \E content \in contents :
           IF gate[g].writes = "tmp"
           THEN tmp' = <<content>> /\ UNCHANGED disk
           ELSE disk' = WithFile(CacheFile, content) /\ UNCHANGED tmp
      /\ UNCHANGED <<tree, worker, faults>>

\* os.replace; without a temporary file it raises, and the rest is skipped.
ReplaceCache(g) ==
  /\ gate[g].pc = "replacing"
  /\ IF tmp = <<>>
     THEN /\ gate' = [gate EXCEPT ![g].pc = "summing"]
          /\ UNCHANGED <<disk, tmp>>
     ELSE /\ disk' = WithFile(CacheFile, tmp[1]) /\ tmp' = <<>>
          /\ gate' = [o \in Gates |->
                        IF o = g THEN [gate[g] EXCEPT !.pc = "unlinking"]
                        ELSE IF gate[o].writes = "tmp"
                        THEN [gate[o] EXCEPT !.writes = "cache"] ELSE gate[o]]
  /\ UNCHANGED <<tree, worker, faults>>

\* Mutant: the deltas are removed before the merged file is in place.
UnlinkFirst(g) ==
  /\ gate[g].pc \in {"replacing", "unlinking"}
  /\ disk' = [f \in DOMAIN disk \ (gate[g].listed \ {CacheFile}) |-> disk[f]]
  /\ gate' = [gate EXCEPT ![g] =
       [@ EXCEPT !.pc = IF @ = "unlinking" THEN "summing" ELSE @, !.listed = {}]]
  /\ UNCHANGED <<tree, tmp, worker, faults>>

UnlinkDeltas(g) ==
  /\ gate[g].pc = "unlinking"
  /\ disk' = [f \in DOMAIN disk \ (gate[g].listed \ {CacheFile}) |-> disk[f]]
  /\ gate' = [gate EXCEPT ![g].pc = "summing"]
  /\ UNCHANGED <<tree, tmp, worker, faults>>

\* run_differential_parallel's report: a subprocess that was killed or found
\* a divergence fails the gate.
Summed(g) ==
  SumFunction([j \in Jobs |-> IF worker[g][j].pc = "exited" THEN worker[g][j].div ELSE 0])

Report(g) ==
  /\ gate[g].pc = "summing"
  /\ gate' = [gate EXCEPT ![g] =
       [@ EXCEPT !.pc = "finished", !.divergences = Summed(g),
                 !.failed = \E j \in Jobs : worker[g][j].pc = "dead" \/ worker[g][j].div # 0]]
  /\ UNCHANGED <<tree, disk, tmp, worker, faults>>

\* The parent is killed; a subprocess that is running goes on.
KillParent(g) ==
  /\ gate[g].pc \in {"grading", "merging", "writing", "replacing", "unlinking"}
  /\ faults < MaxFaults /\ faults' = faults + 1
  /\ gate' = [gate EXCEPT ![g] = [@ EXCEPT !.pc = "killed", !.writes = "none"]]
  /\ UNCHANGED <<tree, disk, tmp, worker>>

\* A developer saves another version of the sources.
EditTree ==
  /\ tree < MaxVersion /\ tree' = tree + 1
  /\ EditWhileGrading \/ \A g \in Gates : Quiet(g)
  /\ UNCHANGED <<disk, tmp, worker, gate, faults>>

WorkerStep(g, j) ==
  \/ StartWorker(g, j) \/ OfficialStep(g, j) \/ CachedOurFired(g, j) \/ FlushDelta(g, j)
ParentStep(g) ==
  \/ JoinAndList(g) \/ Merge(g) \/ DumpMerged(g) \/ ReplaceCache(g) \/ UnlinkDeltas(g)
  \/ Report(g)

GateNext ==
  \/ \E g \in Gates : StartGate(g) \/ ParentStep(g) \/ KillParent(g)
  \/ \E g \in Gates, j \in Jobs : WorkerStep(g, j) \/ KillWorker(g, j)
Next == GateNext \/ EditTree

Spec == Init /\ [][Next]_vars

\* Gates on a tree that stands still.
StillSpec == Init /\ [][GateNext]_vars

\* The operating system runs every process that is not killed.
FairSpec ==
  /\ Spec
  /\ \A g \in Gates : WF_vars(ParentStep(g))
  /\ \A g \in Gates, j \in Jobs : WF_vars(WorkerStep(g, j))

(***************************************************************************)
(* Properties.                                                             *)
(***************************************************************************)
AllEntries ==
  LoadDiskCache \cup (UNION ToSet(tmp))
    \cup (UNION {worker[g][j].delta : g \in Gates, j \in Jobs})

\* "A verdict is replayed ONLY when the code under test and its inputs are
\* byte-for-byte the tree that was already proven" (differential.py:752):
\* whatever files two gates, killed subprocesses and failed writes leave, an
\* entry found under a key is what a live run on the key's tree and invoice
\* gives, and an error is never an entry.
CacheIsMemo == \A e \in AllEntries : e[2] \in Verdict(e[1])

GatedTree(g) == Max({worker[g][j].ver : j \in Jobs})

\* The rules on which the two sides differ about an entry both have a verdict on.
Disputed(version, x) ==
  LET off  == Official[Bytes[x.path]]
      ours == Ours[<<version, Bytes[x.path]>>]
  IN  {r \in UNION (off \cup ours) : off # {} /\ ours # {} /\ (r \in UNION off) # (r \in UNION ours)}

Disputes(version, entries) ==
  UNION {{<<x, r>> : r \in Disputed(version, x)} : x \in entries}

WholeCorpusTotal(version) ==
  Cardinality(UNION {{leg} \X Disputes(version, ToSet(Corpus(leg))) : leg \in Legs})

\* "divergences are counted per (rule, invoice) so the sharded totals sum to
\* the exact whole-corpus total" (differential.py:7258): a gate whose
\* subprocesses all completed reports what one live pass over every leg
\* would, from a warm cache as from an empty one, and says OK only then.
GateExact ==
  \A g \in Gates : gate[g].pc = "finished" =>
    LET complete == \A j \in Jobs : worker[g][j].pc = "exited"
        total == WholeCorpusTotal(GatedTree(g))
    IN  /\ complete => gate[g].divergences = total
        /\ gate[g].failed <=> ~complete \/ total # 0

\* "every invoice is still graded once, in exactly one shard"
\* (differential.py:6906), unless one of the sides has no verdict on it.
GradedOnce ==
  \A g \in Gates : gate[g].pc = "finished" =>
    \A leg \in Legs :
      LET jobs == {j \in Jobs : j[1] = leg}
          Gradable(x) == /\ Official[Bytes[x.path]] # {}
                         /\ Ours[<<GatedTree(g), Bytes[x.path]>>] # {}
      IN  (\A j \in jobs : worker[g][j].pc = "exited") =>
            \A x \in ToSet(Corpus(leg)) :
              Cardinality({j \in jobs : x \in worker[g][j].graded})
                = IF Gradable(x) THEN 1 ELSE 0

\* One gate at a time loses no verdict it has written, whatever is killed
\* and wherever: the deltas go only once cache.json holds what they held.
NothingLost == [][LoadDiskCache \subseteq LoadDiskCache']_vars

\* A gate that is started ends, also when subprocesses die or the cache
\* cannot be written, unless the parent itself is killed.
GateEnds == \A g \in Gates : Active(g) ~> gate[g].pc \in {"finished", "killed"}
=============================================================================
