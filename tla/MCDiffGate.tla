----------------------------- MODULE MCDiffGate -----------------------------
(***************************************************************************)
(* The differential gate for TLC: a light leg with a file found twice and  *)
(* one the Schematron cannot transform, a heavy leg of three entries that  *)
(* the digest spreads over two shards.  Version 1 of the sources disagrees *)
(* on one invoice in both directions and raises on another; version 2 is   *)
(* repaired; version 3 raises where it did not.                            *)
(***************************************************************************)
EXTENDS DiffGate

Entry(label, path) == [label |-> label, path |-> path]
MCGathered ==
  "en" :> <<Entry("a", "f1"), Entry("b", "f1"), Entry("e", "f4")>>
    @@ "sb" :> <<Entry("a", "f1"), Entry("c", "f2"), Entry("d", "f3")>>
MCBytes == "f1" :> "valid" @@ "f2" :> "broken" @@ "f3" :> "garbled" @@ "f4" :> "cut off"
MCDigest == "a" :> 4 @@ "b" :> 7 @@ "c" :> 5 @@ "d" :> 9 @@ "e" :> 2

MCOfficial ==
  "valid" :> {{}} @@ "broken" :> {{"r1", "r2"}} @@ "garbled" :> {{}} @@ "cut off" :> {}
MCOurs ==
  [vi \in (1..MaxVersion) \X DOMAIN MCOfficial |->
     CASE vi = <<1, "broken">> -> {{"r2", "r3"}}
       [] vi[2] = "broken" -> {{"r1", "r2"}}
       [] vi \in {<<1, "garbled">>, <<3, "valid">>} -> {}
       [] OTHER -> {{}}]

GateSymmetry == Permutations(Gates)

\* A gate that finishes reports exactly the invoices on which the two validators disagree
\* and those it could not compare, as one live run would, each graded once however shards,
\* slots and the cache divide the work (run_differential_parallel).
GateIsHonest == GateExact /\ GradedOnce
=============================================================================
