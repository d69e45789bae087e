--------------------------- MODULE RegistryLedger ---------------------------
(***************************************************************************)
(* What the contribution registry promises, without its storage layout:    *)
(* one append-only ledger in which a digest appears at most once, every    *)
(* edge points to an earlier entry, and an author-bound entry was claimed  *)
(* by its author beforehand.  Time, blinding and the indexes are gone.     *)
(***************************************************************************)
EXTENDS Naturals, Sequences

CONSTANTS Account, Digest, NoParent

VARIABLES ledger,  \* the entries, in insertion order
          claims   \* the <<digest, account>> pairs some commitment has registered

ledgerVars == <<ledger, claims>>

Digests == {ledger[i].digest : i \in 1 .. Len(ledger)}

LedgerInit == ledger = <<>> /\ claims = {}

Claim(digest, account) ==
  /\ claims' = claims \cup {<<digest, account>>}
  /\ UNCHANGED ledger

Enter(digest, account, bound, parent) ==
  /\ digest \notin Digests
  /\ parent \in Digests \cup {NoParent}
  /\ bound => <<digest, account>> \in claims
  /\ ledger' = Append(ledger, [digest |-> digest, account |-> account,
                               bound |-> bound, parent |-> parent])
  /\ UNCHANGED claims

LedgerNext ==
  \E digest \in Digest, account \in Account :
    \/ Claim(digest, account)
    \/ \E bound \in BOOLEAN, parent \in Digest \cup {NoParent} :
         Enter(digest, account, bound, parent)

LedgerSpec == LedgerInit /\ [][LedgerNext]_ledgerVars
=============================================================================
