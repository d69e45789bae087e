----------------------------- MODULE MCClaimCli -----------------------------
(***************************************************************************)
(* Finite instances of the claiming client for TLC.  A user either keeps   *)
(* to the resumable split of vh commit and vh reveal, or also runs the     *)
(* one-shot vh claim.                                                      *)
(***************************************************************************)
EXTENDS ClaimCli, TLC

VARIABLE split   \* this user never runs vh claim
userVars == <<cliVars, split>>

UserInit == CliInit /\ split \in BOOLEAN
UserNext ==
  /\ CliNext
  /\ split /\ proc'.pc = "commit_sent" => proc'.cmd = "commit"
  /\ UNCHANGED split

\* The fairness of the client and the chain, for either user.
UserSpec == UserInit /\ [][UserNext]_userVars /\ Fairness

\* A receipt that can be read can be used, whatever crashed, was retried or overwritten, and
\* a reveal that fails all the same fails because the digest is taken (runReveal).
ReceiptServes == ReceiptOpens /\ FailuresExplained

\* Who keeps to vh commit and vh reveal never loses the lineage edge asked for.
SplitKeepsEdge == split => EdgeKept
=============================================================================
