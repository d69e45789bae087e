------------------------------ MODULE Validate ------------------------------
(***************************************************************************)
(* einvoice/validate.py: an invoice is corrected step by step and graded   *)
(* again.  The author edits the document; validate_root dispatches on its  *)
(* root, runs the core rules and, on the xrechnung profile, the German     *)
(* layer, and returns a Result.  The Peppol layer is graded by             *)
(* differential.py on the same document.                                   *)
(***************************************************************************)
EXTENDS PeppolRules

CONSTANTS
  Topics,        \* what an author works on
  Starts(_),     \* the documents an author of a topic starts from
  Edits(_, _),   \* the documents one edit of the topic away
  Profiles(_),   \* the profiles asked for
  MaxEdits(_)    \* bound: edits of one document

VARIABLES topic, doc, profile, result, edits
vars == <<topic, doc, profile, result, edits>>

NoResult == [kind |-> "none", fired |-> {}]
PROFILES == {"en16931", "xrechnung"}

\* _severity, over the three layers.
Severity(id) ==
  CASE id \in XrInformation -> "information"
    [] id \in XrWarnings \cup PeppolWarnings \cup {<<"BR", 51>>} -> "warning"
    [] OTHER -> "fatal"

\* Result.ok: no fatal finding.
Ok(fired) == \A id \in fired : Severity(id) # "fatal"

\* The parser of the syntax builds the one model that all rules are run on.
BuildModel(d) == IF d.root = "CrossIndustryInvoice" THEN BuildModelCii(d) ELSE BuildModelUbl(d)

\* The layer of the profile, in the transcription for the syntax.
ProfileRules(d, p) ==
  CASE p # "xrechnung" -> {}
    [] d.root = "CrossIndustryInvoice" -> EvaluateCii(d)
    [] OTHER -> EvaluateUbl(d)

SRoot == <<"S-ROOT", 0>>

\* validate_root; an unknown profile is refused before the document is read.
ValidateRoot(d, p) ==
  CASE p \notin PROFILES -> [kind |-> "ValueError", fired |-> {}]
    [] d.root \in {"Invoice", "CreditNote", "CrossIndustryInvoice"} ->
         [kind |-> "Result", fired |-> AllRules(BuildModel(d)) \cup ProfileRules(d, p)]
    [] OTHER -> [kind |-> "Result", fired |-> {SRoot}]

Peppol(d) == IF d.root = "CrossIndustryInvoice" THEN PeppolCii(d) ELSE PeppolUbl(d)

Init ==
  /\ topic \in Topics
  /\ doc \in Starts(topic) /\ profile \in Profiles(topic)
  /\ result = NoResult /\ edits = 0

Edit ==
  /\ edits < MaxEdits(topic) /\ result.kind # "none"
  /\ doc' \in Edits(topic, doc)
  /\ edits' = edits + 1 /\ result' = NoResult
  /\ UNCHANGED <<topic, profile>>

Grade ==
  /\ result.kind = "none"
  /\ result' = ValidateRoot(doc, profile)
  /\ UNCHANGED <<topic, doc, profile, edits>>

Next == Edit \/ Grade
Spec == Init /\ [][Next]_vars

Accepted == result.kind = "Result" /\ Ok(result.fired)
Graded == result.kind = "Result" /\ doc.root \in {"Invoice", "CreditNote", "CrossIndustryInvoice"}
=============================================================================
