------------------------------ MODULE Escapes ------------------------------
(***************************************************************************)
(* The escaping einvoice/report.py applies to paths and messages before it *)
(* writes a GitHub or Azure logging command or a SARIF artifact URI.  A    *)
(* text is a sequence of characters and grows by one character per step.   *)
(***************************************************************************)
EXTENDS Integers, Sequences, SequencesExt

CONSTANTS
    Chars,     \* the characters a path or message may hold here
    MaxText    \* bound on its length

VARIABLE text

Replace(t, ch, by) ==
    FlattenSeq([i \in DOMAIN t |-> IF t[i] = ch THEN by ELSE <<t[i]>>])

GithubEscapeData(t) ==
    Replace(Replace(Replace(t, "%", <<"%", "2", "5">>),
                    "CR", <<"%", "0", "D">>), "LF", <<"%", "0", "A">>)
GithubEscapeProperty(t) ==
    Replace(Replace(GithubEscapeData(t), ",", <<"%", "2", "C">>), ":", <<"%", "3", "A">>)

\* Mutant: the percent sign becomes %25.
AzureLikeGithub(t) == GithubEscapeData(t)

AzureEscapeData(t) ==
    Replace(Replace(Replace(t, "%", <<"%", "A", "Z", "P", "2", "5">>),
                    "CR", <<"%", "0", "D">>), "LF", <<"%", "0", "A">>)
AzureEscapeProperty(t) ==
    Replace(Replace(AzureEscapeData(t), ";", <<"%", "3", "B">>), "]", <<"%", "5", "D">>)

\* Every character outside the URI path set becomes %XX per UTF-8 byte; "ue" stands
\* for a two-byte letter.
UriUnsafe == {"%", " ", "CR", "LF", "]", "ue"}
PercentBytes(ch) ==
    CASE ch = "%" -> <<"%", "2", "5">> [] ch = " " -> <<"%", "2", "0">>
      [] ch = "CR" -> <<"%", "0", "D">> [] ch = "LF" -> <<"%", "0", "A">>
      [] ch = "]" -> <<"%", "5", "D">>
      [] ch = "ue" -> <<"%", "C", "3", "%", "B", "C">>
SarifArtifactUri(t) ==
    FlattenSeq([i \in DOMAIN t |-> IF t[i] \in UriUnsafe THEN PercentBytes(t[i]) ELSE <<t[i]>>])

EscapesInit == text = <<>>
TypeOne == Len(text) < MaxText /\ \E ch \in Chars : text' = Append(text, ch)
EscapesSpec == EscapesInit /\ [][TypeOne]_text

----------------------------------------------------------------------------
\* What reads the escaped text undoes its table entry by entry, the percent sign
\* last.  No escape overlaps another one or itself.

Undo(t, escape, ch) ==
    LET n == Len(escape)
        match(i) == i + n - 1 <= Len(t) /\ SubSeq(t, i, i + n - 1) = escape
    IN FlattenSeq([i \in DOMAIN t |->
            IF match(i) THEN <<ch>>
            ELSE IF \E j \in DOMAIN t : j < i /\ i < j + n /\ match(j) THEN <<>>
            ELSE <<t[i]>>])

GithubUnescape(t) ==
    Undo(Undo(Undo(Undo(Undo(t, <<"%", "0", "D">>, "CR"), <<"%", "0", "A">>, "LF"),
         <<"%", "2", "C">>, ","), <<"%", "3", "A">>, ":"), <<"%", "2", "5">>, "%")
AzureUnescape(t) ==
    Undo(Undo(Undo(Undo(Undo(t, <<"%", "3", "B">>, ";"), <<"%", "0", "D">>, "CR"),
         <<"%", "0", "A">>, "LF"), <<"%", "5", "D">>, "]"),
         <<"%", "A", "Z", "P", "2", "5">>, "%")

\* The runner recovers exactly the path that was escaped, and no character that ends
\* a property or the command survives in it (_github_escape_property).
GithubRoundTrip ==
    LET e == GithubEscapeProperty(text)
    IN /\ GithubUnescape(e) = text
       /\ ToSet(e) \cap {",", ":", "CR", "LF"} = {}

\* The same for Azure, with its own sentinel and delimiters (_azure_escape_property).
AzureRoundTrip ==
    LET e == AzureEscapeProperty(text)
    IN /\ AzureUnescape(e) = text
       /\ ToSet(e) \cap {";", "]", "CR", "LF"} = {}

\* Percent-decoding an artifact URI gives back the path as it was spelled, and the
\* URI holds no character outside the URI path set (_sarif_artifact_uri).
UriRoundTrip ==
    LET e == SarifArtifactUri(text)
    IN /\ FoldLeft(LAMBDA t, ch : Undo(t, PercentBytes(ch), ch), e,
                   <<" ", "CR", "LF", "]", "ue", "%">>) = text
       /\ ToSet(e) \cap (UriUnsafe \ {"%"}) = {}
============================================================================
