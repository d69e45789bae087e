------------------------------ MODULE MCIntake ------------------------------
(***************************************************************************)
(* The components that read bytes into something a rule can look at,       *)
(* model-checked in one state space: the PDF container and its tokenizer,  *)
(* the hardened XML build with line attribution, and the evaluator of      *)
(* compiled syntax-binding asserts.  A behaviour is one of a single        *)
(* component, the one `part` names; the variables of the others stay empty.*)
(***************************************************************************)
EXTENDS XmlIntake

VARIABLES
    part,                                                  \* the component that runs
    file, updates,                                         \* PdfContainer
    meant, literal, name, hex, open, short, broken,        \* its strings
    doc, artifact                                          \* SyntaxBinding

pdfVars == <<file, updates>>
stringVars == <<meant, literal, name, hex, open, short, broken>>
bindingVars == <<doc, artifact>>
allVars == <<part, pdfVars, stringVars, xmlVars, bindingVars>>

----------------------------------------------------------------------------
\* A hybrid invoice in nine objects, with the declarations varied, and the updates a
\* later writer may append: a new invoice, a new tree, a cross-reference stream.
Value == INSTANCE PdfContainer WITH
    BaseFiles <- {}, Updates <- {}, MaxUpdates <- 0, MaxDepth <- 0, Bytes <- {}, MaxLength <- 0
Obj(n, value, stream) == [k |-> "obj", num |-> n, value |-> value, stream |-> stream]
Trailer(d) == [k |-> "trailer", value |-> Value!Dict(d)]
Word == [k |-> "endstream"]
Stream(body, length, quotes) ==
    [t |-> "stream", body |-> body, size |-> 7, length |-> length, quotes |-> quotes]

\* is: the profile the text stands for; profile, level: the words found in it.
Invoice(id, is, words) == [id |-> id, is |-> is, profile |-> words]
BasicWL == Invoice("wl", "BASICWL", {"BASICWL", "BASIC", "EN16931"})
Extended == Invoice("ext", "EXTENDED", {"EXTENDED", "EN16931"})
NewXml == Invoice("new", "EN16931", {"EN16931"})
Xmp(fx, is, level, pdfa, conformance) ==
    [fx |-> fx, is |-> is, level |-> level, part |-> pdfa, conformance |-> conformance]
Packets ==
    {Xmp(TRUE, "BASICWL", {"BASICWL", "BASIC"}, "3", "B"), Xmp(TRUE, "BASIC", {"BASIC"}, "3", "B"),
     Xmp(TRUE, "EXTENDED", {"EXTENDED"}, "2", "A"), Xmp(TRUE, "none", {}, "3", "none"),
     Xmp(FALSE, "none", {}, "none", "none")}

Spec4(title, rel) ==
    Value!Dict([k \in {"F", "EF"} \cup (IF rel = "" THEN {} ELSE {"AFRelationship"}) |->
            CASE k = "F" -> Value!Text(title) [] k = "EF" -> Value!Dict([f \in {"F"} |-> Value!Ref(5)])
              [] k = "AFRelationship" -> Value!Text(rel)])
PdfCatalog(af, metadata) ==
    LET keys == {"Names"} \cup {k \in {"AF"} : af} \cup {k \in {"Metadata"} : metadata}
    IN  Value!Dict([k \in keys |-> CASE k = "Names" -> Value!Ref(2) [] k = "Metadata" -> Value!Ref(8)
                                    [] k = "AF" -> Value!List(<<Value!Ref(4)>>)])
Names == Value!Dict([k \in {"EmbeddedFiles"} |-> Value!Ref(3)])
Leaf(key) == Value!Dict([k \in {"Names"} |-> Value!List(<<Value!Text(key), Value!Ref(4)>>)])
Inner(kids) == Value!Dict([k \in {"Kids"} |-> Value!List(kids)])
Both(key, kids) == Value!Dict([k \in {"Names", "Kids"} |->
                           Value!List(IF k = "Names" THEN <<Value!Text(key), Value!Null>> ELSE kids)])
Filtered(filter) ==
    Value!Dict([k \in (IF filter = "" THEN {} ELSE {"Filter"}) |-> Value!Text(filter)])

BaseOf(af, metadata, tree, title, rel, filter, stream, xmp) ==
    <<Obj(1, PdfCatalog(af, metadata), Value!NoStream), Obj(2, Names, Value!NoStream),
      Obj(3, tree, Value!NoStream),
      Obj(4, Spec4(title, rel), Value!NoStream), Obj(5, Filtered(filter), stream),
      Obj(6, Leaf("doc"), Value!NoStream), Obj(8, Filtered(""), Stream(xmp, Value!Number(7), <<>>)),
      Obj(9, Value!Number(7), Value!NoStream), Trailer([k \in {"Root"} |-> Value!Ref(1)])>>

PlainStream(xml) == Stream(xml, Value!Number(7), <<>>)
Declared ==
    {BaseOf(af, md, Leaf("doc"), "factur-x.xml", rel, "", PlainStream(x), p) :
        af \in BOOLEAN, md \in BOOLEAN, rel \in {"", "Data", "Source"}, x \in {BasicWL, Extended},
        p \in Packets}
Trees ==
    {BaseOf(TRUE, TRUE, t, n, "Data", f, Stream(BasicWL, l, <<>>), CHOOSE p \in Packets : TRUE) :
        t \in {Leaf("doc"), Inner(<<Value!Ref(3), Value!Ref(6)>>), Inner(<<Value!Ref(6)>>),
               Both("notes", <<Value!Ref(6)>>),
               Inner(<<>>)},
        n \in {"factur-x.xml", "scan.png"}, f \in {"", "FlateDecode", "DCTDecode"},
        l \in {Value!Number(7), Value!Number(5), Value!Ref(9), Value!Null}}
Newer(l) == <<Obj(5, Filtered(""), Stream(NewXml, l, <<>>)), Trailer([k \in {"Root"} |-> Value!Ref(1)])>>
XrefUpdate ==
    <<[k |-> "xref", value |-> Value!Dict([k \in {"Root"} |-> Value!Ref(1)]),
       objects |-> <<Obj(5, Filtered(""), PlainStream(NewXml))>>]>>
MCUpdates ==
    {XrefUpdate, Newer(Value!Number(7)), Newer(Value!Ref(9)),
     <<Obj(3, Inner(<<Value!Ref(6)>>), Value!NoStream)>>, <<Obj(9, Value!Number(2), Value!NoStream)>>,
     <<Trailer([k \in {"Root", "Encrypt"} |-> Value!Ref(1)])>>,
     <<Obj(4, Spec4("xrechnung.xml", ""), Value!NoStream), Trailer([k \in {"Root"} |-> Value!Ref(1)])>>}

\* Bodies that hold the words of the format.
OddBodies ==
    {BaseOf(TRUE, TRUE, Leaf("doc"), "factur-x.xml", "Data", "", Stream(BasicWL, l, q),
            CHOOSE p \in Packets : TRUE) :
        l \in {Value!Number(7), Value!Null},
        q \in {<<>>, <<Obj(4, Value!Null, Value!NoStream)>>, <<Word>>,
              <<Word, Obj(4, Value!Null, Value!NoStream)>>}}
MCBaseFiles == Declared \cup Trees \cup OddBodies

Pdf == INSTANCE PdfContainer WITH
    BaseFiles <- MCBaseFiles, Updates <- MCUpdates,
    MaxUpdates <- 2, MaxDepth <- 5,
    Bytes <- {10, 13, 35, 40, 41, 49, 80, 92, 110}, MaxLength <- 3

\* Paths of one to three steps, relative and absolute, one with a predicate.
Rel(steps) == [absolute |-> FALSE, steps |-> steps]
Abs(steps) == [absolute |-> TRUE, steps |-> steps]
MCFindings ==
    <<[rule |-> "R1", element |-> Rel(<<>>), source |-> 0],
      [rule |-> "R2", element |-> Rel(<<"a", "b", "a">>), source |-> 0],
      [rule |-> "R2", element |-> Abs(<<"I", "b", "a", "a">>), source |-> 0],
      [rule |-> "R1", element |-> Abs(<<"X", "a", "b">>), source |-> 0],
      [rule |-> "R1", element |-> Rel(<<"a", "?">>), source |-> 0],
      [rule |-> "R1", element |-> Rel(<<"a", "a">>), source |-> 2],
      [rule |-> "R2", element |-> Rel(<<"b">>), source |-> 0]>>
MCTags == {"a", "b"}
MCCatalog == [r \in {"R1", "R2"} |-> IF r = "R1" THEN Rel(<<"a", "b">>) ELSE Rel(<<>>)]
ASSUME MCDocument == DocumentAssumption /\ PathAssumption

----------------------------------------------------------------------------
\* Small documents, the expressions of the grammar over a few paths, and the orders of a
\* few rules.
Tag(ns, local) == [ns |-> ns, local |-> local]
Root == Tag("rsm", <<"Invoice">>)
X == Tag("ram", <<"Party">>)
T == Tag("ram", <<"Type", "Code">>)
ID == Tag("ram", <<"ID">>)
LineID == Tag("ram", <<"Line", "ID">>)
OtherID == Tag("udt", <<"ID">>)

Key == [k \in {"k"} |-> <<"1">>]
Template(tag, attrs, text) == [tag |-> tag, attrs |-> attrs, text |-> text]
MCTemplates ==
    {Template(X, <<>>, <<>>), Template(X, Key, <<"1">>), Template(T, <<>>, <<"1">>),
     Template(T, <<>>, <<"1", ".", "2">>), Template(ID, Key, <<"2">>)}
ClaimTemplates ==
    {Template(t, Key, <<>>) : t \in {X, T, ID, LineID, OtherID}} \cup {Template(ID, <<>>, <<>>)}

Child(tags) == [axis |-> "child", tags |-> tags, key |-> ""]
Attr == [axis |-> "attr", tags |-> {}, key |-> "k"]
Parent == [axis |-> "parent", tags |-> {}, key |-> ""]
Predicate == [axis |-> "other", tags |-> {}, key |-> ""]
Path(lead, steps) == [lead |-> lead, steps |-> steps]

XPaths ==
    {Path("", <<Child({X})>>), Path("", <<Child({X}), Attr>>), Path("", <<Child({X, T})>>),
     Path("", <<Child({X}), Child({T})>>), Path("//", <<Child({T})>>),
     Path("//", <<Child({ID}), Attr>>), Path("", <<Parent, Child({T})>>)}
Rejected ==
    {Path("", <<Child({X}), Predicate>>), Path("", <<Child({X}), Parent>>),
     Path("", <<Attr, Child({T})>>)}
Rooted == Path("/", <<Child({Root}), Child({X})>>)

P(p) == [op |-> "path", path |-> p]
Not(e) == [op |-> "not", e |-> e]
And(a, b) == [op |-> "and", es |-> <<a, b>>]
Or(a, b) == [op |-> "or", es |-> <<a, b>>]
Group(e) == [op |-> "group", e |-> e]
Eq(p) == [op |-> "eq", path |-> p, lit |-> <<"1">>]
Count(p, cmp, n) == [op |-> "count", path |-> p, cmp |-> cmp, n |-> n]
Diff(p, q) == [op |-> "diff", path |-> p, with |-> q, cmp |-> "<=", n |-> 0]
Ne(p, q) == [op |-> "ne", path |-> p, with |-> q]
Exists(p) == [op |-> "exists", path |-> p]

Exclusion(a, b, c) ==
    [op |-> "or", es |-> <<Group(a), Group(b), Group(c)>>]
AbsenceTests ==
    {Not(P(p)) : p \in XPaths \cup Rejected}
    \cup UNION {{Not(And(P(p), P(q))), Or(Not(P(p)), Eq(q)), Or(Not(P(p)), P(q)),
                 Or(Not(P(p)), Group(P(q))),
                 Exclusion(And(Not(P(p)), P(q)), And(P(p), Not(P(q))),
                           And(Not(P(q)), Not(P(p)))),
                 Exclusion(And(Not(P(p)), P(q)), And(P(p), Not(P(q))), And(P(p), P(q)))} :
                p \in XPaths, q \in XPaths}
    \cup {Or(Not(P(p)), Group(P(Rooted))) : p \in XPaths}
CountTests ==
    {Count(p, c, n) : p \in XPaths, c \in {"<=", "=", ">="}, n \in 0..1}
    \cup UNION {{Or(Not(P(p)), Group(Count(q, "<=", 1))), Diff(p, q),
                 Group(And(Count(p, ">=", 1), Group(Ne(p, q))))} : p \in XPaths, q \in XPaths}
ExistenceTests ==
    UNION {{Exists(p), Group(P(p)), And(Exists(p), Group(P(q)))} : p \in XPaths, q \in XPaths}
DatatypeTests == {[op |-> "decimals", n |-> n] : n \in 0..1} \cup {[op |-> "other"]}

Chain(rooted, tags) == [kind |-> "chain", rooted |-> rooted, tags |-> tags]
Suffix(ns, suffix, notTags, notSuffixes, notUnder) ==
    [kind |-> "suffix", ns |-> ns, suffix |-> suffix, notTags |-> notTags,
     notSuffixes |-> notSuffixes, notUnder |-> notUnder]

MCRootContext == <<Chain(TRUE, <<Root>>)>>
Contexts ==
    {MCRootContext, <<Chain(FALSE, <<X>>)>>,
     <<Chain(FALSE, <<X, T>>), Chain(TRUE, <<Root, ID>>), Chain(FALSE, <<T>>)>>,
     <<Suffix("ram", <<"Code">>, {}, {}, {[tag |-> X, chain |-> <<ID>>]}), Chain(FALSE, <<X>>)>>}

Entry(id, binding, shape, context, test) ==
    [id |-> id, binding |-> binding, shape |-> shape, context |-> context, test |-> test,
     flag |-> ""]
GrammarEntries ==
    LET below == {c \in Contexts : c # MCRootContext}
    IN UNION {{Entry("g", "ubl", "absence-restriction", c, t) : t \in AbsenceTests}
              \cup {Entry("g", "ubl", "cardinality-count", c, t) : t \in CountTests}
              \cup {Entry("g", "ubl", "existence", c, t) : t \in ExistenceTests}
              \cup {Entry("g", "ubl", "datatype-regex", c, t) : t \in DatatypeTests} :
              c \in {<<Chain(FALSE, <<X>>)>>}}
       \cup {Entry("c", "ubl", "datatype-regex", c, [op |-> "decimals", n |-> 1]) : c \in below}
       \cup {Entry("r", "ubl", "absence-restriction", MCRootContext, t) :
               t \in {Not(P(Path("", <<Child({X})>>))), Not(P(Path("//", <<Child({T})>>)))}}

\* Rules of a pattern: a universal one, a specific one, a list of concrete tags, two
\* suffixes, and a suffix with an exclusion.
HasNoKey == Not(P(Path("", <<Attr>>)))
Rules ==
    [U |-> <<Chain(FALSE, <<T>>)>>, S |-> <<Chain(TRUE, <<Root, X, T>>)>>,
     C |-> <<Chain(FALSE, <<ID>>), Chain(FALSE, <<X, LineID>>)>>,
     I |-> <<Suffix("ram", <<"ID">>, {}, {}, {})>>,
     J |-> <<Suffix("", <<"Line", "ID">>, {}, {}, {})>>,
     K |-> <<Suffix("", <<"Code">>, {}, {}, {})>>]
ClaimEntries ==
    {Entry(id, "cii", "absence-restriction", Rules[id], HasNoKey) : id \in DOMAIN Rules}
Rule(id) == [context |-> Rules[id], asserts |-> {id}]
Orders(ids, n) == {s \in [1..n -> ids] : Cardinality({s[i] : i \in 1..n}) = n}
MCArtifacts ==
    {[i \in DOMAIN s |-> Rule(s[i])] :
        s \in Orders({"U", "S", "C", "I"}, 3) \cup Orders(DOMAIN Rules, 2)}
NoArtifact == {<<>>}

\* The evaluator twice: every assert of the grammar, and every order of six rules.
Grammar == INSTANCE SyntaxBinding WITH
    RootTag <- Root, Templates <- MCTemplates, MaxNodes <- 4,
    Entries <- GrammarEntries, Artifacts <- NoArtifact,
    RootContext <- MCRootContext
Claims == INSTANCE SyntaxBinding WITH
    RootTag <- Root, Templates <- ClaimTemplates, MaxNodes <- 4,
    Entries <- ClaimEntries, Artifacts <- MCArtifacts,
    RootContext <- MCRootContext

----------------------------------------------------------------------------
NoPdf == file = <<>> /\ updates = <<>>
NoString ==
    /\ meant = <<>> /\ literal = <<>> /\ name = <<>> /\ hex = <<>> /\ open = <<>>
    /\ short = <<>> /\ broken = <<>>
NoXml ==
    /\ events = <<>> /\ line = 0 /\ nodes = <<>> /\ stack = <<>> /\ status = "none"
    /\ error = "" /\ inserted = <<>>
NoBinding == doc = <<>> /\ artifact = <<>>

Init ==
    \/ part = "pdf" /\ Pdf!Init /\ NoString /\ NoXml /\ NoBinding
    \/ part = "tokens" /\ Pdf!StringInit /\ NoPdf /\ NoXml /\ NoBinding
    \/ part = "xml" /\ XmlInit /\ NoPdf /\ NoString /\ NoBinding
    \/ part = "grammar" /\ Grammar!Init /\ NoPdf /\ NoString /\ NoXml
    \/ part = "claims" /\ Claims!Init /\ NoPdf /\ NoString /\ NoXml

PdfStep ==
    part = "pdf" /\ Pdf!AppendUpdate /\ UNCHANGED <<part, stringVars, xmlVars, bindingVars>>
TokenStep ==
    part = "tokens" /\ Pdf!StringNext /\ UNCHANGED <<part, pdfVars, xmlVars, bindingVars>>
XmlStep ==
    part = "xml" /\ XmlNext /\ UNCHANGED <<part, pdfVars, stringVars, bindingVars>>
BindingStep ==
    /\ \/ part = "grammar" /\ Grammar!AddElement
       \/ part = "claims" /\ Claims!AddElement
    /\ UNCHANGED <<part, pdfVars, stringVars, xmlVars>>

Next == PdfStep \/ TokenStep \/ XmlStep \/ BindingStep
Spec == Init /\ [][Next]_allVars

----------------------------------------------------------------------------
\* The invoice that is graded is the one in force after every incremental update, and
\* all of it, whatever /Length says; a known attachment anywhere in the name tree is found,
\* however its name is written as a literal string, a name or a hexadecimal string; and a
\* container without a finding declares what it carries (_scan_objects, _finalize_streams,
\* _find_invoice_filespec, _container_findings, _parse_literal_string, _parse_name).
PayloadIsRead ==
    /\ part = "pdf" => Pdf!ExtractsInForce /\ Pdf!AttachmentIsFound /\ Pdf!SilentMeansDeclared
    /\ part = "tokens" => Pdf!LiteralIsRead /\ Pdf!NameIsRead /\ Pdf!HexIsRead

\* A compiled assert fires on an element iff its XPath test is false there, and the tag
\* index finds what the tree walk finds; and the asserts that are run find exactly what the
\* Schematron's rule claiming finds, whatever the order of the rules, while what is taken
\* out as shadowed never fires (compile_test, _match_context_indexed,
\* cii_claim_shadowed_ids, cii_suffix_claim_unsafe_ids).
FiresAsOfficial ==
    /\ part = "grammar" => Grammar!CompiledAgrees /\ Grammar!IndexedIsTreeWalk
    /\ part = "claims" => Claims!FiredAsOfficial /\ Claims!DeadNeverFires
============================================================================
