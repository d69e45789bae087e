---------------------------- MODULE PdfContainer ----------------------------
(***************************************************************************)
(* einvoice/pdf_container.py: the invoice inside a Factur-X / ZUGFeRD PDF. *)
(* The extractor ignores the cross-reference table: it scans the bytes for *)
(* "N G obj" and takes the last "trailer".                                 *)
(*                                                                         *)
(* A file is the sequence of what its writers appended: objects, trailers  *)
(* and cross-reference streams, whose objects are compressed and cannot be *)
(* scanned.  A value is [t, ...]: dict [d], list [l], ref [n], text [s],   *)
(* number [n] or null.  A stream is [body, size, length, quotes]: length   *)
(* is the value of /Length, and quotes what the bytes of the body happen   *)
(* to look like, in order: the word "endstream", or an object.             *)
(*                                                                         *)
(* Attachment names are compared after the escapes of the PDF syntax are   *)
(* undone.  A writer of strings puts a text down byte by byte, bytes being *)
(* numbers, in any of the forms the syntax allows, and the tokenizer has   *)
(* to read the text back.                                                  *)
(***************************************************************************)
EXTENDS Integers, Sequences, FiniteSets, SequencesExt

CONSTANTS
    BaseFiles,   \* complete files, as first written
    Updates,     \* what a later writer may append, each a sequence of chunks
    MaxUpdates,
    MaxDepth,    \* how deep a name tree is followed (64)
    Bytes,       \* the bytes of the texts written as strings
    MaxLength    \* of a text

KnownInvoiceNames == {"factur-x.xml", "zugferd-invoice.xml", "xrechnung.xml"}
ValidAfRelationships == {"Data", "Alternative"}
ValidPdfa3Conformance == {"A", "B", "U"}

VARIABLES file, updates
vars == <<file, updates>>

Null == [t |-> "null"]
Dict(d) == [t |-> "dict", d |-> d]
List(l) == [t |-> "list", l |-> l]
Ref(n) == [t |-> "ref", n |-> n]
Text(s) == [t |-> "text", s |-> s]
Number(n) == [t |-> "number", n |-> n]
NoStream == [t |-> "none"]
NoObject == [value |-> Null, stream |-> NoStream]

IsDict(v) == v.t = "dict"
Get(v, key) == IF IsDict(v) /\ key \in DOMAIN v.d THEN v.d[key] ELSE Null
AsText(v) == IF v.t = "text" THEN {v.s} ELSE {}

----------------------------------------------------------------------------
\* _find_trailer, _scan_objects and _finalize_streams

\* What is scanned of a chunk: its object, and what the body quotes after the first
\* "endstream" in it, where the scan takes the stream to be over.
ScannedIn(chunk) ==
    IF chunk.k # "obj" THEN <<>>
    ELSE LET quotes == IF chunk.stream = NoStream THEN <<>> ELSE chunk.stream.quotes
             end == SelectInSeq(quotes, LAMBDA q : q.k = "endstream")
             inside == IF end = 0 THEN <<>> ELSE SubSeq(quotes, end, Len(quotes))
         IN <<chunk>> \o SelectSeq(inside, LAMBDA q : q.k = "obj")

Scanned == FlattenSeq([i \in DOMAIN file |-> ScannedIn(file[i])])

\* Mutant: the first definition of an object stays.
LookupFirst(chunks, n) ==
    LET i == SelectInSeq(chunks, LAMBDA c : c.num = n)
    IN IF i = 0 THEN NoObject ELSE [value |-> chunks[i].value, stream |-> chunks[i].stream]

\* objects[(num, gen)] = obj: the last definition overwrites the others.
Lookup(chunks, n) ==
    LET i == SelectLastInSeq(chunks, LAMBDA c : c.num = n)
    IN IF i = 0 THEN NoObject ELSE [value |-> chunks[i].value, stream |-> chunks[i].stream]

Numbers(chunks) == {chunks[i].num : i \in DOMAIN chunks}
ScanObjects == [n \in Numbers(Scanned) |-> Lookup(Scanned, n)]

DerefObj(v, objects) ==
    IF v.t = "ref" /\ v.n \in DOMAIN objects THEN objects[v.n] ELSE NoObject

\* One or more hops; a reference that leads nowhere is null.
Deref(v, objects) ==
    FoldLeft(LAMBDA at, hop : IF at.t = "ref" THEN DerefObj(at, objects).value ELSE at,
             v, [hop \in 1..(Cardinality(DOMAIN objects) + 1) |-> hop])

\* The bytes of a stream: whole, or cut at the word in the body when /Length does not
\* say where it ends.
StreamBytes(stream, objects) ==
    LET length == Deref(stream.length, objects)
        words == \E i \in DOMAIN stream.quotes : stream.quotes[i].k = "endstream"
    IN <<IF words /\ length # Number(stream.size) THEN "cut" ELSE "whole", stream.body>>

LastTrailer ==
    LET i == SelectLastInSeq(file, LAMBDA c : c.k = "trailer")
    IN IF i = 0 THEN Null ELSE file[i].value

----------------------------------------------------------------------------
\* _find_invoice_filespec

PairNames(pairs, i, objects) ==
    LET spec == Deref(pairs[i + 1], objects)
    IN IF ~IsDict(spec) THEN {}
       ELSE AsText(pairs[i]) \cup AsText(Get(spec, "F")) \cup AsText(Get(spec, "UF"))

RECURSIVE FindInvoiceFilespec(_, _, _)

\* The first known name among the node's own pairs, then its kids in order.
SearchNode(node, objects, depth) ==
    LET pairs == Get(node, "Names")
        hits == IF pairs.t # "list" THEN {}
                ELSE {i \in DOMAIN pairs.l : i % 2 = 1 /\ i < Len(pairs.l)
                                             /\ PairNames(pairs.l, i, objects) \cap KnownInvoiceNames # {}}
        kids == Get(node, "Kids")
        found == IF kids.t # "list" THEN <<>>
                 ELSE SelectSeq([i \in DOMAIN kids.l |->
                                    FindInvoiceFilespec(Deref(kids.l[i], objects), objects, depth + 1)],
                                IsDict)
    IN IF hits # {} THEN Deref(pairs.l[(CHOOSE i \in hits : \A j \in hits : i <= j) + 1], objects)
       ELSE IF found # <<>> THEN found[1] ELSE Null

FindInvoiceFilespec(node, objects, depth) ==
    IF depth > MaxDepth \/ ~IsDict(node) THEN Null ELSE SearchNode(node, objects, depth)

----------------------------------------------------------------------------
\* _open_container and _decode_stream

Unsupported == [opened |-> FALSE]

NameTree(catalog, objects) ==
    Deref(Get(Deref(Get(catalog, "Names"), objects), "EmbeddedFiles"), objects)
PayloadHolder(ef, objects) ==
    DerefObj(IF Get(ef, "F") # Null THEN Get(ef, "F") ELSE Get(ef, "UF"), objects)

Opened(catalog, spec, holder) ==
    IF holder.stream = NoStream THEN Unsupported
    ELSE [opened |-> TRUE, catalog |-> catalog, spec |-> spec, holder |-> holder]
OpenSpec(catalog, spec, objects) ==
    Opened(catalog, spec, PayloadHolder(Deref(Get(spec, "EF"), objects), objects))

\* Whatever on the way to the payload is missing or no dictionary leads to no stream.
OpenCatalog(catalog, objects) ==
    OpenSpec(catalog, FindInvoiceFilespec(NameTree(catalog, objects), objects, 0), objects)

OpenContainer(trailer, objects) ==
    IF Get(trailer, "Encrypt") # Null \/ Get(trailer, "Root").t # "ref" THEN Unsupported
    ELSE OpenCatalog(Deref(Get(trailer, "Root"), objects), objects)

\* Unfiltered, or one /FlateDecode over bytes that inflate: a cut stream does not.
Decodes(holder, objects) ==
    LET filter == Get(holder.value, "Filter")
        one == IF filter.t = "list" /\ Len(filter.l) = 1 THEN filter.l[1] ELSE filter
    IN \/ filter = Null
       \/ one = Text("FlateDecode") /\ StreamBytes(holder.stream, objects)[1] # "cut"

Decoded(holder, objects) ==
    LET bytes == StreamBytes(holder.stream, objects)
    IN IF Get(holder.value, "Filter") = Null THEN bytes ELSE <<"whole", bytes[2]>>

----------------------------------------------------------------------------
\* _container_findings.  An XMP packet is [fx, level, part, conformance], a text that
\* declares a profile the set of the profile words in it; {} is a text that has none.

CanonicalProfile(words) ==
    LET order == <<"MINIMUM", "BASICWL", "EXTENDED", "XRECHNUNG", "BASIC", "EN16931">>
        hits == {i \in DOMAIN order : order[i] \in words}
    IN IF hits = {} THEN {} ELSE {order[CHOOSE i \in hits : \A j \in hits : i <= j]}

FilespecInAf(c, objects) ==
    LET af == Deref(Get(c.catalog, "AF"), objects)
    IN af.t = "list" /\ \E i \in DOMAIN af.l :
          LET spec == Deref(af.l[i], objects)
          IN \/ spec = c.spec
             \/ IsDict(spec) /\ (AsText(Get(spec, "F")) \cup AsText(Get(spec, "UF")))
                                   \cap KnownInvoiceNames # {}

\* The decoded /Metadata packet, {} when it cannot be reached.
CatalogMetadata(c, objects) ==
    LET obj == DerefObj(Get(c.catalog, "Metadata"), objects)
    IN IF obj.stream # NoStream /\ IsDict(obj.value) /\ Decodes(obj, objects)
       THEN {obj.stream.body} ELSE {}

Pdfa3Findings(xmp) ==
    (IF xmp.part # "3" THEN {"FX-PDFA3-PART"} ELSE {})
    \cup (IF xmp.conformance \notin ValidPdfa3Conformance THEN {"FX-PDFA3-CONFORMANCE"} ELSE {})

ProfileFindings(packets, xml) ==
    LET declared == {x \in packets : x.fx /\ x.level # {}}
        said == UNION {CanonicalProfile(x.level) : x \in declared}
        is == CanonicalProfile(xml.profile)
    IN IF declared = {} THEN {"FX-CONTAINER-XMP"}
       ELSE IF said # {} /\ is # {} /\ said # is THEN {"FX-CONTAINER-PROFILE"} ELSE {}

ContainerFindings(c, xml, objects) ==
    LET packets == CatalogMetadata(c, objects)
    IN (IF AsText(Get(c.spec, "AFRelationship")) \cap ValidAfRelationships = {}
        THEN {"FX-CONTAINER-AFRELATIONSHIP"} ELSE {})
       \cup (IF FilespecInAf(c, objects) THEN {} ELSE {"FX-CONTAINER-AF"})
       \cup UNION {Pdfa3Findings(x) : x \in packets} \cup ProfileFindings(packets, xml)

Inspected(c, xml, objects) ==
    [opened |-> TRUE, xml |-> xml, container |-> c,
     findings |-> ContainerFindings(c, xml[2], objects)]
Inspect(c, objects) ==
    IF ~c.opened \/ ~Decodes(c.holder, objects) THEN Unsupported
    ELSE Inspected(c, Decoded(c.holder, objects), objects)

InspectContainer ==
    LET objects == ScanObjects IN Inspect(OpenContainer(LastTrailer, objects), objects)

----------------------------------------------------------------------------
\* A file is written, and updated by appending to it.

Init == file \in BaseFiles /\ updates = 0

AppendUpdate ==
    /\ updates < MaxUpdates /\ updates' = updates + 1
    /\ \E u \in Updates : file' = file \o u

Spec == Init /\ [][AppendUpdate]_vars

----------------------------------------------------------------------------
\* What the writers meant: an object is its last definition in any revision, a stream
\* holds its whole body, and the last revision of either kind gives the root.

MeantChunks == FlattenSeq([i \in DOMAIN file |->
                   IF file[i].k = "obj" THEN <<file[i]>>
                   ELSE IF file[i].k = "xref" THEN file[i].objects ELSE <<>>])
Meant ==
    [n \in Numbers(MeantChunks) |->
        LET c == MeantChunks[SelectLastInSeq(MeantChunks, LAMBDA x : x.num = n)]
        IN [value |-> c.value, stream |-> c.stream]]
Classic == \A i \in DOMAIN file : file[i].k # "xref"
MeantContainer ==
    LET i == SelectLastInSeq(file, LAMBDA c : c.k \in {"trailer", "xref"})
    IN IF i = 0 THEN Unsupported ELSE OpenContainer(file[i].value, Meant)

\* No body holds the words of the format.
OrdinaryFile ==
    \A i \in DOMAIN file :
        file[i].k = "obj" /\ file[i].stream # NoStream => file[i].stream.quotes = <<>>

\* The invoice that is graded is the one in force after every incremental update, and
\* all of it, whatever /Length says (_scan_objects, _find_trailer, _finalize_streams).
InForce(result, intended) ==
    Classic /\ OrdinaryFile /\ result.opened =>
        intended.opened /\ result.xml = <<"whole", intended.holder.stream.body>>
ExtractsInForce == InForce(InspectContainer, MeantContainer)

\* A known attachment anywhere in the name tree is found: the file is refused only
\* when no node that can be reached by /Kids names one (_find_invoice_filespec).
NamesKnown(node, objects) ==
    LET pairs == Get(node, "Names") IN
    pairs.t = "list" /\ \E i \in DOMAIN pairs.l : i % 2 = 1 /\ i < Len(pairs.l)
        /\ PairNames(pairs.l, i, objects) \cap KnownInvoiceNames # {}
KidsOf(nodes, objects) ==
    UNION {LET kids == Get(n, "Kids")
           IN IF kids.t = "list" THEN {Deref(kids.l[i], objects) : i \in DOMAIN kids.l} ELSE {} :
           n \in nodes}
FoundInTree(tree, objects) ==
    LET reach[k \in 0..3] ==
            IF k = 0 THEN {tree} ELSE reach[k - 1] \cup KidsOf(reach[k - 1], objects)
    IN IsDict(tree) =>
          ((\E n \in reach[3] : NamesKnown(n, objects))
             <=> IsDict(FindInvoiceFilespec(tree, objects, 0)))
AttachmentIsFound ==
    LET objects == ScanObjects
    IN FoundInTree(NameTree(Deref(Get(LastTrailer, "Root"), objects), objects), objects)

\* "never a false pass": a container without a finding declares what it carries: a
\* relationship, an associated file, PDF/A-3, and the invoice's own profile; and an
\* unreachable packet is reported once (_container_findings).
SilentIsDeclared(r, packets) ==
    r.opened =>
        /\ packets = {} => r.findings \cap {"FX-PDFA3-PART", "FX-PDFA3-CONFORMANCE",
                                           "FX-CONTAINER-XMP"} = {"FX-CONTAINER-XMP"}
        /\ r.findings = {} => \E x \in packets :
              /\ x.fx /\ x.part = "3" /\ x.conformance \in ValidPdfa3Conformance
              /\ x.is = r.xml[2].is \/ r.xml[2].profile = {}
SilentMeansDeclared ==
    LET r == InspectContainer IN SilentIsDeclared(r, CatalogMetadata(r.container, ScanObjects))

\* "cross-reference streams / object streams ... detected as 'no classic trailer'", each
\* of them "UnsupportedContainer" (pdf_container.py:108-112).
XrefStreamRefused == ~Classic => ~InspectContainer.opened

\* "binary stream content that happens to contain N G obj bytes cannot forge a spurious
\* object" (pdf_container.py:998-1000).
BodyForgesNothing == Classic => ScanObjects = Meant

\* "NEVER returns partial/garbage bytes" (pdf_container.py:241).
NeverPartial == InspectContainer.opened => InspectContainer.xml[1] = "whole"

----------------------------------------------------------------------------
\* Strings and names

LParen == 40
RParen == 41
Backslash == 92
LF == 10
CR == 13
Hash == 35
Octal == 48..55

\* What a backslash and a letter stand for: n, r, t, b, f, the parentheses, itself.
Simple == [c \in {110, 114, 116, 98, 102, LParen, RParen, Backslash} |->
             CASE c = 110 -> LF [] c = 114 -> CR [] c = 116 -> 9 [] c = 98 -> 8 [] c = 102 -> 12
               [] c \in {LParen, RParen, Backslash} -> c]

VARIABLES meant,    \* the text
          literal, name, hex,   \* its forms in the file, so far
          open,     \* unescaped parentheses not yet closed
          short,    \* literal ends in an octal escape of fewer than 3 digits
          broken    \* a line has been broken
stringVars == <<meant, literal, name, hex, open, short, broken>>

----------------------------------------------------------------------------
\* _parse_literal_string, byte by byte.  mode is text, escape, octal or cr (just after
\* a backslash and a carriage return).

Emit(st, c) == [st EXCEPT !.out = Append(@, c), !.mode = "text"]

TextByte(st, c) ==
    CASE c = Backslash -> [st EXCEPT !.mode = "escape"]
      [] c = LParen -> [Emit(st, c) EXCEPT !.depth = @ + 1]
      [] c = RParen -> IF st.depth = 1 THEN [st EXCEPT !.mode = "end"]
                       ELSE [Emit(st, c) EXCEPT !.depth = @ - 1]
      [] c \notin {Backslash, LParen, RParen} -> Emit(st, c)

EscapeByte(st, c) ==
    CASE c \in DOMAIN Simple -> Emit(st, Simple[c])
      [] c \in Octal -> [st EXCEPT !.mode = "octal", !.digits = <<c - 48>>]
      [] c = LF -> [st EXCEPT !.mode = "text"]
      [] c = CR -> [st EXCEPT !.mode = "cr"]
      [] c \notin DOMAIN Simple \cup Octal \cup {LF, CR} -> Emit(st, c)

OctalValue(digits) == FoldLeft(LAMBDA acc, d : 8 * acc + d, 0, digits) % 256

ParseByte(st, c) ==
    CASE st.mode = "end" -> st
      [] st.mode = "text" -> TextByte(st, c)
      [] st.mode = "escape" -> EscapeByte(st, c)
      [] st.mode = "octal" -> IF c \in Octal /\ Len(st.digits) < 3
                              THEN [st EXCEPT !.digits = Append(@, c - 48)]
                              ELSE TextByte(Emit(st, OctalValue(st.digits)), c)
      [] st.mode = "cr" -> IF c = LF THEN [st EXCEPT !.mode = "text"]
                           ELSE TextByte([st EXCEPT !.mode = "text"], c)

ParseLiteralString(bytes) ==
    FoldLeft(ParseByte, [mode |-> "text", depth |-> 1, digits |-> <<>>, out |-> <<>>], Tail(bytes)).out

----------------------------------------------------------------------------
\* _parse_hex_string and _parse_name.  Hexadecimal digits are h + their value.

Digit(h) == 1000 + h
IsDigit(c) == c >= 1000

ParseHexString(bytes) ==
    LET digits == SelectSeq(bytes, IsDigit)
        padded == IF Len(digits) % 2 = 1 THEN Append(digits, Digit(0)) ELSE digits
    IN [i \in 1..(Len(padded) \div 2) |-> 16 * (padded[2 * i - 1] - 1000) + padded[2 * i] - 1000]

\* #xx is the byte xx.  The names modelled have no hexadecimal digit but in an escape.
ParseName(bytes) ==
    FoldLeft(LAMBDA out, i :
                IF bytes[i] = Hash /\ i + 2 <= Len(bytes) /\ IsDigit(bytes[i + 1]) /\ IsDigit(bytes[i + 2])
                THEN Append(out, 16 * (bytes[i + 1] - 1000) + bytes[i + 2] - 1000)
                ELSE IF IsDigit(bytes[i]) THEN out ELSE Append(out, bytes[i]),
             <<>>, [i \in DOMAIN bytes |-> i])

----------------------------------------------------------------------------
\* The writer.

StringInit ==
    /\ meant = <<>> /\ literal = <<LParen>> /\ name = <<>> /\ hex = <<>> /\ open = 0
    /\ short = FALSE /\ broken = FALSE

OctalDigits(c, n) == [i \in 1..n |-> 48 + ((c \div (8 ^ (n - i))) % 8)]
Raw(c) == literal' = Append(literal, c) /\ short' = FALSE
Escaped(digits, isShort) == literal' = literal \o <<Backslash>> \o digits /\ short' = isShort

\* A line feed here would end the broken line with the carriage return before it.
AfterBrokenCR == Len(literal) > 1 /\ SubSeq(literal, Len(literal) - 1, Len(literal)) = <<Backslash, CR>>

InHex(c) == hex' = hex \o <<Digit(c \div 16), 32, Digit(c % 16)>>
InName(c) == name' = IF c \in {Hash, LParen, RParen, LF, CR} THEN name \o <<Hash, Digit(c \div 16), Digit(c % 16)>>
                     ELSE Append(name, c)

WriteByte ==
    /\ Len(meant) < MaxLength /\ UNCHANGED broken
    /\ \E c \in Bytes :
         /\ meant' = Append(meant, c) /\ InHex(c) /\ InName(c)
         /\ \/ c \notin {Backslash, LParen, RParen, CR} /\ ~(short /\ c \in Octal)
               /\ ~(AfterBrokenCR /\ c = LF) /\ Raw(c) /\ UNCHANGED open
            \/ c = LParen /\ Raw(c) /\ open' = open + 1
            \/ c = RParen /\ open > 0 /\ Raw(c) /\ open' = open - 1
            \/ \E e \in DOMAIN Simple : Simple[e] = c /\ Escaped(<<e>>, FALSE) /\ UNCHANGED open
            \/ Escaped(OctalDigits(c, 3), FALSE) /\ UNCHANGED open
            \/ c < 64 /\ Escaped(OctalDigits(c, 2), TRUE) /\ UNCHANGED open

\* A backslash at the end of a line: the text goes on in the next (once in a text).
BreakLine ==
    /\ ~broken /\ broken' = TRUE
    /\ \E eol \in {<<LF>>, <<CR>>, <<CR, LF>>} : Escaped(eol, FALSE)
    /\ UNCHANGED <<meant, name, hex, open>>

StringNext == WriteByte \/ BreakLine

\* However a text is written as a literal string, the parser reads the text back, with
\* balanced parentheses, octal escapes and broken lines (_parse_literal_string).
LiteralIsRead ==
    open = 0 => ParseLiteralString(Append(literal, RParen)) = meant

\* A name with #xx escapes is read back (_parse_name).
NameIsRead == ParseName(name) = meant

\* A hexadecimal string is read back, and a last digit of 0 may be left out
\* (_parse_hex_string).
HexIsRead ==
    /\ ParseHexString(hex) = meant
    /\ hex # <<>> /\ Last(hex) = Digit(0) => ParseHexString(Front(hex)) = meant
=============================================================================
