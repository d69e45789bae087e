------------------------------ MODULE XmlProofs ------------------------------
(***************************************************************************)
(* Proofs about the hardened XML parser (_xmlsec.py) and the insertion     *)
(* points validate.py derives from its stamps, for any tags, any bounds,   *)
(* any catalog and any document.                                           *)
(*                                                                         *)
(* The parser keeps a tree, a stack of open elements and the line it is    *)
(* on, and never looks back at the document.  Parsed says what these are   *)
(* of the events read so far: as many elements as start tags, as many open *)
(* ones as start tags without their end, and one line more than line       *)
(* breaks.  The k-th element is the one of the k-th start tag, which makes *)
(* its line the number of line breaks before that tag.                     *)
(***************************************************************************)
EXTENDS XmlIntake, InductionLemmas

\* The positions of start tags, end tags and line breaks in the document.
Open(doc) == {i \in 1 .. Len(doc) : doc[i] \notin Markers}
Of(mark, doc) == {i \in 1 .. Len(doc) : doc[i] = mark}
UpTo(S, k) == {i \in S : i <= k}

\* How deep the start tag at i is, and the line it is on.
Nested(doc, i) == Cardinality(UpTo(Open(doc), i)) - Cardinality(UpTo(Of("end", doc), i - 1))
LineAt(doc, i) == 1 + Cardinality(UpTo(Of("newline", doc), i - 1))

\* A sequence, of whatever members.
IsRow(s) == Len(s) \in Nat /\ s = [i \in 1 .. Len(s) |-> s[i]]

\* What was built of a document that is well so far.
Parsed(doc, tree, pending, at) ==
  /\ Of("doctype", doc) = {} /\ Of("oversized", doc) = {}
  /\ Len(tree) = Cardinality(Open(doc)) /\ Len(tree) <= MaxElementCount
  /\ Len(pending) = Cardinality(Open(doc)) - Cardinality(Of("end", doc))
  /\ at = 1 + Cardinality(Of("newline", doc))
  /\ \A i \in Open(doc) :
       /\ Nested(doc, i) <= MaxElementDepth
       /\ Cardinality(UpTo(Open(doc), i)) \in 1 .. Len(tree)
       /\ tree[Cardinality(UpTo(Open(doc), i))].line = LineAt(doc, i)
  /\ \A k \in 1 .. Len(tree) : \E i \in Open(doc) : Cardinality(UpTo(Open(doc), i)) = k

\* The inductive invariant: insertions come after the tree, and a document that is not refused has
\* been parsed as far as it was read.
XmlInv ==
  /\ IsRow(events) /\ IsRow(nodes) /\ IsRow(stack) /\ IsRow(inserted)
  /\ inserted # <<>> => status = "built"
  /\ status # "refused" /\ inserted = <<>> => Parsed(events, nodes, stack, line)

-----------------------------------------------------------------------------
LEMMA RowFrom ==
  ASSUME NEW n \in Nat, NEW s, s = [i \in 1 .. n |-> s[i]]
  PROVE  IsRow(s) /\ Len(s) = n
<1>1. s \in Seq({s[i] : i \in 1 .. n})
  OBVIOUS
<1>2. Len(s) = n
  <2>1. DOMAIN s = 1 .. n
    OBVIOUS
  <2> QED
    BY <1>1, <2>1
<1> QED
  BY <1>2 DEF IsRow

LEMMA RowIsSeq ==
  ASSUME NEW s, IsRow(s)
  PROVE  s \in Seq({s[i] : i \in 1 .. Len(s)}) /\ Len(s) \in Nat /\ DOMAIN s = 1 .. Len(s)
<1> DEFINE n == Len(s)
<1>1. n \in Nat /\ s = [i \in 1 .. n |-> s[i]]
  BY DEF IsRow
<1> HIDE DEF n
<1>2. s \in [1 .. n -> {s[i] : i \in 1 .. n}]
  BY <1>1
<1> QED
  BY <1>1, <1>2 DEF n

LEMMA RowAppend ==
  ASSUME NEW s, IsRow(s), NEW x
  PROVE  /\ IsRow(Append(s, x)) /\ Len(Append(s, x)) = Len(s) + 1 /\ Append(s, x) # <<>>
         /\ \A i \in 1 .. Len(s) : Append(s, x)[i] = s[i]
         /\ Append(s, x)[Len(s) + 1] = x
<1> DEFINE S == {s[i] : i \in 1 .. Len(s)} \cup {x}
           t == Append(s, x)
           n == Len(s)
<1>1. s \in Seq(S) /\ n \in Nat /\ x \in S
  <2> DEFINE own == {s[i] : i \in 1 .. Len(s)}
  <2>1. s \in Seq(own) /\ Len(s) \in Nat
    BY RowIsSeq
  <2>2. own \subseteq S /\ x \in S
    OBVIOUS
  <2> HIDE DEF own, S
  <2>3. Seq(own) \subseteq Seq(S)
    BY <2>2
  <2> QED
    BY <2>1, <2>2, <2>3
<1>2. /\ t \in Seq(S) /\ Len(t) = n + 1 /\ t[n + 1] = x /\ DOMAIN t = 1 .. n + 1
      /\ \A i \in 1 .. n : t[i] = s[i]
  <2> HIDE DEF S
  <2> QED
    BY <1>1
<1>3. IsRow(t) /\ t # <<>>
  <2> HIDE DEF t, S
  <2>1. t = [i \in 1 .. n + 1 |-> t[i]] /\ n + 1 \in Nat
    BY <1>1, <1>2
  <2>2. IsRow(t)
    BY <2>1, RowFrom
  <2>3. t # <<>>
    BY <1>1, <1>2
  <2> QED
    BY <2>2, <2>3
<1> QED
  BY <1>2, <1>3

LEMMA RowFront ==
  ASSUME NEW s, IsRow(s), s # <<>>
  PROVE  IsRow(Front(s)) /\ Len(Front(s)) = Len(s) - 1
<1> DEFINE S == {s[i] : i \in 1 .. Len(s)}
           n == Len(s)
<1>1. s \in Seq(S) /\ n \in Nat /\ DOMAIN s = 1 .. n
  BY RowIsSeq
<1>2. n # 0
  <2> HIDE DEF S
  <2> QED
    BY <1>1
<1>3. Front(s) \in Seq(S) /\ Len(Front(s)) = n - 1
  <2> HIDE DEF S
  <2> QED
    BY <1>1, <1>2 DEF Front
<1>4. DOMAIN Front(s) = 1 .. n - 1 /\ Front(s) = [i \in 1 .. n - 1 |-> Front(s)[i]]
  <2> HIDE DEF S
  <2> DEFINE f == Front(s)
  <2> HIDE DEF f
  <2>1. f \in Seq(S) /\ Len(f) = n - 1
    BY <1>3 DEF f
  <2>2. DOMAIN f = 1 .. n - 1 /\ f = [i \in 1 .. n - 1 |-> f[i]]
    BY <2>1
  <2> QED
    BY <2>2 DEF f
<1> QED
  BY <1>1, <1>2, <1>3, <1>4 DEF IsRow

\* Counting up to a position.
LEMMA CountFacts ==
  ASSUME NEW n \in Nat, NEW S, S \subseteq 1 .. n
  PROVE  /\ Cardinality(S) \in Nat /\ Cardinality(S \cup {n + 1}) = Cardinality(S) + 1
         /\ UpTo(S, n) = S /\ UpTo(S \cup {n + 1}, n) = S
         /\ UpTo(S \cup {n + 1}, n + 1) = S \cup {n + 1}
         /\ \A k \in 0 .. n : UpTo(S \cup {n + 1}, k) = UpTo(S, k)
         /\ \A k \in Int : Cardinality(UpTo(S, k)) \in Nat
<1>1. IsFiniteSet(S)
  <2>1. IsFiniteSet(1 .. n)
    BY FS_Interval
  <2> QED
    BY <2>1, FS_Subset
<1>2. Cardinality(S) \in Nat /\ Cardinality(S \cup {n + 1}) = Cardinality(S) + 1
  <2>1. n + 1 \notin S
    OBVIOUS
  <2> QED
    BY <1>1, <2>1, FS_CardinalityType, FS_AddElement
<1>3. /\ UpTo(S, n) = S /\ UpTo(S \cup {n + 1}, n) = S
      /\ UpTo(S \cup {n + 1}, n + 1) = S \cup {n + 1}
      /\ \A k \in 0 .. n : UpTo(S \cup {n + 1}, k) = UpTo(S, k)
  <2>1. \A i \in S : i \in Int /\ i <= n /\ i <= n + 1
    OBVIOUS
  <2>2. \A k \in 0 .. n : ~(n + 1 <= k)
    OBVIOUS
  <2>3. n \in 0 .. n /\ n + 1 <= n + 1
    OBVIOUS
  <2>4. \A k \in 0 .. n : UpTo(S \cup {n + 1}, k) = UpTo(S, k)
    BY <2>2, Zenon DEF UpTo
  <2>5. UpTo(S, n) = S
    BY <2>1, Zenon DEF UpTo
  <2>6. UpTo(S \cup {n + 1}, n + 1) = S \cup {n + 1}
    BY <2>1, <2>3, Zenon DEF UpTo
  <2> QED
    BY <2>3, <2>4, <2>5, <2>6
<1>4. \A k \in Int : Cardinality(UpTo(S, k)) \in Nat
  <2> SUFFICES ASSUME NEW k \in Int PROVE Cardinality(UpTo(S, k)) \in Nat
    OBVIOUS
  <2>1. UpTo(S, k) \subseteq S
    BY DEF UpTo
  <2> QED
    BY <1>1, <2>1, FS_Subset, FS_CardinalityType
<1> QED
  BY <1>2, <1>3, <1>4

\* One more event.
LEMMA OneMore ==
  ASSUME NEW doc, IsRow(doc), NEW e
  PROVE  /\ Open(doc) \subseteq 1 .. Len(doc)
         /\ \A mark : Of(mark, doc) \subseteq 1 .. Len(doc)
         /\ Open(Append(doc, e)) = IF e \in Markers THEN Open(doc) ELSE Open(doc) \cup {Len(doc) + 1}
         /\ \A mark : Of(mark, Append(doc, e)) =
                        IF e = mark THEN Of(mark, doc) \cup {Len(doc) + 1} ELSE Of(mark, doc)
<1> DEFINE n == Len(doc)
           new == Append(doc, e)
<1>1. n \in Nat /\ Len(new) = n + 1 /\ new[n + 1] = e /\ \A i \in 1 .. n : new[i] = doc[i]
  BY RowAppend, RowIsSeq
<1> HIDE DEF new
<1>2. 1 .. n + 1 = (1 .. n) \cup {n + 1}
  BY <1>1
<1>3. Open(new) = IF e \in Markers THEN Open(doc) ELSE Open(doc) \cup {n + 1}
  BY <1>1, <1>2 DEF Open
<1>4. \A mark : Of(mark, new) = IF e = mark THEN Of(mark, doc) \cup {n + 1} ELSE Of(mark, doc)
  BY <1>1, <1>2 DEF Of
<1> QED
  BY <1>3, <1>4 DEF Open, Of, new

\* A line break, an end tag.
LEMMA ParsedMark ==
  ASSUME NEW doc, IsRow(doc), NEW tree, NEW pending, NEW at, Parsed(doc, tree, pending, at),
         NEW mark \in {"newline", "end"}, NEW rest, NEW next,
         mark = "newline" => rest = pending /\ next = at + 1,
         mark = "end" => Len(rest) = Len(pending) - 1 /\ next = at
  PROVE  Parsed(Append(doc, mark), tree, rest, next)
<1> DEFINE n == Len(doc)
           new == Append(doc, mark)
<1>1. n \in Nat
  BY RowIsSeq
<1>2. /\ Open(new) = Open(doc) /\ Open(doc) \subseteq 1 .. n
      /\ \A m : Of(m, new) = IF mark = m THEN Of(m, doc) \cup {n + 1} ELSE Of(m, doc)
      /\ \A m : Of(m, doc) \subseteq 1 .. n
  BY OneMore DEF Markers
<1> HIDE DEF new, n
<1>3. Of("doctype", new) = {} /\ Of("oversized", new) = {}
  BY <1>2 DEF Parsed
<1>4. \A m : /\ Cardinality(Of(m, doc)) \in Nat
             /\ Cardinality(Of(m, new)) = Cardinality(Of(m, doc)) + (IF mark = m THEN 1 ELSE 0)
             /\ \A i \in 1 .. n : UpTo(Of(m, new), i - 1) = UpTo(Of(m, doc), i - 1)
  <2> SUFFICES ASSUME NEW m
               PROVE /\ Cardinality(Of(m, doc)) \in Nat
                     /\ Cardinality(Of(m, new)) = Cardinality(Of(m, doc)) + (IF mark = m THEN 1 ELSE 0)
                     /\ \A i \in 1 .. n : UpTo(Of(m, new), i - 1) = UpTo(Of(m, doc), i - 1)
    OBVIOUS
  <2> DEFINE S == Of(m, doc)
  <2>1. S \subseteq 1 .. n
    BY <1>2
  <2>2. /\ Cardinality(S) \in Nat /\ Cardinality(S \cup {n + 1}) = Cardinality(S) + 1
        /\ \A k \in 0 .. n : UpTo(S \cup {n + 1}, k) = UpTo(S, k)
    BY <1>1, <2>1, CountFacts
  <2>3. \A i \in 1 .. n : i - 1 \in 0 .. n
    BY <1>1
  <2> HIDE DEF S
  <2>4. Of(m, new) = IF mark = m THEN S \cup {n + 1} ELSE S
    BY <1>2 DEF S
  <2>5. /\ Cardinality(Of(m, new)) = Cardinality(S) + (IF mark = m THEN 1 ELSE 0)
        /\ \A i \in 1 .. n : UpTo(Of(m, new), i - 1) = UpTo(S, i - 1)
    <3>1. CASE mark = m
      BY <2>2, <2>3, <2>4, <3>1
    <3>2. CASE mark # m
      <4>1. Of(m, new) = S
        BY <2>4, <3>2
      <4> QED
        BY <2>2, <3>2, <4>1
    <3> QED
      BY <3>1, <3>2
  <2> QED
    BY <2>2, <2>5 DEF S
<1>5. Cardinality(Open(doc)) \in Nat
  BY <1>1, <1>2, CountFacts
<1>6. Len(rest) = Cardinality(Open(new)) - Cardinality(Of("end", new))
  BY <1>2, <1>4, <1>5 DEF Parsed
<1>7. next = 1 + Cardinality(Of("newline", new))
  BY <1>4 DEF Parsed
<1>8. \A i \in Open(new) : Nested(new, i) = Nested(doc, i) /\ LineAt(new, i) = LineAt(doc, i)
  BY <1>2, <1>4 DEF Nested, LineAt
<1> QED
  BY <1>2, <1>3, <1>6, <1>7, <1>8 DEF Parsed, new

\* A start tag within the bounds.
LEMMA ParsedStart ==
  ASSUME NEW doc, IsRow(doc), NEW tree, IsRow(tree), NEW pending, NEW at,
         Parsed(doc, tree, pending, at), NEW tag, tag \notin Markers, NEW node, node.line = at,
         NEW held, Len(held) = Len(pending) + 1, Len(held) <= MaxElementDepth,
         Len(tree) + 1 <= MaxElementCount
  PROVE  Parsed(Append(doc, tag), Append(tree, node), held, at)
<1> DEFINE n == Len(doc)
           new == Append(doc, tag)
           more == Append(tree, node)
           S == Open(doc)
<1>1. n \in Nat /\ Len(tree) \in Nat
  BY RowIsSeq
<1>2. /\ Open(new) = S \cup {n + 1} /\ S \subseteq 1 .. n
      /\ \A m \in Markers : Of(m, new) = Of(m, doc)
      /\ \A m : Of(m, doc) \subseteq 1 .. n
  BY OneMore
<1>3. Len(more) = Len(tree) + 1 /\ more[Len(tree) + 1] = node /\ \A i \in 1 .. Len(tree) : more[i] = tree[i]
  BY RowAppend
<1> HIDE DEF new, n, more
<1>4. Of("doctype", new) = {} /\ Of("oversized", new) = {}
  BY <1>2 DEF Parsed, Markers
<1>5. /\ Cardinality(S) \in Nat /\ Cardinality(S \cup {n + 1}) = Cardinality(S) + 1
      /\ UpTo(S \cup {n + 1}, n + 1) = S \cup {n + 1}
      /\ \A k \in 0 .. n : UpTo(S \cup {n + 1}, k) = UpTo(S, k)
  BY <1>1, <1>2, CountFacts
<1>6. \A m : Cardinality(Of(m, doc)) \in Nat /\ UpTo(Of(m, doc), n) = Of(m, doc)
  BY <1>1, <1>2, CountFacts
<1>7. Of("end", new) = Of("end", doc) /\ Of("newline", new) = Of("newline", doc)
  BY <1>2 DEF Markers
<1>8. /\ Len(tree) = Cardinality(S) /\ Len(pending) = Cardinality(S) - Cardinality(Of("end", doc))
      /\ at = 1 + Cardinality(Of("newline", doc))
  BY DEF Parsed
<1>9. /\ Len(more) = Cardinality(Open(new)) /\ Len(more) <= MaxElementCount
      /\ Len(held) = Cardinality(Open(new)) - Cardinality(Of("end", new))
      /\ at = 1 + Cardinality(Of("newline", new))
  BY <1>1, <1>2, <1>3, <1>5, <1>6, <1>7, <1>8
<1>10. ASSUME NEW i \in S
       PROVE  /\ Nested(new, i) <= MaxElementDepth
              /\ Cardinality(UpTo(Open(new), i)) \in 1 .. Len(more)
              /\ more[Cardinality(UpTo(Open(new), i))].line = LineAt(new, i)
              /\ Cardinality(UpTo(Open(new), i)) = Cardinality(UpTo(S, i))
  <2>1. i \in 0 .. n
    BY <1>1, <1>2
  <2>2. UpTo(Open(new), i) = UpTo(S, i)
    BY <1>2, <1>5, <2>1
  <2>3. Nested(new, i) = Nested(doc, i) /\ LineAt(new, i) = LineAt(doc, i)
    BY <1>7, <2>2 DEF Nested, LineAt
  <2>4. /\ Nested(doc, i) <= MaxElementDepth /\ Cardinality(UpTo(S, i)) \in 1 .. Len(tree)
        /\ tree[Cardinality(UpTo(S, i))].line = LineAt(doc, i)
    BY DEF Parsed
  <2> DEFINE k == Cardinality(UpTo(S, i))
  <2> HIDE DEF k
  <2>5. k \in 1 .. Len(more) /\ more[k] = tree[k]
    BY <1>1, <1>3, <2>4 DEF k
  <2> QED
    BY <2>2, <2>3, <2>4, <2>5 DEF k
<1>11. /\ Nested(new, n + 1) <= MaxElementDepth
       /\ Cardinality(UpTo(Open(new), n + 1)) = Len(more)
       /\ more[Len(more)].line = LineAt(new, n + 1)
  <2>1. UpTo(Open(new), n + 1) = Open(new)
    BY <1>2, <1>5
  <2>2. (n + 1) - 1 = n
    BY <1>1
  <2>3. Nested(new, n + 1) = Cardinality(Open(new)) - Cardinality(Of("end", new))
    BY <1>6, <1>7, <2>1, <2>2 DEF Nested
  <2>4. LineAt(new, n + 1) = 1 + Cardinality(Of("newline", doc))
    BY <1>6, <1>7, <2>2 DEF LineAt
  <2> QED
    BY <1>3, <1>8, <1>9, <2>1, <2>3, <2>4
<1>12. \A k \in 1 .. Len(more) : \E i \in Open(new) : Cardinality(UpTo(Open(new), i)) = k
  <2> SUFFICES ASSUME NEW k \in 1 .. Len(more)
               PROVE  \E i \in Open(new) : Cardinality(UpTo(Open(new), i)) = k
    OBVIOUS
  <2>1. CASE k = Len(more)
    BY <1>2, <1>11, <2>1
  <2>2. CASE k # Len(more)
    <3>1. k \in 1 .. Len(tree)
      BY <1>1, <1>3, <2>2
    <3>2. PICK i \in S : Cardinality(UpTo(S, i)) = k
      BY <3>1 DEF Parsed
    <3> QED
      BY <1>2, <1>10, <3>2
  <2> QED
    BY <2>1, <2>2
<1>13. Len(more) \in 1 .. Len(more)
  BY <1>1, <1>3
<1>14. \A i \in Open(new) :
         /\ Nested(new, i) <= MaxElementDepth
         /\ Cardinality(UpTo(Open(new), i)) \in 1 .. Len(more)
         /\ more[Cardinality(UpTo(Open(new), i))].line = LineAt(new, i)
  BY <1>2, <1>10, <1>11, <1>13
<1> QED
  BY <1>4, <1>9, <1>12, <1>14 DEF Parsed, new, more

-----------------------------------------------------------------------------
LEMMA XmlBegins ==
  ASSUME DocumentAssumption, XmlInit
  PROVE  XmlInv
<1>1. IsRow(<<>>) /\ Len(<<>>) = 0
  BY DEF IsRow
<1>2. \A m, k : Of(m, <<>>) = {} /\ UpTo(Of(m, <<>>), k) = {}
  BY <1>1 DEF Of, UpTo
<1>3. Open(<<>>) = {} /\ Cardinality({}) = 0
  BY <1>1, FS_EmptySet DEF Open
<1>4. MaxElementCount \in Nat
  BY DEF DocumentAssumption
<1>5. Parsed(<<>>, <<>>, <<>>, 1)
  <2>1. Of("doctype", <<>>) = {} /\ Of("oversized", <<>>) = {}
    BY <1>2
  <2>2. /\ Len(<<>>) = Cardinality(Open(<<>>)) /\ Len(<<>>) <= MaxElementCount
        /\ Len(<<>>) = Cardinality(Open(<<>>)) - Cardinality(Of("end", <<>>))
    <3>1. Cardinality(Open(<<>>)) = 0 /\ Cardinality(Of("end", <<>>)) = 0
      BY <1>2, <1>3
    <3> QED
      BY <1>1, <1>4, <3>1
  <2>3. 1 = 1 + Cardinality(Of("newline", <<>>))
    <3>1. Cardinality(Of("newline", <<>>)) = 0
      BY <1>2, <1>3
    <3> QED
      BY <3>1
  <2>4. 1 .. Len(<<>>) = {}
    BY <1>1
  <2> QED
    BY <1>3, <2>1, <2>2, <2>3, <2>4 DEF Parsed
<1> QED
  BY <1>1, <1>5 DEF XmlInit, XmlInv

LEMMA XmlStep ==
  ASSUME DocumentAssumption, XmlInv, [XmlNext]_xmlVars
  PROVE  XmlInv'
<1>1. IsRow(events) /\ IsRow(nodes) /\ IsRow(stack) /\ IsRow(inserted)
  BY DEF XmlInv
<1>2. CASE TooLarge \/ ForbidDtd
  <2>1. /\ status' = "refused" /\ \E e : events' = Append(events, e)
        /\ status = "feeding" /\ UNCHANGED <<line, nodes, stack, inserted>>
    BY <1>2, Zenon DEF TooLarge, ForbidDtd, Feeding, Write, Refuse
  <2>2. IsRow(events')
    BY <1>1, <2>1, RowAppend
  <2> QED
    BY <1>1, <2>1, <2>2 DEF XmlInv
<1>3. CASE NewLine
  <2>1. /\ events' = Append(events, "newline") /\ line' = line + 1 /\ status = "feeding"
        /\ UNCHANGED <<nodes, stack, status, inserted>>
    BY <1>3 DEF NewLine, Feeding, Write
  <2>2. IsRow(events') /\ inserted = <<>>
    BY <1>1, <2>1, RowAppend DEF XmlInv
  <2>3. Parsed(events, nodes, stack, line)
    BY <2>1, <2>2 DEF XmlInv
  <2>4. Parsed(Append(events, "newline"), nodes, stack, line + 1)
    BY <1>1, <2>3, ParsedMark
  <2> QED
    BY <1>1, <2>1, <2>2, <2>4 DEF XmlInv
<1>4. CASE End
  <2>1. /\ events' = Append(events, "end") /\ stack # <<>> /\ stack' = Front(stack) /\ status = "feeding"
        /\ UNCHANGED <<line, nodes, status, inserted>>
    BY <1>4 DEF End, Feeding, Write
  <2>2. IsRow(events') /\ inserted = <<>>
    BY <1>1, <2>1, RowAppend DEF XmlInv
  <2>3. Parsed(events, nodes, stack, line)
    BY <2>1, <2>2 DEF XmlInv
  <2>4. IsRow(stack') /\ Len(stack') = Len(stack) - 1
    BY <1>1, <2>1, RowFront
  <2>5. Parsed(Append(events, "end"), nodes, stack', line)
    BY <1>1, <2>3, <2>4, ParsedMark
  <2> QED
    BY <1>1, <2>1, <2>2, <2>4, <2>5 DEF XmlInv
<1>5. CASE Close
  <2>1. /\ UNCHANGED <<events, line, nodes, stack, inserted>> /\ status = "feeding"
        /\ status' \in {"built", "refused"}
    BY <1>5 DEF Close, Refuse
  <2> QED
    BY <1>1, <2>1 DEF XmlInv
<1>6. CASE Insert
  <2>1. PICK x, f, r :
          /\ nodes' = Append([i \in DOMAIN nodes |-> f[i]], r)
          /\ inserted' = Append(inserted, x)
    <3>1. PICK path \in Paths :
            LET at == InsertionPoint(nodes, path)
            IN /\ nodes' = Append([i \in DOMAIN nodes |->
                                     IF nodes[i].line > nodes[at].line THEN [nodes[i] EXCEPT !.line = @ + 1]
                                     ELSE nodes[i]],
                                 [tag |-> StepsBelowRoot(path)[DepthOf(nodes, at) + 1], parent |-> at,
                                  line |-> nodes[at].line + 1])
               /\ inserted' = Append(inserted, <<path, Len(nodes) + 1>>)
      BY <1>6, Zenon DEF Insert
    <3> DEFINE at == InsertionPoint(nodes, path)
               f == [i \in DOMAIN nodes |->
                       IF nodes[i].line > nodes[at].line THEN [nodes[i] EXCEPT !.line = @ + 1] ELSE nodes[i]]
    <3>2. f = [i \in DOMAIN nodes |-> f[i]]
      OBVIOUS
    <3> QED
      BY <3>1, <3>2, Zenon
  <2>2. IsRow(inserted') /\ inserted' # <<>>
    BY <1>1, <2>1, RowAppend
  <2>3. IsRow(nodes')
    <3> DEFINE moved == [i \in DOMAIN nodes |-> f[i]]
    <3>1. DOMAIN nodes = 1 .. Len(nodes) /\ Len(nodes) \in Nat
      BY <1>1, RowIsSeq
    <3>2. moved = [i \in 1 .. Len(nodes) |-> moved[i]]
      BY <3>1
    <3> HIDE DEF moved
    <3>3. IsRow(moved)
      BY <3>1, <3>2, RowFrom
    <3>4. nodes' = Append(moved, r)
      BY <2>1 DEF moved
    <3> QED
      BY <3>3, <3>4, RowAppend
  <2>4. status' = "built" /\ UNCHANGED <<events, stack>>
    BY <1>6 DEF Insert
  <2> QED
    BY <1>1, <2>2, <2>3, <2>4 DEF XmlInv
<1>7. ASSUME NEW tag \in Tags \cup {RootTag}, Start(tag) PROVE XmlInv'
  <2>1. /\ events' = Append(events, tag) /\ status = "feeding" /\ UNCHANGED <<line, inserted>>
        /\ tag \notin Markers
    BY <1>7 DEF Start, Feeding, Write, DocumentAssumption
  <2>2. IsRow(events') /\ inserted = <<>>
    BY <1>1, <2>1, RowAppend DEF XmlInv
  <2>3. Parsed(events, nodes, stack, line)
    BY <2>1, <2>2 DEF XmlInv
  <2>4. CASE status' = "refused" /\ UNCHANGED <<nodes, stack>>
    BY <1>1, <2>1, <2>2, <2>4 DEF XmlInv
  <2>5. CASE /\ ~(Len(stack) + 1 > MaxElementDepth) /\ ~(Len(nodes) + 1 > MaxElementCount)
             /\ \E parent : nodes' = Append(nodes, [tag |-> tag, parent |-> parent, line |-> line])
             /\ stack' = Append(stack, Len(nodes) + 1)
             /\ status' = status
    <3>1. PICK parent : nodes' = Append(nodes, [tag |-> tag, parent |-> parent, line |-> line])
      BY <2>5
    <3> DEFINE node == [tag |-> tag, parent |-> parent, line |-> line]
    <3>2. /\ IsRow(nodes') /\ IsRow(stack') /\ Len(stack') = Len(stack) + 1
          /\ Len(stack) \in Nat /\ Len(nodes) \in Nat
      BY <1>1, <2>5, <3>1, RowAppend, RowIsSeq
    <3>3. Len(stack') <= MaxElementDepth /\ Len(nodes) + 1 <= MaxElementCount
      BY <2>5, <3>2 DEF DocumentAssumption
    <3>4. node.line = line
      OBVIOUS
    <3> HIDE DEF node
    <3>5. Parsed(Append(events, tag), Append(nodes, node), stack', line)
      BY <1>1, <2>1, <2>3, <3>2, <3>3, <3>4, ParsedStart
    <3> QED
      BY <1>1, <2>1, <2>2, <3>1, <3>2, <3>5, <2>5 DEF XmlInv, node
  <2> QED
    BY <1>7, <2>4, <2>5 DEF Start, Refuse
<1>8. CASE UNCHANGED xmlVars
  BY <1>8 DEF XmlInv, xmlVars
<1>9. CASE \E tag \in (IF nodes = <<>> THEN {RootTag} ELSE Tags) : Start(tag)
  BY <1>7, <1>9
<1> QED
  BY <1>2, <1>3, <1>4, <1>5, <1>6, <1>8, <1>9 DEF XmlNext

\* A tree is handed on only of a document without a DTD and within every bound, and of
\* such a document all of it, each element with the line of its start tag
\* (_HardenedTreeParser): for every set of tags and every pair of bounds.
THEOREM BuiltIsTheDocument ==
  ASSUME DocumentAssumption
  PROVE  XmlSpec => []BuiltIsDocument
<1>1. XmlInv => BuiltIsDocument
  <2> SUFFICES ASSUME XmlInv, status = "built", inserted = <<>>
               PROVE /\ \A i \in DOMAIN events : events[i] \notin {"doctype", "oversized"}
                     /\ Cardinality(Starts) <= MaxElementCount
                     /\ \A i \in Starts : NestingAt(i) <= MaxElementDepth
                     /\ Len(nodes) = Cardinality(Starts)
                     /\ \A k \in DOMAIN nodes :
                          LET i == CHOOSE j \in Starts : Cardinality({m \in Starts : m <= j}) = k
                          IN nodes[k].line = 1 + Cardinality({j \in 1..(i - 1) : events[j] = "newline"})
    BY DEF BuiltIsDocument
  <2>1. /\ Parsed(events, nodes, stack, line) /\ DOMAIN events = 1 .. Len(events) /\ Len(events) \in Nat
        /\ DOMAIN nodes = 1 .. Len(nodes)
    BY RowIsSeq DEF XmlInv
  <2>2. Starts = Open(events)
    BY <2>1 DEF Starts, Open
  <2>3. \A i \in DOMAIN events : events[i] \notin {"doctype", "oversized"}
    BY <2>1 DEF Parsed, Of
  <2>4. Cardinality(Starts) <= MaxElementCount /\ Len(nodes) = Cardinality(Starts)
    BY <2>1, <2>2 DEF Parsed
  <2>5. \A m : \A i \in Starts : {j \in 1 .. i - 1 : events[j] = m} = UpTo(Of(m, events), i - 1)
    BY <2>1, <2>2 DEF UpTo, Of, Open
  <2>6. \A i \in Starts : NestingAt(i) <= MaxElementDepth
    <3> SUFFICES ASSUME NEW i \in Starts PROVE NestingAt(i) <= MaxElementDepth
      OBVIOUS
    <3>1. {j \in Starts : j <= i} = UpTo(Open(events), i)
      BY <2>2 DEF UpTo
    <3>2. NestingAt(i) = Nested(events, i)
      BY <2>5, <3>1 DEF NestingAt, EndsBefore, Nested
    <3> QED
      BY <2>1, <2>2, <3>2 DEF Parsed
  <2>7. ASSUME NEW k \in DOMAIN nodes
        PROVE  LET i == CHOOSE j \in Starts : Cardinality({m \in Starts : m <= j}) = k
               IN nodes[k].line = 1 + Cardinality({j \in 1..(i - 1) : events[j] = "newline"})
    <3> DEFINE Rank(j) == Cardinality({m \in Starts : m <= j})
               i == CHOOSE j \in Starts : Rank(j) = k
    <3>1. \A j : Rank(j) = Cardinality(UpTo(Open(events), j))
      BY <2>2 DEF UpTo
    <3>2. \E j \in Starts : Rank(j) = k
      BY <2>1, <2>2, <3>1 DEF Parsed
    <3>3. i \in Starts /\ Rank(i) = k
      <4> HIDE DEF Rank
      <4> QED
        BY <3>2, Zenon
    <3> HIDE DEF i
    <3>4. nodes[Cardinality(UpTo(Open(events), i))].line = LineAt(events, i)
      BY <2>1, <2>2, <3>3 DEF Parsed
    <3>5. nodes[k].line = LineAt(events, i)
      BY <3>1, <3>3, <3>4
    <3>6. nodes[k].line = 1 + Cardinality({j \in 1..(i - 1) : events[j] = "newline"})
      BY <2>5, <3>3, <3>5 DEF LineAt
    <3> QED
      BY <3>6 DEF i
  <2> QED
    BY <2>3, <2>4, <2>6, <2>7
<1> QED
  BY <1>1, XmlBegins, XmlStep, PTL DEF XmlSpec
-----------------------------------------------------------------------------
(***************************************************************************)
(* Insertion points.  The walk down a path and the sets of elements its    *)
(* steps lead to go together: as long as each set holds one element the    *)
(* walk is at it, and it stops at the first set that does not.  Elements   *)
(* come after their parents, so that a new one is below none of the        *)
(* elements the walk passed before.                                        *)
(***************************************************************************)
\* A tree with its root first and every element after its parent.
IsTree(tree) ==
  /\ IsRow(tree) /\ Len(tree) >= 1 /\ tree[1].parent = 0
  /\ \A i \in 2 .. Len(tree) : tree[i].parent \in 1 .. i - 1

\* What the three recursive functions compute, round by round.
Rounds(r, tree, steps) ==
  /\ r[0] = {1}
  /\ \A k \in 1 .. Len(steps) : r[k] = UNION {ChildrenNamed(tree, n, steps[k]) : n \in r[k - 1]}
Walked(w, tree, steps) ==
  /\ w[0] = [node |-> 1, depth |-> 0, stop |-> "none"]
  /\ \A k \in 1 .. Len(steps) : w[k] = WalkStep(tree, w[k - 1], steps[k])
Ascended(u, tree, n) ==
  /\ u[0] = n
  /\ \A k \in 1 .. Len(tree) : u[k] = IF u[k - 1] = 0 THEN 0 ELSE tree[u[k - 1]].parent

LEMMA KidsInTree ==
  ASSUME NEW tree, IsTree(tree), NEW n, NEW tag
  PROVE  /\ ChildrenNamed(tree, n, tag) \subseteq 1 .. Len(tree)
         /\ IsFiniteSet(ChildrenNamed(tree, n, tag)) /\ Len(tree) \in Nat
         /\ n \in 1 .. Len(tree) => \A c \in ChildrenNamed(tree, n, tag) : n < c
<1>1. DOMAIN tree = 1 .. Len(tree) /\ Len(tree) \in Nat
  BY RowIsSeq DEF IsTree
<1>2. ChildrenNamed(tree, n, tag) \subseteq 1 .. Len(tree)
  BY <1>1 DEF ChildrenNamed
<1>3. IsFiniteSet(ChildrenNamed(tree, n, tag))
  <2>1. IsFiniteSet(1 .. Len(tree))
    BY <1>1, FS_Interval
  <2> QED
    BY <1>2, <2>1, FS_Subset
<1>4. ASSUME n \in 1 .. Len(tree), NEW c \in ChildrenNamed(tree, n, tag) PROVE n < c
  <2>1. c \in 1 .. Len(tree) /\ tree[c].parent = n
    BY <1>2 DEF ChildrenNamed
  <2>2. c # 1
    BY <1>4, <2>1 DEF IsTree
  <2>3. c \in 2 .. Len(tree)
    BY <1>1, <2>1, <2>2
  <2>4. n \in 1 .. c - 1
    BY <2>1, <2>3 DEF IsTree
  <2> QED
    BY <2>3, <2>4
<1> QED
  BY <1>1, <1>2, <1>3, <1>4

LEMMA ReachedRounds ==
  ASSUME NEW tree, IsTree(tree), NEW steps, IsRow(steps)
  PROVE  /\ Rounds(Reached(tree, steps), tree, steps)
         /\ \A k \in 0 .. Len(steps) : Reached(tree, steps)[k] \subseteq 1 .. Len(tree)
<1> DEFINE N == Len(steps)
           S == SUBSET (1 .. Len(tree))
           Next(A, k) == UNION {ChildrenNamed(tree, n, steps[k]) : n \in A}
           step == [sn \in S \X (1 .. N) |-> Next(sn[1], sn[2])]
           Body(f) == [k \in 0 .. Len(steps) |-> IF k = 0 THEN {1} ELSE Next(f[k - 1], k)]
           reach == CHOOSE f : f = Body(f)
<1>1. N \in Nat /\ Len(tree) \in Nat
  BY RowIsSeq DEF IsTree
<1>2. {1} \in S
  BY <1>1 DEF IsTree
<1>3. \A A, k : Next(A, k) \in S
  BY KidsInTree
<1>4. step \in [S \X (1 .. N) -> S]
  <2> HIDE DEF S, Next, N
  <2> QED
    BY <1>3
<1>5. PICK f : IsLoop(f, N, S, {1}, step)
  <2> HIDE DEF step, N, S
  <2> QED
    BY <1>1, <1>2, <1>4, LoopExists
<1>6. f \in [0 .. N -> S] /\ f[0] = {1} /\ \A n \in 1 .. N : f[n] = Next(f[n - 1], n)
  <2>1. f \in [0 .. N -> S] /\ f[0] = {1}
    BY <1>5 DEF IsLoop
  <2>2. ASSUME NEW n \in 1 .. N PROVE f[n] = Next(f[n - 1], n)
    <3> HIDE DEF N, step, S, Next
    <3>1. n - 1 \in 0 .. N
      BY <1>1
    <3>2. <<f[n - 1], n>> \in S \X (1 .. N)
      BY <2>1, <3>1
    <3>3. f[n] = step[<<f[n - 1], n>>]
      BY <1>5 DEF IsLoop
    <3> QED
      BY <3>2, <3>3 DEF step
  <2> QED
    BY <2>1, <2>2
<1>7. f = Body(f)
  <2> HIDE DEF Next, S
  <2>1. \A n \in 0 .. N : f[n] = IF n = 0 THEN {1} ELSE Next(f[n - 1], n)
    BY <1>1, <1>6
  <2> QED
    BY <1>6, <2>1
<1>8. reach = Body(reach)
  <2> HIDE DEF Body
  <2> QED
    BY <1>7, Zenon
<1>9. Reached(tree, steps) = reach
  BY DEF Reached
<1>10. reach[0] = {1} /\ \A k \in 1 .. N : reach[k] = Next(reach[k - 1], k)
  <2> HIDE DEF Next, reach
  <2>1. \A k \in 0 .. N : reach[k] = IF k = 0 THEN {1} ELSE Next(reach[k - 1], k)
    BY <1>8, Zenon
  <2> QED
    BY <1>1, <2>1
<1>11. \A k \in 0 .. N : reach[k] \subseteq 1 .. Len(tree)
  <2> HIDE DEF Next, reach
  <2> SUFFICES ASSUME NEW k \in 0 .. N PROVE reach[k] \in S
    OBVIOUS
  <2>1. k = 0 \/ k \in 1 .. N
    BY <1>1
  <2> QED
    BY <1>2, <1>3, <1>10, <2>1
<1> QED
  BY <1>9, <1>10, <1>11 DEF Rounds

Places == [node : Nat, depth : Nat, stop : {"none", "absent", "ambiguous"}]

LEMMA NoneOneOrMore ==
  ASSUME NEW S
  PROVE  S = {} \/ (\E c : S = {c}) \/ (\E c, d \in S : c # d)
OBVIOUS

\* A step of the walk from at, with the children that match.
StepFrom(at, matches, step) ==
  /\ step \in Places
  /\ at.stop # "none" => step = at
  /\ at.stop = "none" /\ matches = {} => step = [node |-> at.node, depth |-> at.depth, stop |-> "absent"]
  /\ at.stop = "none" /\ (\E c, d \in matches : c # d) => step.stop = "ambiguous"
  /\ \A c : at.stop = "none" /\ matches = {c} =>
       step = [node |-> c, depth |-> at.depth + 1, stop |-> "none"]

LEMMA WalkStepType ==
  ASSUME NEW tree, IsTree(tree), NEW at \in Places, NEW tag
  PROVE  StepFrom(at, ChildrenNamed(tree, at.node, tag), WalkStep(tree, at, tag))
<1> SUFFICES ASSUME NEW matches, matches = ChildrenNamed(tree, at.node, tag),
                    NEW step, step = WalkStep(tree, at, tag)
             PROVE  StepFrom(at, matches, step)
  OBVIOUS
<1>1. matches \subseteq 1 .. Len(tree) /\ IsFiniteSet(matches) /\ Len(tree) \in Nat
  BY KidsInTree
<1>2. step = IF at.stop # "none" THEN at
             ELSE IF Cardinality(matches) > 1 THEN [at EXCEPT !.stop = "ambiguous"]
             ELSE IF matches = {} THEN [at EXCEPT !.stop = "absent"]
             ELSE [at EXCEPT !.node = Min(matches), !.depth = @ + 1]
  BY DEF WalkStep
<1>3. Cardinality(matches) \in Nat
  BY <1>1, FS_CardinalityType
<1>4. at.stop # "none" => step = at
  BY <1>2
<1>5. ASSUME at.stop = "none", matches = {}
      PROVE  step = [node |-> at.node, depth |-> at.depth, stop |-> "absent"] /\ step \in Places
  <2>1. Cardinality(matches) = 0
    BY <1>5, FS_EmptySet
  <2>2. step = [at EXCEPT !.stop = "absent"]
    BY <1>2, <1>5, <2>1
  <2>3. step = [node |-> at.node, depth |-> at.depth, stop |-> "absent"] /\ step \in Places
    BY <2>2 DEF Places
  <2> QED
    BY <1>5, <2>3
<1>6. ASSUME at.stop = "none", NEW c, matches = {c}
      PROVE  step = [node |-> c, depth |-> at.depth + 1, stop |-> "none"] /\ step \in Places
  <2>1. Cardinality(matches) = 1
    BY <1>6, FS_Singleton
  <2>2. c \in Nat /\ c <= c
    BY <1>1, <1>6
  <2>3. Min(matches) = c
    BY <1>6, <2>2 DEF Min
  <2>4. step = [at EXCEPT !.node = c, !.depth = @ + 1]
    <3>1. ~(Cardinality(matches) > 1) /\ matches # {} /\ ~(at.stop # "none")
      BY <1>6, <2>1
    <3> HIDE <1>6
    <3> QED
      BY <1>2, <2>3, <3>1
  <2>5. step = [node |-> c, depth |-> at.depth + 1, stop |-> "none"]
    BY <1>6, <2>4 DEF Places
  <2> QED
    BY <2>2, <2>5 DEF Places
<1>7. ASSUME at.stop = "none", NEW c \in matches, NEW d \in matches, c # d
      PROVE  step.stop = "ambiguous" /\ step \in Places
  <2>1. Cardinality(matches) > 1
    <3> SUFFICES ASSUME ~(Cardinality(matches) > 1) PROVE FALSE
      OBVIOUS
    <3>1. Cardinality(matches) = 0 \/ Cardinality(matches) = 1
      BY <1>3
    <3>2. matches # {}
      BY <1>7
    <3>3. Cardinality(matches) # 0
      BY <1>1, <3>2, FS_EmptySet
    <3>4. \E e : matches = {e}
      BY <1>1, <3>1, <3>3, FS_Singleton
    <3> QED
      BY <1>7, <3>4
  <2>2. step = [at EXCEPT !.stop = "ambiguous"]
    BY <1>2, <1>7, <2>1
  <2> QED
    BY <2>2 DEF Places
<1>8. at.stop = "none" => matches = {} \/ (\E c : matches = {c}) \/ (\E c, d \in matches : c # d)
  BY NoneOneOrMore
<1>9. step \in Places
  <2>1. CASE at.stop # "none"
    BY <1>4, <2>1
  <2>2. CASE at.stop = "none"
    <3>1. ASSUME NEW c, matches = {c} PROVE step \in Places
      BY <1>6, <2>2, <3>1
    <3>2. ASSUME NEW c \in matches, NEW d \in matches, c # d PROVE step \in Places
      BY <1>7, <2>2, <3>2
    <3> QED
      BY <1>5, <1>8, <2>2, <3>1, <3>2
  <2> QED
    BY <2>1, <2>2
<1>10. ASSUME at.stop = "none", NEW c, matches = {c}
       PROVE  step = [node |-> c, depth |-> at.depth + 1, stop |-> "none"]
  BY <1>6, <1>10
<1>11. ASSUME at.stop = "none", NEW c \in matches, NEW d \in matches, c # d
       PROVE  step.stop = "ambiguous"
  BY <1>7, <1>11
<1> QED
  BY <1>4, <1>5, <1>9, <1>10, <1>11 DEF StepFrom

LEMMA WalkRounds ==
  ASSUME NEW tree, IsTree(tree), NEW steps, IsRow(steps)
  PROVE  Walked(Walk(tree, steps), tree, steps)
<1> DEFINE N == Len(steps)
           base == [node |-> 1, depth |-> 0, stop |-> "none"]
           step == [sn \in Places \X (1 .. N) |-> WalkStep(tree, sn[1], steps[sn[2]])]
           Body(f) == [k \in 0 .. Len(steps) |-> IF k = 0 THEN base ELSE WalkStep(tree, f[k - 1], steps[k])]
           walk == CHOOSE f : f = Body(f)
<1>1. N \in Nat
  BY RowIsSeq
<1>2. base \in Places
  BY DEF Places
<1>3. step \in [Places \X (1 .. N) -> Places]
  <2>1. \A at \in Places : \A tag : WalkStep(tree, at, tag) \in Places
    BY WalkStepType DEF StepFrom
  <2> HIDE DEF N
  <2> QED
    BY <2>1
<1>4. PICK f : IsLoop(f, N, Places, base, step)
  <2> HIDE DEF step, N, base
  <2> QED
    BY <1>1, <1>2, <1>3, LoopExists
<1>5. f \in [0 .. N -> Places] /\ f[0] = base /\ \A n \in 1 .. N : f[n] = WalkStep(tree, f[n - 1], steps[n])
  <2>1. f \in [0 .. N -> Places] /\ f[0] = base
    BY <1>4 DEF IsLoop
  <2>2. ASSUME NEW n \in 1 .. N PROVE f[n] = WalkStep(tree, f[n - 1], steps[n])
    <3> HIDE DEF N, step, base
    <3>1. n - 1 \in 0 .. N
      BY <1>1
    <3>2. <<f[n - 1], n>> \in Places \X (1 .. N)
      BY <2>1, <3>1
    <3>3. f[n] = step[<<f[n - 1], n>>]
      BY <1>4 DEF IsLoop
    <3> QED
      BY <3>2, <3>3 DEF step
  <2> QED
    BY <2>1, <2>2
<1>6. f = Body(f)
  <2> HIDE DEF base
  <2>1. \A n \in 0 .. N : f[n] = IF n = 0 THEN base ELSE WalkStep(tree, f[n - 1], steps[n])
    BY <1>1, <1>5
  <2> QED
    BY <1>5, <2>1
<1>7. walk = Body(walk)
  <2> HIDE DEF Body
  <2> QED
    BY <1>6, Zenon
<1>8. Walk(tree, steps) = walk
  BY DEF Walk
<1>9. walk[0] = base /\ \A k \in 1 .. N : walk[k] = WalkStep(tree, walk[k - 1], steps[k])
  <2> HIDE DEF walk, base
  <2>1. \A k \in 0 .. N : walk[k] = IF k = 0 THEN base ELSE WalkStep(tree, walk[k - 1], steps[k])
    BY <1>7, Zenon
  <2> QED
    BY <1>1, <2>1
<1> QED
  BY <1>8, <1>9 DEF Walked

\* Each of the first k steps leads to one element.
Lone(r, k) == \A j \in 0 .. k : \E c : r[j] = {c}

\* Where the walk is after j steps.
AtStep(r, w, j) ==
  /\ w[j] \in Places
  /\ \/ w[j].stop = "none" /\ w[j].depth = j /\ Lone(r, j) /\ r[j] = {w[j].node}
     \/ w[j].stop = "ambiguous" /\ \E i \in 1 .. j : \E c, d \in r[i] : c # d
     \/ /\ w[j].stop = "absent" /\ w[j].depth \in 0 .. j - 1 /\ Lone(r, w[j].depth)
        /\ r[w[j].depth] = {w[j].node} /\ r[w[j].depth + 1] = {}

LEMMA WalkFollows ==
  ASSUME NEW tree, IsTree(tree), NEW steps, IsRow(steps), NEW r, Rounds(r, tree, steps),
         NEW w, Walked(w, tree, steps)
  PROVE  \A j \in 0 .. Len(steps) : AtStep(r, w, j)
<1> DEFINE T == {j \in 0 .. Len(steps) : AtStep(r, w, j)}
<1>1. Len(steps) \in Nat
  BY RowIsSeq
<1>2. 0 \in T
  <2>1. w[0] = [node |-> 1, depth |-> 0, stop |-> "none"] /\ r[0] = {1}
    BY DEF Walked, Rounds
  <2>2. w[0] \in Places /\ w[0].stop = "none" /\ w[0].depth = 0 /\ w[0].node = 1
    BY <2>1 DEF Places
  <2>3. Lone(r, 0)
    BY <2>1 DEF Lone
  <2> QED
    BY <1>1, <2>1, <2>2, <2>3 DEF AtStep, StepFrom
<1>3. ASSUME NEW j \in 1 .. Len(steps), j - 1 \in T PROVE j \in T
  <2>0. PICK at, matches : at = w[j - 1] /\ matches = ChildrenNamed(tree, at.node, steps[j])
    OBVIOUS
  <2>1. AtStep(r, w, j - 1) /\ at \in Places
    BY <1>3, <2>0 DEF AtStep
  <2>2. w[j] = WalkStep(tree, at, steps[j]) /\ r[j] = UNION {ChildrenNamed(tree, n, steps[j]) : n \in r[j - 1]}
    BY <2>0 DEF Walked, Rounds
  <2>3. StepFrom(at, matches, w[j])
    BY <2>0, <2>1, <2>2, WalkStepType
  <2>4. CASE at.stop # "none"
    <3>1. w[j] = at
      BY <2>3, <2>4 DEF StepFrom
    <3>2. CASE at.stop = "ambiguous"
      <4>1. \E i \in 1 .. j - 1 : \E c, d \in r[i] : c # d
        BY <2>0, <2>1, <3>2 DEF AtStep
      <4>2. 1 .. j - 1 \subseteq 1 .. j
        BY <1>1
      <4>3. \E i \in 1 .. j : \E c, d \in r[i] : c # d
        BY <4>1, <4>2
      <4> QED
        BY <2>3, <3>1, <3>2, <4>3 DEF AtStep, StepFrom
    <3>3. CASE at.stop = "absent"
      <4>1. /\ at.depth \in 0 .. j - 1 - 1 /\ Lone(r, at.depth)
            /\ r[at.depth] = {at.node} /\ r[at.depth + 1] = {}
        BY <2>0, <2>1, <3>3 DEF AtStep
      <4>2. at.depth \in 0 .. j - 1
        BY <1>1, <4>1
      <4>3. /\ w[j] \in Places /\ w[j].stop = "absent" /\ w[j].depth \in 0 .. j - 1
            /\ Lone(r, w[j].depth) /\ r[w[j].depth] = {w[j].node} /\ r[w[j].depth + 1] = {}
        BY <2>1, <3>1, <3>3, <4>1, <4>2
      <4> QED
        BY <4>3 DEF AtStep
    <3> QED
      BY <2>1, <2>4, <3>2, <3>3 DEF Places
  <2>5. CASE at.stop = "none"
    <3>1. at.depth = j - 1 /\ Lone(r, j - 1) /\ r[j - 1] = {at.node}
      BY <2>0, <2>1, <2>5 DEF AtStep
    <3>2. r[j] = matches
      BY <2>0, <2>2, <3>1
    <3>3. ASSUME matches = {} PROVE AtStep(r, w, j)
      <4>1. w[j].stop = "absent" /\ w[j].depth = j - 1 /\ w[j].node = at.node
        BY <2>3, <2>5, <3>1, <3>3 DEF StepFrom
      <4>2. j - 1 \in 0 .. j - 1 /\ (j - 1) + 1 = j
        BY <1>1
      <4> QED
        BY <2>3, <3>1, <3>2, <3>3, <4>1, <4>2 DEF AtStep, StepFrom
    <3>4. ASSUME \E c, d \in matches : c # d PROVE AtStep(r, w, j)
      <4>1. w[j].stop = "ambiguous" /\ j \in 1 .. j
        BY <2>3, <2>5, <3>4 DEF StepFrom
      <4> QED
        BY <2>3, <3>2, <3>4, <4>1 DEF AtStep, StepFrom
    <3>5. ASSUME NEW c, matches = {c} PROVE AtStep(r, w, j)
      <4>0. w[j] = [node |-> c, depth |-> at.depth + 1, stop |-> "none"]
        BY <2>3, <2>5, <3>5 DEF StepFrom
      <4>1. w[j].stop = "none" /\ w[j].depth = j /\ w[j].node = c
        BY <1>1, <3>1, <4>0
      <4>2. \A i \in 0 .. j : i \in 0 .. j - 1 \/ i = j
        BY <1>1
      <4>3. Lone(r, j)
        BY <3>1, <3>2, <3>5, <4>2 DEF Lone
      <4> QED
        BY <2>3, <3>2, <3>5, <4>1, <4>3 DEF AtStep, StepFrom
    <3>6. matches = {} \/ (\E c : matches = {c}) \/ (\E c, d \in matches : c # d)
      BY NoneOneOrMore
    <3>7. AtStep(r, w, j)
      BY <3>3, <3>4, <3>5, <3>6, Zenon
    <3> QED
      BY <3>7
  <2> QED
    BY <2>4, <2>5
<1> HIDE DEF T
<1>4. \A j \in 0 .. Len(steps) : j \in T
  BY <1>1, <1>2, <1>3, IntervalInduction
<1> QED
  BY <1>4 DEF T

\* The elements a walk passes: each is below the one before, and comes after it.
Chained(c, k, r, tree, steps) ==
  /\ c[0] = 1 /\ \A j \in 0 .. k : r[j] = {c[j]} /\ c[j] \in j + 1 .. Len(tree)
  /\ \A j \in 1 .. k :
       c[j] \in ChildrenNamed(tree, c[j - 1], steps[j]) /\ c[j - 1] < c[j] /\ tree[c[j]].parent = c[j - 1]

LEMMA ChainFacts ==
  ASSUME NEW tree, IsTree(tree), NEW steps, IsRow(steps), NEW r, Rounds(r, tree, steps),
         NEW k \in 0 .. Len(steps), Lone(r, k)
  PROVE  \E c : Chained(c, k, r, tree, steps)
<1> DEFINE c == [j \in 0 .. k |-> CHOOSE e : r[j] = {e}]
           T == {j \in 0 .. k : c[j] \in j + 1 .. Len(tree)}
<1>1. k \in Nat /\ Len(steps) \in Nat /\ k <= Len(steps) /\ Len(tree) \in Nat /\ Len(tree) >= 1
  BY RowIsSeq DEF IsTree
<1>2. \A j \in 0 .. k : r[j] = {c[j]}
  BY DEF Lone
<1> HIDE DEF c
<1>3. c[0] = 1
  <2>1. r[0] = {c[0]} /\ r[0] = {1}
    BY <1>1, <1>2 DEF Rounds
  <2> QED
    BY <2>1
<1>4. \A j \in 1 .. k : c[j] \in ChildrenNamed(tree, c[j - 1], steps[j])
  <2> SUFFICES ASSUME NEW j \in 1 .. k PROVE c[j] \in ChildrenNamed(tree, c[j - 1], steps[j])
    OBVIOUS
  <2>1. j \in 1 .. Len(steps) /\ j \in 0 .. k /\ j - 1 \in 0 .. k
    BY <1>1
  <2>2. r[j] = UNION {ChildrenNamed(tree, n, steps[j]) : n \in r[j - 1]}
    BY <2>1 DEF Rounds
  <2>3. r[j] = {c[j]} /\ r[j - 1] = {c[j - 1]}
    BY <1>2, <2>1
  <2> QED
    BY <2>2, <2>3
<1>5. 0 \in T
  BY <1>1, <1>3
<1>6. ASSUME NEW j \in 1 .. k, j - 1 \in T PROVE j \in T /\ c[j - 1] < c[j]
  <2>1. c[j - 1] \in 1 .. Len(tree) /\ c[j - 1] >= j
    BY <1>1, <1>6
  <2>2. c[j] \in 1 .. Len(tree) /\ c[j - 1] < c[j]
    BY <1>4, <2>1, KidsInTree
  <2> QED
    BY <1>1, <2>1, <2>2
<1> HIDE DEF T
<1>7. \A j \in 0 .. k : j \in T
  BY <1>1, <1>5, <1>6, IntervalInduction
<1>8. \A j \in 1 .. k : c[j - 1] < c[j]
  <2> SUFFICES ASSUME NEW j \in 1 .. k PROVE c[j - 1] < c[j]
    OBVIOUS
  <2>1. j - 1 \in 0 .. k
    BY <1>1
  <2> QED
    BY <1>6, <1>7, <2>1
<1>9. \A j \in 1 .. k : tree[c[j]].parent = c[j - 1]
  BY <1>4 DEF ChildrenNamed
<1>10. \A j \in 0 .. k : c[j] \in j + 1 .. Len(tree)
  BY <1>7 DEF T
<1> QED
  BY <1>2, <1>3, <1>4, <1>8, <1>9, <1>10 DEF Chained

\* Below nothing is nothing.
LEMMA NothingBelow ==
  ASSUME NEW tree, NEW steps, IsRow(steps), NEW r, Rounds(r, tree, steps),
         NEW k \in 0 .. Len(steps), r[k] = {}
  PROVE  \A j \in k .. Len(steps) : r[j] = {}
<1> DEFINE T == {j \in 0 .. Len(steps) - k : r[k + j] = {}}
<1>1. k \in Nat /\ Len(steps) \in Nat /\ k <= Len(steps)
  BY RowIsSeq
<1>2. 0 \in T
  BY <1>1
<1>3. ASSUME NEW j \in 1 .. Len(steps) - k, j - 1 \in T PROVE j \in T
  <2>1. r[k + j - 1] = {} /\ k + j \in 1 .. Len(steps)
    <3>1. k + (j - 1) = k + j - 1
      BY <1>1
    <3> QED
      BY <1>1, <1>3, <3>1
  <2>2. r[k + j] = UNION {ChildrenNamed(tree, n, steps[k + j]) : n \in r[k + j - 1]}
    BY <2>1 DEF Rounds
  <2>3. r[k + j] = {}
    BY <2>1, <2>2
  <2> QED
    BY <1>1, <2>3
<1>4. Len(steps) - k \in Nat
  BY <1>1
<1> HIDE DEF T
<1>5. \A j \in 0 .. Len(steps) - k : j \in T
  BY <1>2, <1>3, <1>4, IntervalInduction
<1> SUFFICES ASSUME NEW j \in k .. Len(steps) PROVE r[j] = {}
  OBVIOUS
<1>6. j - k \in 0 .. Len(steps) - k /\ k + (j - k) = j
  BY <1>1
<1> QED
  BY <1>5, <1>6 DEF T

\* A path as it comes from a finding or from the catalog.
IsPath(path) == path.absolute \in BOOLEAN /\ path.steps \in Seq(Range(path.steps))
Rooted(path) == path.absolute /\ path.steps # <<>>

\* Whether anything may be inserted for a path at all, whatever the walk finds.
Followed(tree, path) ==
  /\ "?" \notin Range(path.steps) /\ StepsBelowRoot(path) # <<>>
  /\ Rooted(path) => Head(path.steps) = tree[1].tag

LEMMA PathSteps ==
  ASSUME NEW path, IsPath(path), path.steps # <<>>
  PROVE  /\ IsRow(StepsBelowRoot(path)) /\ Len(StepsBelowRoot(path)) \in Nat
         /\ StepsBelowRoot(path) = IF Rooted(path) THEN Tail(path.steps) ELSE path.steps
         /\ StepsBelowRoot(path) # <<>> => Len(StepsBelowRoot(path)) >= 1
<1> DEFINE steps == StepsBelowRoot(path)
           S == Range(path.steps)
<1>1. path.steps \in Seq(S)
  BY DEF IsPath
<1>2. steps \in Seq(S)
  <2> HIDE DEF S
  <2> QED
    BY <1>1 DEF StepsBelowRoot
<1> HIDE DEF steps, S
<1>3. Len(steps) \in Nat /\ steps = [i \in 1 .. Len(steps) |-> steps[i]] /\ (steps # <<>> => Len(steps) >= 1)
  BY <1>2
<1>4. IsRow(steps)
  BY <1>3 DEF IsRow
<1>5. steps = IF Rooted(path) THEN Tail(path.steps) ELSE path.steps
  BY DEF steps, StepsBelowRoot, Rooted
<1> QED
  BY <1>3, <1>4, <1>5 DEF steps

LEMMA PointOfWalk ==
  ASSUME NEW tree, NEW path, IsPath(path)
  PROVE  LET steps == StepsBelowRoot(path)
             end == Walk(tree, steps)[Len(steps)]
         IN  /\ InsertionPoint(tree, path) # 0 =>
                  /\ path.steps # <<>> /\ Followed(tree, path) /\ end.stop = "absent" /\ end.depth # 0
                  /\ InsertionPoint(tree, path) = end.node
             /\ path.steps # <<>> /\ end.stop # "absent" => InsertionPoint(tree, path) = 0
             /\ path.steps # <<>> /\ Followed(tree, path) /\ end.stop = "absent" /\ end.depth # 0 =>
                  InsertionPoint(tree, path) = end.node
<1>1. CASE path.steps = <<>>
  <2>1. InsertionPoint(tree, path) = 0
    BY <1>1 DEF InsertionPoint
  <2> QED
    BY <1>1, <2>1
<1>2. CASE path.steps # <<>>
  <2>1. StepsBelowRoot(path) = IF Rooted(path) THEN Tail(path.steps) ELSE path.steps
    BY <1>2, PathSteps
  <2> DEFINE steps == StepsBelowRoot(path)
             end == Walk(tree, steps)[Len(steps)]
  <2>2. InsertionPoint(tree, path) =
          IF \/ "?" \in Range(path.steps) \/ steps = <<>>
             \/ Rooted(path) /\ Head(path.steps) # tree[1].tag
             \/ end.stop # "absent" \/ end.depth = 0
          THEN 0 ELSE end.node
    BY <2>1 DEF InsertionPoint, Rooted
  <2> HIDE DEF steps, end
  <2>3. Followed(tree, path) <=> /\ "?" \notin Range(path.steps) /\ steps # <<>>
                                 /\ Rooted(path) => Head(path.steps) = tree[1].tag
    BY DEF Followed, steps
  <2> QED
    BY <1>2, <2>2, <2>3 DEF steps, end
<1> QED
  BY <1>1, <1>2

\* What an insertion point is, by the sets the steps lead to.
LEMMA PointFacts ==
  ASSUME NEW tree, IsTree(tree), NEW path, IsPath(path), InsertionPoint(tree, path) # 0
  PROVE  LET steps == StepsBelowRoot(path)
             r == Reached(tree, steps)
         IN  /\ path.steps # <<>> /\ Followed(tree, path)
             /\ \E k \in 1 .. Len(steps) - 1 :
                  Lone(r, k) /\ r[k] = {InsertionPoint(tree, path)} /\ r[k + 1] = {}
<1> DEFINE steps == StepsBelowRoot(path)
           r == Reached(tree, steps)
           w == Walk(tree, steps)
           end == w[Len(steps)]
<1>1. /\ path.steps # <<>> /\ Followed(tree, path) /\ end.stop = "absent" /\ end.depth # 0
      /\ InsertionPoint(tree, path) = end.node
  BY PointOfWalk
<1>2. IsRow(steps) /\ Len(steps) \in Nat
  BY <1>1, PathSteps
<1> HIDE DEF steps
<1>3. Rounds(r, tree, steps) /\ Walked(w, tree, steps)
  BY <1>2, ReachedRounds, WalkRounds
<1> HIDE DEF r, w
<1>4. AtStep(r, w, Len(steps))
  <2>1. \A j \in 0 .. Len(steps) : AtStep(r, w, j)
    BY <1>2, <1>3, WalkFollows
  <2> QED
    BY <1>2, <2>1
<1>5. /\ end.depth \in 0 .. Len(steps) - 1 /\ Lone(r, end.depth)
      /\ r[end.depth] = {end.node} /\ r[end.depth + 1] = {}
  BY <1>1, <1>4 DEF AtStep
<1>6. end.depth \in 1 .. Len(steps) - 1
  BY <1>1, <1>2, <1>5
<1> QED
  BY <1>1, <1>5, <1>6 DEF steps, r, w

LEMMA PointFound ==
  ASSUME NEW tree, IsTree(tree), NEW path, IsPath(path), path.steps # <<>>, Followed(tree, path)
  PROVE  LET steps == StepsBelowRoot(path)
             r == Reached(tree, steps)
         IN  /\ Lone(r, Len(steps)) => InsertionPoint(tree, path) = 0
             /\ \A k \in 1 .. Len(steps) - 1 : \A p :
                  Lone(r, k) /\ r[k] = {p} /\ r[k + 1] = {} => InsertionPoint(tree, path) = p
<1> DEFINE steps == StepsBelowRoot(path)
           r == Reached(tree, steps)
           w == Walk(tree, steps)
           end == w[Len(steps)]
           point == InsertionPoint(tree, path)
<1>1. /\ end.stop # "absent" => point = 0
      /\ end.stop = "absent" /\ end.depth # 0 => point = end.node
  BY PointOfWalk
<1>2. IsRow(steps) /\ Len(steps) \in Nat
  BY PathSteps
<1> HIDE DEF steps, point
<1>3. Rounds(r, tree, steps) /\ Walked(w, tree, steps)
  BY <1>2, ReachedRounds, WalkRounds
<1> HIDE DEF r, w
<1>4. AtStep(r, w, Len(steps))
  <2>1. \A j \in 0 .. Len(steps) : AtStep(r, w, j)
    BY <1>2, <1>3, WalkFollows
  <2> QED
    BY <1>2, <2>1
<1>5. ASSUME Lone(r, Len(steps)) PROVE point = 0
  <2>1. end.stop # "absent"
    <3> SUFFICES ASSUME end.stop = "absent" PROVE FALSE
      OBVIOUS
    <3>1. end.depth \in 0 .. Len(steps) - 1 /\ r[end.depth + 1] = {}
      BY <1>4 DEF AtStep
    <3>2. end.depth + 1 \in 0 .. Len(steps)
      BY <1>2, <3>1
    <3> QED
      BY <1>5, <3>1, <3>2 DEF Lone
  <2> QED
    BY <1>1, <2>1
<1>6. ASSUME NEW k \in 1 .. Len(steps) - 1, NEW p, Lone(r, k), r[k] = {p}, r[k + 1] = {}
      PROVE  point = p
  <2>1. k \in Nat /\ k + 1 \in 0 .. Len(steps) /\ k \in 0 .. k
    BY <1>2
  <2>2. \A j \in k + 1 .. Len(steps) : r[j] = {}
    BY <1>2, <1>3, <1>6, <2>1, NothingBelow
  <2>3. end.stop # "none"
    <3> SUFFICES ASSUME end.stop = "none" PROVE FALSE
      OBVIOUS
    <3>1. Lone(r, Len(steps))
      BY <1>4 DEF AtStep
    <3> QED
      BY <1>6, <2>1, <3>1 DEF Lone
  <2>4. end.stop # "ambiguous"
    <3> SUFFICES ASSUME end.stop = "ambiguous" PROVE FALSE
      OBVIOUS
    <3>1. PICK i \in 1 .. Len(steps) : \E c, d \in r[i] : c # d
      BY <1>4 DEF AtStep
    <3>2. i \in 0 .. k \/ i \in k + 1 .. Len(steps)
      BY <1>2, <2>1
    <3> QED
      BY <1>6, <2>2, <3>1, <3>2 DEF Lone
  <2>5. /\ end.stop = "absent" /\ end.depth \in 0 .. Len(steps) - 1 /\ Lone(r, end.depth)
        /\ r[end.depth] = {end.node} /\ r[end.depth + 1] = {}
    BY <1>4, <2>3, <2>4 DEF AtStep
  <2>6. end.depth = k
    <3>1. end.depth <= k
      <4> SUFFICES ASSUME end.depth > k PROVE FALSE
        BY <1>2, <2>1, <2>5
      <4>1. k + 1 \in 0 .. end.depth
        BY <1>2, <2>1, <2>5
      <4> QED
        BY <1>6, <2>5, <4>1 DEF Lone
    <3>2. end.depth >= k
      <4> SUFFICES ASSUME end.depth < k PROVE FALSE
        BY <1>2, <2>1, <2>5
      <4>1. end.depth + 1 \in 0 .. k
        BY <1>2, <2>1, <2>5
      <4> QED
        BY <1>6, <2>5, <4>1 DEF Lone
    <3> QED
      BY <1>2, <2>1, <2>5, <3>1, <3>2
  <2>7. end.node = p /\ end.depth # 0
    BY <1>6, <2>1, <2>5, <2>6
  <2> QED
    BY <1>1, <2>5, <2>7
<1> QED
  BY <1>5, <1>6 DEF steps, r, point

-----------------------------------------------------------------------------
\* How deep an element of a chain is.
LEMMA AscentRounds ==
  ASSUME NEW tree, IsTree(tree), NEW n \in 0 .. Len(tree)
  PROVE  Ascended(Ascent(tree, n), tree, n)
<1> DEFINE N == Len(tree)
           S == 0 .. N
           Up(e) == IF e = 0 THEN 0 ELSE tree[e].parent
           step == [sn \in S \X (1 .. N) |-> Up(sn[1])]
           Body(f) == [k \in 0 .. Len(tree) |-> IF k = 0 THEN n ELSE Up(f[k - 1])]
           up == CHOOSE f : f = Body(f)
<1>1. N \in Nat /\ n \in S
  BY RowIsSeq DEF IsTree
<1>2. \A e \in S : Up(e) \in S
  <2> SUFFICES ASSUME NEW e \in S, e # 0, e # 1 PROVE tree[e].parent \in S
    BY <1>1 DEF IsTree
  <2>1. e \in 2 .. N
    BY <1>1
  <2>2. tree[e].parent \in 1 .. e - 1
    BY <2>1 DEF IsTree
  <2> QED
    BY <1>1, <2>1, <2>2
<1> HIDE DEF Up
<1>3. step \in [S \X (1 .. N) -> S]
  <2> HIDE DEF S, N
  <2> QED
    BY <1>2
<1>4. PICK f : IsLoop(f, N, S, n, step)
  <2> HIDE DEF step, N, S
  <2> QED
    BY <1>1, <1>3, LoopExists
<1>5. f \in [0 .. N -> S] /\ f[0] = n /\ \A k \in 1 .. N : f[k] = Up(f[k - 1])
  <2>1. f \in [0 .. N -> S] /\ f[0] = n
    BY <1>4 DEF IsLoop
  <2>2. ASSUME NEW k \in 1 .. N PROVE f[k] = Up(f[k - 1])
    <3> HIDE DEF N, step, S
    <3>1. k - 1 \in 0 .. N
      BY <1>1
    <3>2. <<f[k - 1], k>> \in S \X (1 .. N)
      BY <2>1, <3>1
    <3>3. f[k] = step[<<f[k - 1], k>>]
      BY <1>4 DEF IsLoop
    <3> QED
      BY <3>2, <3>3 DEF step
  <2> QED
    BY <2>1, <2>2
<1>6. f = Body(f)
  <2> HIDE DEF S
  <2>1. \A k \in 0 .. N : f[k] = IF k = 0 THEN n ELSE Up(f[k - 1])
    BY <1>1, <1>5
  <2> QED
    BY <1>5, <2>1
<1>7. up = Body(up)
  <2> HIDE DEF Body
  <2> QED
    BY <1>6, Zenon
<1>8. Ascent(tree, n) = up
  BY DEF Ascent, Up
<1>9. up[0] = n /\ \A k \in 1 .. N : up[k] = Up(up[k - 1])
  <2> HIDE DEF up
  <2>1. \A k \in 0 .. N : up[k] = IF k = 0 THEN n ELSE Up(up[k - 1])
    BY <1>7, Zenon
  <2> QED
    BY <1>1, <2>1
<1> QED
  BY <1>8, <1>9 DEF Ascended, Up

LEMMA DepthOfChain ==
  ASSUME NEW tree, IsTree(tree), NEW steps, IsRow(steps), NEW r, NEW k \in 0 .. Len(steps),
         NEW c, Chained(c, k, r, tree, steps)
  PROVE  DepthOf(tree, c[k]) = k
<1> DEFINE u == Ascent(tree, c[k])
           N == Len(tree)
           T == {i \in 0 .. k : u[i] = c[k - i]}
<1>1. k \in Nat /\ N \in Nat /\ Len(steps) \in Nat
  BY RowIsSeq DEF IsTree
<1>2. \A j \in 0 .. k : c[j] \in j + 1 .. N
  BY DEF Chained
<1>3. c[k] \in 1 .. N /\ k + 1 <= N
  BY <1>1, <1>2
<1>4. u[0] = c[k] /\ \A i \in 1 .. N : u[i] = IF u[i - 1] = 0 THEN 0 ELSE tree[u[i - 1]].parent
  <2>1. Ascended(u, tree, c[k])
    BY <1>1, <1>3, AscentRounds
  <2> QED
    BY <2>1 DEF Ascended
<1> HIDE DEF u
<1>5. 0 \in T
  BY <1>1, <1>4
<1>6. ASSUME NEW i \in 1 .. k, i - 1 \in T PROVE i \in T
  <2>1. u[i - 1] = c[k - (i - 1)]
    BY <1>6
  <2>2. k - (i - 1) = (k - i) + 1 /\ (k - i) + 1 \in 1 .. k /\ k - i \in 0 .. k /\ i \in 1 .. N
        /\ ((k - i) + 1) - 1 = k - i
    BY <1>1, <1>3
  <2>3. c[(k - i) + 1] # 0
    BY <1>1, <1>2, <2>2
  <2>4. tree[c[(k - i) + 1]].parent = c[k - i]
    BY <2>2 DEF Chained
  <2>5. u[i] = c[k - i]
    BY <1>4, <2>1, <2>2, <2>3, <2>4
  <2> QED
    BY <1>1, <2>5
<1> HIDE DEF T
<1>7. \A i \in 0 .. k : i \in T
  BY <1>1, <1>5, <1>6, IntervalInduction
<1>8. \A i \in 0 .. k : u[i] = c[k - i] /\ u[i] # 0
  <2> SUFFICES ASSUME NEW i \in 0 .. k PROVE u[i] = c[k - i] /\ u[i] # 0
    OBVIOUS
  <2>1. u[i] = c[k - i]
    BY <1>7 DEF T
  <2>2. k - i \in 0 .. k
    BY <1>1
  <2>3. c[k - i] \in k - i + 1 .. N
    BY <1>2, <2>2
  <2> QED
    BY <1>1, <2>1, <2>2, <2>3
<1>9. u[k + 1] = 0
  <2>1. u[k] = c[0] /\ c[0] = 1
    <3>1. k \in 0 .. k /\ k - k = 0
      BY <1>1
    <3> QED
      BY <1>8, <3>1 DEF Chained
  <2>2. k + 1 \in 1 .. N /\ (k + 1) - 1 = k
    BY <1>1, <1>3
  <2> QED
    BY <1>4, <2>1, <2>2 DEF IsTree
<1>10. \A i \in k + 1 .. N : u[i] = 0
  <2> DEFINE Z == {i \in 0 .. N - (k + 1) : u[k + 1 + i] = 0}
  <2>1. N - (k + 1) \in Nat
    BY <1>1, <1>3
  <2>2. 0 \in Z
    BY <1>1, <1>9, <2>1
  <2>3. ASSUME NEW i \in 1 .. N - (k + 1), i - 1 \in Z PROVE i \in Z
    <3>1. u[k + 1 + (i - 1)] = 0
      BY <2>3
    <3>2. k + 1 + i \in 1 .. N /\ k + 1 + (i - 1) = (k + 1 + i) - 1
      BY <1>1, <1>3
    <3>3. u[k + 1 + i] = 0
      BY <1>4, <3>1, <3>2
    <3> QED
      BY <1>1, <3>3
  <2> HIDE DEF Z
  <2>4. \A i \in 0 .. N - (k + 1) : i \in Z
    BY <2>1, <2>2, <2>3, IntervalInduction
  <2> SUFFICES ASSUME NEW i \in k + 1 .. N PROVE u[i] = 0
    OBVIOUS
  <2>5. i - (k + 1) \in 0 .. N - (k + 1) /\ k + 1 + (i - (k + 1)) = i
    BY <1>1
  <2> QED
    BY <2>4, <2>5 DEF Z
<1> DEFINE D == {i \in 0 .. N : u[i] # 0}
<1>11. D = 0 .. k
  <2>1. \A i \in 0 .. N : i \in 0 .. k \/ i \in k + 1 .. N
    BY <1>1
  <2>2. 0 .. k \subseteq 0 .. N
    BY <1>1, <1>3
  <2> QED
    BY <1>8, <1>10, <2>1, <2>2
<1>12. Cardinality(0 .. k) = k + 1
  <2>1. 0 \in Int /\ k \in Int /\ 0 <= k
    BY <1>1
  <2>2. Cardinality(0 .. k) = k - 0 + 1
    BY <2>1, FS_Interval
  <2> QED
    BY <1>1, <2>2
<1>13. DepthOf(tree, c[k]) = Cardinality(D) - 1
  BY DEF DepthOf, u
<1> HIDE DEF D
<1> QED
  BY <1>1, <1>11, <1>12, <1>13

\* The tree with one more element, the last one, below at.
Extends(new, tree, at, tag) ==
  /\ IsTree(tree) /\ IsTree(new) /\ at \in 1 .. Len(tree) /\ Len(new) = Len(tree) + 1
  /\ \A i \in 1 .. Len(tree) : new[i].parent = tree[i].parent /\ new[i].tag = tree[i].tag
  /\ new[Len(new)].parent = at /\ new[Len(new)].tag = tag

LEMMA ExtendedKids ==
  ASSUME NEW tree, NEW new, NEW at, NEW tag, Extends(new, tree, at, tag)
  PROVE  /\ \A n, t : n # at => ChildrenNamed(new, n, t) = ChildrenNamed(tree, n, t)
         /\ ChildrenNamed(new, at, tag) = ChildrenNamed(tree, at, tag) \cup {Len(new)}
         /\ \A t : ChildrenNamed(new, Len(new), t) = {}
<1>1. /\ Len(tree) \in Nat /\ DOMAIN tree = 1 .. Len(tree)
      /\ Len(new) = Len(tree) + 1 /\ DOMAIN new = 1 .. Len(new)
  BY RowIsSeq DEF Extends, IsTree
<1>2. \A i : i \in DOMAIN new <=> i \in DOMAIN tree \/ i = Len(new)
  BY <1>1
<1>3. ASSUME NEW n, NEW t, n # at PROVE ChildrenNamed(new, n, t) = ChildrenNamed(tree, n, t)
  BY <1>1, <1>2, <1>3 DEF ChildrenNamed, Extends
<1>4. ChildrenNamed(new, at, tag) = ChildrenNamed(tree, at, tag) \cup {Len(new)}
  BY <1>1, <1>2 DEF ChildrenNamed, Extends
<1>5. ASSUME NEW t PROVE ChildrenNamed(new, Len(new), t) = {}
  <2>1. ASSUME NEW i \in ChildrenNamed(new, Len(new), t) PROVE FALSE
    <3>1. i \in 1 .. Len(new) /\ IsTree(new)
      BY <1>1, <2>1 DEF ChildrenNamed, Extends
    <3>2. Len(new) \in 1 .. Len(new)
      BY <1>1
    <3>3. Len(new) < i
      BY <2>1, <3>1, <3>2, KidsInTree
    <3> QED
      BY <1>1, <3>1, <3>3
  <2> QED
    BY <2>1
<1> QED
  BY <1>3, <1>4, <1>5

\* What one more element at an insertion point does to the sets the steps lead to: one
\* element more of the path is there, and nothing below it.
LEMMA Grown ==
  ASSUME NEW tree, NEW new, NEW steps, IsRow(steps), NEW k \in 1 .. Len(steps) - 1, NEW at,
         Extends(new, tree, at, steps[k + 1]),
         Lone(Reached(tree, steps), k), Reached(tree, steps)[k] = {at}, Reached(tree, steps)[k + 1] = {}
  PROVE  LET q == Reached(new, steps) IN
         /\ Lone(q, k + 1) /\ q[k + 1] = {Len(new)}
         /\ \A j \in k + 2 .. Len(steps) : q[j] = {}
<1> DEFINE r == Reached(tree, steps)
           q == Reached(new, steps)
           T == {j \in 0 .. k : q[j] = r[j]}
<1>1. /\ IsTree(tree) /\ IsTree(new) /\ Len(tree) \in Nat /\ Len(steps) \in Nat /\ k \in Nat
      /\ k + 1 <= Len(steps) /\ Len(new) = Len(tree) + 1
  BY RowIsSeq DEF Extends, IsTree
<1>2. Rounds(r, tree, steps) /\ Rounds(q, new, steps)
  BY <1>1, ReachedRounds
<1>3. Lone(r, k) /\ r[k] = {at} /\ r[k + 1] = {}
  OBVIOUS
<1> HIDE DEF r, q
<1>4. PICK c : Chained(c, k, r, tree, steps)
  <2>1. k \in 0 .. Len(steps)
    BY <1>1
  <2> QED
    BY <1>1, <1>2, <1>3, <2>1, ChainFacts
<1>5. \A j \in 0 .. k : r[j] = {c[j]}
  BY <1>4 DEF Chained
<1>6. c[k] = at
  <2>1. r[k] = {c[k]}
    BY <1>1, <1>5
  <2> QED
    BY <1>3, <2>1
<1>7. \A j \in 0 .. k - 1 : c[j] < at
  <2> DEFINE Z == {j \in 0 .. k - 1 : c[k - 1 - j] < at}
  <2>1. \A j \in 1 .. k : c[j - 1] < c[j] /\ c[j - 1] \in Nat /\ c[j] \in Nat
    <3> SUFFICES ASSUME NEW j \in 1 .. k PROVE c[j - 1] < c[j] /\ c[j - 1] \in Nat /\ c[j] \in Nat
      OBVIOUS
    <3>1. j - 1 \in 0 .. k /\ j \in 0 .. k
      BY <1>1
    <3>2. c[j - 1] \in j - 1 + 1 .. Len(tree) /\ c[j] \in j + 1 .. Len(tree) /\ c[j - 1] < c[j]
      BY <1>4, <3>1 DEF Chained
    <3> QED
      BY <1>1, <3>2
  <2>2. 0 \in Z
    <3>1. k \in 1 .. k /\ k - 1 - 0 = k - 1 /\ 0 \in 0 .. k - 1
      BY <1>1
    <3>2. c[k - 1] < c[k]
      BY <2>1, <3>1
    <3> QED
      BY <1>6, <3>1, <3>2
  <2>3. ASSUME NEW j \in 1 .. k - 1, j - 1 \in Z PROVE j \in Z
    <3>1. c[k - 1 - (j - 1)] < at
      BY <2>3
    <3>2. k - j \in 1 .. k /\ k - 1 - (j - 1) = k - j /\ k - 1 - j = (k - j) - 1 /\ j \in 0 .. k - 1
      BY <1>1
    <3>3. c[(k - j) - 1] < c[k - j] /\ c[(k - j) - 1] \in Nat /\ c[k - j] \in Nat
      BY <2>1, <3>2
    <3>4. c[k - j] < at /\ at \in Nat
      <4>1. at \in Nat
        BY <1>1 DEF Extends
      <4> QED
        BY <3>1, <3>2, <4>1
    <3>5. c[k - 1 - j] < at
      BY <3>2, <3>3, <3>4
    <3> QED
      BY <3>2, <3>5
  <2>4. k - 1 \in Nat
    BY <1>1
  <2> HIDE DEF Z
  <2>5. \A j \in 0 .. k - 1 : j \in Z
    BY <2>2, <2>3, <2>4, IntervalInduction
  <2> SUFFICES ASSUME NEW j \in 0 .. k - 1 PROVE c[j] < at
    OBVIOUS
  <2>6. k - 1 - j \in 0 .. k - 1 /\ k - 1 - (k - 1 - j) = j
    BY <1>1
  <2> QED
    BY <2>5, <2>6 DEF Z
<1>8. 0 \in T
  <2>1. q[0] = {1} /\ r[0] = {1}
    BY <1>2, Zenon DEF Rounds
  <2>2. 0 \in 0 .. k /\ q[0] = r[0]
    BY <1>1, <2>1
  <2> QED
    BY <2>2, Zenon
<1>9. ASSUME NEW j \in 1 .. k, j - 1 \in T PROVE j \in T
  <2>1. j \in 1 .. Len(steps) /\ j - 1 \in 0 .. k - 1 /\ j - 1 \in 0 .. k
    BY <1>1
  <2>2. q[j - 1] = {c[j - 1]} /\ r[j - 1] = {c[j - 1]}
    BY <1>5, <1>9, <2>1
  <2>3. c[j - 1] # at
    <3>1. c[j - 1] < at /\ at \in Nat
      BY <1>1, <1>7, <2>1 DEF Extends
    <3> QED
      BY <3>1
  <2>4. ChildrenNamed(new, c[j - 1], steps[j]) = ChildrenNamed(tree, c[j - 1], steps[j])
    BY <2>3, ExtendedKids
  <2>5. /\ q[j] = UNION {ChildrenNamed(new, n, steps[j]) : n \in q[j - 1]}
        /\ r[j] = UNION {ChildrenNamed(tree, n, steps[j]) : n \in r[j - 1]}
    BY <1>2, <2>1 DEF Rounds
  <2>6. q[j] = r[j]
    BY <2>2, <2>4, <2>5
  <2> QED
    BY <2>6
<1> HIDE DEF T
<1>10. \A j \in 0 .. k : j \in T
  BY <1>1, <1>8, <1>9, IntervalInduction
<1>11. \A j \in 0 .. k : q[j] = r[j]
  BY <1>10 DEF T
<1>12. q[k + 1] = {Len(new)}
  <2>1. k \in 0 .. k /\ k + 1 \in 1 .. Len(steps) /\ (k + 1) - 1 = k
    BY <1>1
  <2>2. q[k] = {at} /\ r[k] = {at}
    BY <1>3, <1>11, <2>1
  <2>3. /\ q[k + 1] = UNION {ChildrenNamed(new, n, steps[k + 1]) : n \in q[k]}
        /\ r[k + 1] = UNION {ChildrenNamed(tree, n, steps[k + 1]) : n \in r[k]}
    BY <1>2, <2>1 DEF Rounds
  <2>4. ChildrenNamed(new, at, steps[k + 1]) = ChildrenNamed(tree, at, steps[k + 1]) \cup {Len(new)}
    BY ExtendedKids
  <2>5. ChildrenNamed(tree, at, steps[k + 1]) = {}
    BY <1>3, <2>2, <2>3
  <2> QED
    BY <2>2, <2>3, <2>4, <2>5
<1>13. Lone(q, k + 1)
  <2> SUFFICES ASSUME NEW j \in 0 .. k + 1 PROVE \E e : q[j] = {e}
    BY DEF Lone
  <2>1. j \in 0 .. k \/ j = k + 1
    BY <1>1
  <2> QED
    BY <1>5, <1>11, <1>12, <2>1
<1>14. \A j \in k + 2 .. Len(steps) : q[j] = {}
  <2> SUFFICES ASSUME NEW j \in k + 2 .. Len(steps) PROVE q[j] = {}
    OBVIOUS
  <2>1. k + 2 \in 1 .. Len(steps) /\ k + 2 \in 0 .. Len(steps) /\ (k + 2) - 1 = k + 1
    BY <1>1
  <2>2. q[k + 2] = UNION {ChildrenNamed(new, n, steps[k + 2]) : n \in q[k + 1]}
    BY <1>2, <2>1 DEF Rounds
  <2>3. ChildrenNamed(new, Len(new), steps[k + 2]) = {}
    BY ExtendedKids
  <2>4. q[k + 2] = {}
    BY <1>12, <2>2, <2>3
  <2>5. \A i \in k + 2 .. Len(steps) : q[i] = {}
    BY <1>2, <2>1, <2>4, NothingBelow
  <2> QED
    BY <2>5
<1> QED
  BY <1>12, <1>13, <1>14 DEF q

\* Who inserts at the point is led on to the new element, or is done.
LeadsOn(tree, path, new) ==
  LET steps == StepsBelowRoot(path)
      whole == Reached(tree, steps)[Len(steps)]
  IN IF whole = {} THEN InsertionPoint(tree, path) = new
     ELSE InsertionPoint(tree, path) = 0 /\ whole = {new}

LEMMA InsertedLeadsOn ==
  ASSUME NEW tree, IsTree(tree), NEW path, IsPath(path), InsertionPoint(tree, path) # 0, NEW new,
         Extends(new, tree, InsertionPoint(tree, path),
                 StepsBelowRoot(path)[DepthOf(tree, InsertionPoint(tree, path)) + 1])
  PROVE  LeadsOn(new, path, Len(new))
<1> DEFINE steps == StepsBelowRoot(path)
           r == Reached(tree, steps)
           q == Reached(new, steps)
           at == InsertionPoint(tree, path)
<1>1. path.steps # <<>> /\ Followed(tree, path)
  BY PointFacts
<1>2. PICK k \in 1 .. Len(steps) - 1 : Lone(r, k) /\ r[k] = {at} /\ r[k + 1] = {}
  BY PointFacts
<1>3. IsRow(steps) /\ Len(steps) \in Nat
  BY <1>1, PathSteps
<1>4. DepthOf(tree, at) = k
  <2> HIDE DEF steps, at
  <2>1. Rounds(r, tree, steps) /\ k \in 0 .. Len(steps) /\ k \in 0 .. k
    BY <1>3, ReachedRounds
  <2> HIDE DEF r
  <2>2. PICK c : Chained(c, k, r, tree, steps)
    BY <1>2, <1>3, <2>1, ChainFacts
  <2>3. c[k] = at
    BY <1>2, <2>1, <2>2 DEF Chained
  <2> QED
    BY <1>3, <2>1, <2>2, <2>3, DepthOfChain
<1>5. Extends(new, tree, at, steps[k + 1])
  BY <1>4
<1>6. Followed(new, path)
  <2>1. new[1].tag = tree[1].tag
    <3>1. 1 \in 1 .. Len(tree)
      BY RowIsSeq DEF IsTree
    <3> QED
      BY <3>1 DEF Extends
  <2> QED
    BY <1>1, <2>1 DEF Followed
<1> HIDE DEF at
<1>7. Lone(q, k + 1) /\ q[k + 1] = {Len(new)} /\ \A j \in k + 2 .. Len(steps) : q[j] = {}
  <2> HIDE DEF steps
  <2> QED
    BY <1>2, <1>3, <1>5, Grown, ZenonT(40)
<1>8. IsTree(new)
  BY DEF Extends
<1>9. /\ Lone(q, Len(steps)) => InsertionPoint(new, path) = 0
      /\ \A j \in 1 .. Len(steps) - 1 : \A p :
           Lone(q, j) /\ q[j] = {p} /\ q[j + 1] = {} => InsertionPoint(new, path) = p
  BY <1>1, <1>6, <1>8, PointFound
<1> HIDE DEF q, steps
<1>10. CASE k + 1 = Len(steps)
  <2>1. q[Len(steps)] = {Len(new)} /\ InsertionPoint(new, path) = 0
    BY <1>7, <1>9, <1>10
  <2> QED
    BY <2>1 DEF LeadsOn, q, steps
<1>11. CASE k + 1 # Len(steps)
  <2>1. /\ k + 1 \in 1 .. Len(steps) - 1 /\ Len(steps) \in k + 2 .. Len(steps)
        /\ k + 2 \in k + 2 .. Len(steps) /\ (k + 1) + 1 = k + 2
    BY <1>3, <1>11
  <2>2. q[Len(steps)] = {} /\ q[(k + 1) + 1] = {}
    BY <1>7, <2>1
  <2>3. InsertionPoint(new, path) = Len(new)
    BY <1>7, <1>9, <2>1, <2>2
  <2> QED
    BY <2>2, <2>3 DEF LeadsOn, q, steps
<1> QED
  BY <1>10, <1>11

-----------------------------------------------------------------------------
\* The second inductive invariant: what was built so far is a tree, the open elements are
\* in it, and whoever inserted last was led on.
IsElement(e) == e = [tag |-> e.tag, parent |-> e.parent, line |-> e.line]
TreeInv ==
  /\ IsRow(nodes) /\ IsRow(stack) /\ IsRow(inserted)
  /\ \A i \in 1 .. Len(nodes) : IsElement(nodes[i])
  /\ \A i \in 1 .. Len(stack) : stack[i] \in 1 .. Len(nodes)
  /\ nodes # <<>> => IsTree(nodes)
  /\ status = "built" => nodes # <<>>
  /\ inserted # <<>> =>
       /\ status = "built"
       /\ LeadsOn(nodes, inserted[Len(inserted)][1], inserted[Len(inserted)][2])

LEMMA RowLength ==
  ASSUME NEW s, IsRow(s)
  PROVE  Len(s) \in Nat /\ (s = <<>> <=> Len(s) = 0)
<1> DEFINE S == {s[i] : i \in 1 .. Len(s)}
<1>1. s \in Seq(S) /\ Len(s) \in Nat
  BY RowIsSeq
<1> HIDE DEF S
<1> QED
  BY <1>1

LEMMA TreeAppend ==
  ASSUME NEW tree, IsTree(tree), NEW e, e.parent \in 1 .. Len(tree)
  PROVE  IsTree(Append(tree, e))
<1>1. /\ IsRow(Append(tree, e)) /\ Len(Append(tree, e)) = Len(tree) + 1 /\ Len(tree) \in Nat
      /\ \A i \in 1 .. Len(tree) : Append(tree, e)[i] = tree[i]
      /\ Append(tree, e)[Len(tree) + 1] = e
  BY RowAppend DEF IsTree, IsRow
<1> DEFINE new == Append(tree, e)
<1>2. Len(tree) >= 1 /\ tree[1].parent = 0
  BY DEF IsTree
<1> HIDE DEF new
<1>3. new[1].parent = 0 /\ Len(new) >= 1
  BY <1>1, <1>2 DEF new
<1>4. ASSUME NEW i \in 2 .. Len(new) PROVE new[i].parent \in 1 .. i - 1
  <2>1. CASE i = Len(tree) + 1
    BY <1>1, <2>1 DEF new
  <2>2. CASE i # Len(tree) + 1
    <3>1. i \in 2 .. Len(tree) /\ i \in 1 .. Len(tree)
      BY <1>1, <2>2 DEF new
    <3>2. tree[i].parent \in 1 .. i - 1
      BY <3>1 DEF IsTree
    <3> QED
      BY <1>1, <3>1, <3>2 DEF new
  <2> QED
    BY <2>1, <2>2
<1>5. IsRow(new)
  BY <1>1 DEF new
<1> QED
  BY <1>3, <1>4, <1>5 DEF IsTree, new

\* One more start tag: the first one is the root's, the others lie in an open element.
LEMMA TreeStart ==
  ASSUME TreeInv, NEW e, IsElement(e), nodes = <<>> \/ stack # <<>>,
         e.parent = IF stack = <<>> THEN 0 ELSE stack[Len(stack)]
  PROVE  /\ IsRow(Append(nodes, e)) /\ IsTree(Append(nodes, e)) /\ Append(nodes, e) # <<>>
         /\ Len(Append(nodes, e)) = Len(nodes) + 1
         /\ \A i \in 1 .. Len(nodes) + 1 : IsElement(Append(nodes, e)[i])
<1>1. /\ IsRow(nodes) /\ IsRow(stack) /\ Len(nodes) \in Nat /\ Len(stack) \in Nat
      /\ (nodes = <<>> <=> Len(nodes) = 0) /\ (stack = <<>> <=> Len(stack) = 0)
  BY RowLength DEF TreeInv
<1>2. /\ IsRow(Append(nodes, e)) /\ Len(Append(nodes, e)) = Len(nodes) + 1 /\ Append(nodes, e) # <<>>
      /\ \A i \in 1 .. Len(nodes) : Append(nodes, e)[i] = nodes[i]
      /\ Append(nodes, e)[Len(nodes) + 1] = e
  BY <1>1, RowAppend
<1>3. \A i \in 1 .. Len(nodes) + 1 : IsElement(Append(nodes, e)[i])
  <2> SUFFICES ASSUME NEW i \in 1 .. Len(nodes) + 1 PROVE IsElement(Append(nodes, e)[i])
    OBVIOUS
  <2>1. i \in 1 .. Len(nodes) \/ i = Len(nodes) + 1
    BY <1>1
  <2>2. \A j \in 1 .. Len(nodes) : IsElement(nodes[j])
    BY DEF TreeInv
  <2> QED
    BY <1>2, <2>1, <2>2
<1>4. CASE nodes = <<>>
  <2>1. stack = <<>>
    <3> SUFFICES ASSUME stack # <<>> PROVE FALSE
      OBVIOUS
    <3>1. 1 \in 1 .. Len(stack)
      BY <1>1
    <3>2. stack[1] \in 1 .. Len(nodes)
      BY <3>1 DEF TreeInv
    <3> QED
      BY <1>1, <1>4, <3>2
  <2>2. Len(nodes) = 0
    BY <1>1, <1>4
  <2> DEFINE new == Append(nodes, e)
  <2>3. new[1] = e /\ Len(new) = 1 /\ IsRow(new)
    BY <1>2, <2>2
  <2> HIDE DEF new
  <2>4. e.parent = 0 /\ 2 .. 1 = {}
    BY <2>1
  <2>5. IsTree(new)
    BY <2>3, <2>4 DEF IsTree
  <2> QED
    BY <1>2, <1>3, <2>5 DEF new
<1>5. CASE nodes # <<>>
  <2>1. Len(stack) \in 1 .. Len(stack) /\ stack # <<>>
    BY <1>1, <1>5
  <2>2. stack[Len(stack)] \in 1 .. Len(nodes)
    BY <2>1 DEF TreeInv
  <2>3. IsTree(nodes) /\ e.parent \in 1 .. Len(nodes)
    BY <1>5, <2>1, <2>2 DEF TreeInv
  <2> QED
    BY <1>2, <1>3, <2>3, TreeAppend
<1> QED
  BY <1>4, <1>5

\* The tree after an insertion, its lines below the new one moved down.
LEMMA TreeInsert ==
  ASSUME TreeInv, nodes # <<>>, NEW at \in 1 .. Len(nodes), NEW tag, NEW where,
         nodes' = Append([i \in DOMAIN nodes |->
                            IF nodes[i].line > nodes[at].line THEN [nodes[i] EXCEPT !.line = @ + 1]
                            ELSE nodes[i]],
                         [tag |-> tag, parent |-> at, line |-> where])
  PROVE  /\ Extends(nodes', nodes, at, tag) /\ Len(nodes') = Len(nodes) + 1
         /\ IsRow(nodes') /\ nodes' # <<>>
         /\ \A i \in 1 .. Len(nodes') : IsElement(nodes'[i])
<1> DEFINE N == Len(nodes)
           Moved(e) == IF e.line > nodes[at].line THEN [e EXCEPT !.line = @ + 1] ELSE e
           moved == [i \in 1 .. N |-> Moved(nodes[i])]
           last == [tag |-> tag, parent |-> at, line |-> where]
<1>1. /\ IsTree(nodes) /\ N \in Nat /\ N >= 1 /\ DOMAIN nodes = 1 .. N
      /\ \A i \in 1 .. N : IsElement(nodes[i])
  BY RowIsSeq DEF TreeInv, IsTree
<1>2. nodes' = Append(moved, last)
  BY <1>1
<1>3. \A e : IsElement(e) => /\ IsElement(Moved(e)) /\ Moved(e).parent = e.parent /\ Moved(e).tag = e.tag
  <2> SUFFICES ASSUME NEW e, NEW t, NEW p, NEW l, e = [tag |-> t, parent |-> p, line |-> l]
               PROVE  IsElement(Moved(e)) /\ Moved(e).parent = p /\ Moved(e).tag = t
    BY DEF IsElement
  <2>1. CASE e.line > nodes[at].line
    <3>1. Moved(e) = [tag |-> t, parent |-> p, line |-> l + 1]
      BY <2>1
    <3> HIDE DEF Moved
    <3> QED
      BY <3>1 DEF IsElement
  <2>2. CASE ~(e.line > nodes[at].line)
    <3>1. Moved(e) = [tag |-> t, parent |-> p, line |-> l]
      BY <2>2
    <3> HIDE DEF Moved
    <3> QED
      BY <3>1 DEF IsElement
  <2> QED
    BY <2>1, <2>2
<1> HIDE DEF Moved
<1>4. /\ IsRow(moved) /\ Len(moved) = N
      /\ \A i \in 1 .. N : IsElement(moved[i]) /\ moved[i].parent = nodes[i].parent /\ moved[i].tag = nodes[i].tag
  <2>1. moved = [i \in 1 .. N |-> moved[i]]
    OBVIOUS
  <2>2. \A i \in 1 .. N : moved[i] = Moved(nodes[i])
    OBVIOUS
  <2> HIDE DEF moved
  <2>3. IsRow(moved) /\ Len(moved) = N
    BY <1>1, <2>1, RowFrom
  <2> QED
    BY <1>1, <1>3, <2>2, <2>3
<1> HIDE DEF moved
<1>5. IsTree(moved)
  <2>1. moved[1].parent = nodes[1].parent
    BY <1>1, <1>4
  <2>2. ASSUME NEW i \in 2 .. N PROVE moved[i].parent \in 1 .. i - 1
    <3>1. i \in 1 .. N /\ nodes[i].parent \in 1 .. i - 1
      BY <1>1 DEF IsTree
    <3> QED
      BY <1>4, <3>1
  <2> QED
    BY <1>1, <1>4, <2>1, <2>2 DEF IsTree
<1>6. last.parent = at /\ last.tag = tag /\ IsElement(last)
  BY DEF IsElement
<1> HIDE DEF last
<1>7. IsTree(Append(moved, last))
  BY <1>4, <1>5, <1>6, TreeAppend
<1>8. /\ IsRow(nodes') /\ Len(nodes') = N + 1 /\ nodes' # <<>> /\ IsTree(nodes')
      /\ \A i \in 1 .. N : nodes'[i] = moved[i]
      /\ nodes'[N + 1] = last
  <2> DEFINE new == Append(moved, last)
  <2>1. /\ IsRow(new) /\ Len(new) = Len(moved) + 1 /\ new # <<>>
        /\ \A i \in 1 .. Len(moved) : new[i] = moved[i]
        /\ new[Len(moved) + 1] = last
    BY <1>4, RowAppend
  <2>2. IsTree(new) /\ nodes' = new
    BY <1>2, <1>7
  <2> HIDE DEF new
  <2> QED
    BY <1>4, <2>1, <2>2
<1>9. \A i \in 1 .. N + 1 : IsElement(nodes'[i])
  <2> SUFFICES ASSUME NEW i \in 1 .. N + 1 PROVE IsElement(nodes'[i])
    OBVIOUS
  <2>1. i \in 1 .. N \/ i = N + 1
    BY <1>1
  <2> QED
    BY <1>4, <1>6, <1>8, <2>1
<1>10. Extends(nodes', nodes, at, tag)
  BY <1>1, <1>4, <1>6, <1>8 DEF Extends
<1> QED
  BY <1>8, <1>9, <1>10

LEMMA TreeBegins ==
  ASSUME XmlInit
  PROVE  TreeInv
<1>1. IsRow(<<>>) /\ Len(<<>>) = 0
  BY DEF IsRow
<1> QED
  <2>1. nodes = <<>> /\ stack = <<>> /\ inserted = <<>> /\ status = "feeding"
    BY DEF XmlInit
  <2>2. 1 .. Len(<<>>) = {}
    BY <1>1
  <2> QED
    BY <1>1, <2>1, <2>2 DEF TreeInv

LEMMA TreeStep ==
  ASSUME PathAssumption, TreeInv, [XmlNext]_xmlVars
  PROVE  TreeInv'
<1>1. /\ IsRow(nodes) /\ IsRow(stack) /\ IsRow(inserted)
      /\ (nodes = <<>> <=> Len(nodes) = 0) /\ (stack = <<>> <=> Len(stack) = 0)
      /\ Len(nodes) \in Nat /\ Len(stack) \in Nat /\ Len(inserted) \in Nat
  BY RowLength DEF TreeInv
<1>2. CASE TooLarge \/ ForbidDtd \/ NewLine
  <2>1. /\ status = "feeding" /\ status' # "built" /\ UNCHANGED <<nodes, stack, inserted>>
    BY <1>2 DEF TooLarge, ForbidDtd, NewLine, Feeding, Refuse
  <2>2. inserted = <<>>
    BY <2>1 DEF TreeInv
  <2> QED
    BY <2>1, <2>2 DEF TreeInv
<1>3. CASE End
  <2>1. /\ status = "feeding" /\ stack # <<>> /\ stack' = Front(stack) /\ UNCHANGED <<nodes, status, inserted>>
    BY <1>3 DEF End, Feeding
  <2>2. inserted = <<>>
    BY <2>1 DEF TreeInv
  <2>3. IsRow(stack') /\ Len(stack') = Len(stack) - 1
    BY <1>1, <2>1, RowFront
  <2>4. \A i \in 1 .. Len(stack') : stack'[i] \in 1 .. Len(nodes)
    <3> SUFFICES ASSUME NEW i \in 1 .. Len(stack') PROVE stack'[i] \in 1 .. Len(nodes)
      OBVIOUS
    <3>1. i \in 1 .. Len(stack) - 1 /\ i \in 1 .. Len(stack)
      BY <1>1, <2>3
    <3>2. stack'[i] = stack[i]
      BY <1>1, <2>1, <3>1 DEF Front
    <3> QED
      BY <3>1, <3>2 DEF TreeInv
  <2> QED
    BY <2>1, <2>2, <2>3, <2>4 DEF TreeInv
<1>4. CASE Close
  <2>1. /\ status = "feeding" /\ UNCHANGED <<nodes, stack, inserted>>
        /\ status' = "built" => nodes # <<>>
    BY <1>4 DEF Close, Refuse
  <2>2. inserted = <<>>
    BY <2>1 DEF TreeInv
  <2> QED
    BY <2>1, <2>2 DEF TreeInv
<1>5. ASSUME NEW tag, Start(tag) PROVE TreeInv'
  <2> DEFINE e == [tag |-> tag, parent |-> IF stack = <<>> THEN 0 ELSE Last(stack), line |-> line]
  <2>1. status = "feeding" /\ (nodes = <<>> \/ stack # <<>>) /\ UNCHANGED inserted
    BY <1>5 DEF Start, Feeding
  <2>2. inserted = <<>>
    BY <2>1 DEF TreeInv
  <2>3. \/ status' = "refused" /\ UNCHANGED <<nodes, stack>>
        \/ nodes' = Append(nodes, e) /\ stack' = Append(stack, Len(nodes) + 1) /\ UNCHANGED status
    BY <1>5 DEF Start, Refuse
  <2>4. CASE status' = "refused" /\ UNCHANGED <<nodes, stack>>
    BY <2>1, <2>2, <2>4 DEF TreeInv
  <2>5. CASE nodes' = Append(nodes, e) /\ stack' = Append(stack, Len(nodes) + 1) /\ UNCHANGED status
    <3>1. IsElement(e) /\ e.parent = IF stack = <<>> THEN 0 ELSE stack[Len(stack)]
      BY DEF IsElement, Last
    <3> HIDE DEF e
    <3>2. /\ IsRow(nodes') /\ IsTree(nodes') /\ nodes' # <<>> /\ Len(nodes') = Len(nodes) + 1
          /\ \A i \in 1 .. Len(nodes') : IsElement(nodes'[i])
      BY <2>1, <2>5, <3>1, TreeStart
    <3>3. /\ IsRow(stack') /\ Len(stack') = Len(stack) + 1
          /\ \A i \in 1 .. Len(stack) : stack'[i] = stack[i]
          /\ stack'[Len(stack) + 1] = Len(nodes) + 1
      BY <1>1, <2>5, RowAppend
    <3>4. \A i \in 1 .. Len(stack') : stack'[i] \in 1 .. Len(nodes')
      <4> SUFFICES ASSUME NEW i \in 1 .. Len(stack') PROVE stack'[i] \in 1 .. Len(nodes')
        OBVIOUS
      <4>1. i \in 1 .. Len(stack) \/ i = Len(stack) + 1
        BY <1>1, <3>3
      <4>2. \A j \in 1 .. Len(stack) : stack[j] \in 1 .. Len(nodes)
        BY DEF TreeInv
      <4> QED
        BY <1>1, <3>2, <3>3, <4>1, <4>2
    <3> QED
      BY <1>1, <2>1, <2>2, <2>5, <3>2, <3>3, <3>4 DEF TreeInv
  <2> QED
    BY <2>3, <2>4, <2>5
<1>6. CASE Insert
  <2>1. PICK path \in Paths :
          LET at == InsertionPoint(nodes, path)
          IN /\ at # 0
             /\ nodes' = Append([i \in DOMAIN nodes |->
                                   IF nodes[i].line > nodes[at].line THEN [nodes[i] EXCEPT !.line = @ + 1]
                                   ELSE nodes[i]],
                               [tag |-> StepsBelowRoot(path)[DepthOf(nodes, at) + 1], parent |-> at,
                                line |-> nodes[at].line + 1])
             /\ inserted' = Append(inserted, <<path, Len(nodes) + 1>>)
    BY <1>6 DEF Insert
  <2>2. status = "built" /\ UNCHANGED <<stack, status>> /\ nodes # <<>>
    BY <1>6 DEF Insert, TreeInv
  <2> DEFINE at == InsertionPoint(nodes, path)
             tag == StepsBelowRoot(path)[DepthOf(nodes, at) + 1]
  <2>3. IsPath(path) /\ IsTree(nodes)
    BY <2>2 DEF PathAssumption, IsPath, TreeInv
  <2>4. at \in 1 .. Len(nodes)
    <3> DEFINE steps == StepsBelowRoot(path)
    <3>1. /\ path.steps # <<>>
          /\ \E k \in 1 .. Len(steps) - 1 : Reached(nodes, steps)[k] = {at}
      BY <2>1, <2>3, PointFacts
    <3>2. IsRow(steps) /\ Len(steps) \in Nat
      BY <2>3, <3>1, PathSteps
    <3> HIDE DEF steps, at
    <3>3. \A k \in 0 .. Len(steps) : Reached(nodes, steps)[k] \subseteq 1 .. Len(nodes)
      BY <2>3, <3>2, ReachedRounds
    <3>4. PICK k \in 1 .. Len(steps) - 1 : Reached(nodes, steps)[k] = {at}
      BY <3>1
    <3>5. k \in 0 .. Len(steps)
      BY <3>2
    <3> QED
      BY <3>3, <3>4, <3>5
  <2>5. /\ Extends(nodes', nodes, at, tag) /\ Len(nodes') = Len(nodes) + 1
        /\ IsRow(nodes') /\ nodes' # <<>> /\ \A i \in 1 .. Len(nodes') : IsElement(nodes'[i])
    <3> HIDE DEF tag
    <3>1. nodes' = Append([i \in DOMAIN nodes |->
                             IF nodes[i].line > nodes[at].line THEN [nodes[i] EXCEPT !.line = @ + 1]
                             ELSE nodes[i]],
                          [tag |-> tag, parent |-> at, line |-> nodes[at].line + 1])
      BY <2>1 DEF tag
    <3> HIDE DEF at
    <3> QED
      BY <2>2, <2>4, <3>1, TreeInsert
  <2>6. LeadsOn(nodes', path, Len(nodes) + 1) /\ IsTree(nodes')
    <3>1. at # 0
      BY <2>1
    <3>2. LeadsOn(nodes', path, Len(nodes'))
      BY <2>3, <2>5, <3>1, InsertedLeadsOn
    <3>3. IsTree(nodes')
      BY <2>5 DEF Extends
    <3> QED
      BY <2>5, <3>2, <3>3
  <2>7. /\ IsRow(inserted') /\ inserted'[Len(inserted')] = <<path, Len(nodes) + 1>>
    BY <1>1, <2>1, RowAppend
  <2>8. \A i \in 1 .. Len(stack) : stack[i] \in 1 .. Len(nodes')
    BY <1>1, <2>5 DEF TreeInv
  <2> HIDE DEF at, tag
  <2> QED
    BY <1>1, <2>2, <2>5, <2>6, <2>7, <2>8 DEF TreeInv
<1>7. CASE UNCHANGED xmlVars
  BY <1>7 DEF TreeInv, xmlVars
<1> QED
  BY <1>2, <1>3, <1>4, <1>5, <1>6, <1>7 DEF XmlNext

\* An insertion point is never a guess: it is given only to a finding without an error
\* site, one chain of elements leads to it, and the next element of the path is nowhere;
\* and who inserts that element there is led on to it or has completed the path
\* (_insertion_point_line, _stamp_insertion_points): for every catalog, all findings and
\* any document.
THEOREM InsertionNeverGuesses ==
  ASSUME PathAssumption
  PROVE  XmlSpec => []InsertionIsNoGuess
<1>1. TreeInv => InsertionIsNoGuess
  <2> SUFFICES ASSUME TreeInv PROVE NeverGuesses /\ InsertLeadsOn
    BY DEF InsertionIsNoGuess
  <2>1. NeverGuesses
    <3> SUFFICES ASSUME status = "built", NEW i \in DOMAIN Reported, StampInsertionPoints[i].insertion # 0
                 PROVE LET path == PathOf(Reported[i])
                           steps == StepsBelowRoot(path)
                       IN /\ Reported[i].source = 0
                          /\ \E k \in 1..(Len(steps) - 1) :
                                /\ Reached(nodes, steps)[k] = {InsertionPoint(nodes, path)}
                                /\ Reached(nodes, steps)[k + 1] = {}
      BY DEF NeverGuesses
    <3> DEFINE path == PathOf(Reported[i])
    <3>1. StampInsertionPoints[i].insertion =
            IF Reported[i].source # 0 THEN 0 ELSE InsertionPointLine(nodes, path)
      BY DEF StampInsertionPoints
    <3>2. Reported[i].source = 0 /\ InsertionPoint(nodes, path) # 0
      BY <3>1 DEF InsertionPointLine
    <3>3. path \in Paths
      <4>1. Reported[i].rule \in DOMAIN Catalog
        BY DEF PathAssumption
      <4>2. Catalog[Reported[i].rule] \in Range(Catalog)
        BY <4>1 DEF Range
      <4> QED
        BY <4>2 DEF PathOf, Paths
    <3>4. IsPath(path) /\ IsTree(nodes)
      BY <3>3 DEF PathAssumption, IsPath, TreeInv
    <3> HIDE DEF path
    <3>5. \E k \in 1..(Len(StepsBelowRoot(path)) - 1) :
             /\ Reached(nodes, StepsBelowRoot(path))[k] = {InsertionPoint(nodes, path)}
             /\ Reached(nodes, StepsBelowRoot(path))[k + 1] = {}
      <4>1. \E k \in 1..(Len(StepsBelowRoot(path)) - 1) :
              /\ Lone(Reached(nodes, StepsBelowRoot(path)), k)
              /\ Reached(nodes, StepsBelowRoot(path))[k] = {InsertionPoint(nodes, path)}
              /\ Reached(nodes, StepsBelowRoot(path))[k + 1] = {}
        BY <3>2, <3>4, PointFacts, ZenonT(30)
      <4> QED
        BY <4>1
    <3> QED
      BY <3>2, <3>5 DEF path
  <2>2. InsertLeadsOn
    <3> SUFFICES ASSUME inserted # <<>>
                 PROVE LeadsOn(nodes, Last(inserted)[1], Last(inserted)[2])
      BY DEF InsertLeadsOn, LeadsOn
    <3> QED
      BY DEF TreeInv, Last
  <2> QED
    BY <2>1, <2>2
<1> QED
  BY <1>1, TreeBegins, TreeStep, PTL DEF XmlSpec
=============================================================================
