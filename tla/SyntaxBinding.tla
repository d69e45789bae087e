--------------------------- MODULE SyntaxBinding ---------------------------
(***************************************************************************)
(* einvoice/syntax_binding_eval.py: a closed subset of XPath, compiled     *)
(* from the asserts of the official Schematron and run over a parsed       *)
(* document, next to what XPath and Schematron themselves say.             *)
(*                                                                         *)
(* A document is the sequence of its elements in document order, each      *)
(* [tag, up, attrs, text]: its parent's place (0 above the root), its      *)
(* attributes and its own text, a sequence of characters.  A tag is        *)
(* [ns, local], a local name a sequence of fragments.  A selected node is  *)
(* <<element, "">> or <<element, attribute>>.                              *)
(*                                                                         *)
(* An expression is its syntax tree, a record with the field op:           *)
(*   path [path]   not [e]   and [es]   or [es]   group [e]                *)
(*   eq [path, lit]   count [path, cmp, n]   diff [path, with, cmp, n]     *)
(*   ne [path, with]   exists [path]   decimals [n]   other (a function    *)
(*   the grammar does not have)                                            *)
(* a path is [lead, steps] with lead "", "/" or "//"; a step is [axis,     *)
(* tags, key] with axis child, parent, attr or other (a predicate).  Where *)
(* an element of a document ends up in a message is left out.              *)
(***************************************************************************)
EXTENDS Integers, Sequences, FiniteSets, SequencesExt

CONSTANTS
    RootTag,      \* the tag of the document element
    Templates,    \* the elements an author adds, without their place
    MaxNodes,     \* bound on the elements of a document
    Entries,      \* the catalog: a set of [id, binding, shape, context, test, flag]
    Artifacts,    \* the orders of rules tried: sequences of [context, asserts]
    RootContext   \* SUPPORTED_CONTEXT

VARIABLES doc, artifact
vars == <<doc, artifact>>

Nodes == DOMAIN doc
Elem(n) == <<n, "">>
None == [kind |-> "none"]

----------------------------------------------------------------------------
\* Paths: parse_path and _select

StepOk(path, i) ==
    LET st == path.steps[i] IN
    /\ st.axis # "other"
    /\ st.axis = "attr" => i = Len(path.steps)
    /\ st.axis = "parent" =>
         path.lead = "" /\ \A k \in 1..(i - 1) : path.steps[k].axis = "parent"

PathOk(path, allowRooted) ==
    /\ path.lead = "/" => allowRooted /\ path.steps[1].axis = "child"
    /\ \A i \in DOMAIN path.steps : StepOk(path, i)

PlainChildPath(path, allowRooted) ==
    /\ PathOk(path, allowRooted)
    /\ \A i \in DOMAIN path.steps : path.steps[i].axis # "parent"

StepFrom(current, st) ==
    CASE st.axis = "parent" -> {Elem(doc[c[1]].up) : c \in {x \in current : doc[x[1]].up # 0}}
      [] st.axis = "attr" -> {<<c[1], st.key>> : c \in {x \in current :
                                                       st.key \in DOMAIN doc[x[1]].attrs}}
      [] st.axis = "child" -> {Elem(n) : n \in {m \in Nodes :
                                  Elem(doc[m].up) \in current /\ doc[m].tag \in st.tags}}

Select(path, ctx) ==
    IF path.lead = "/"
    THEN LET top == IF doc[1].tag \in path.steps[1].tags THEN {Elem(1)} ELSE {}
         IN FoldLeft(StepFrom, top, Tail(path.steps))
    ELSE LET start == IF path.lead = "//" THEN {Elem(n) : n \in Nodes} ELSE {Elem(ctx)}
         IN FoldLeft(StepFrom, start, path.steps)

\* The element's own text and that of every element below it, in document order.
Under(n) ==
    LET below[m \in Nodes] == m = n \/ (doc[m].up # 0 /\ below[doc[m].up])
    IN {m \in Nodes : below[m]}

StringValue(node) ==
    IF node[2] # "" THEN doc[node[1]].attrs[node[2]]
    ELSE FlattenSeq([m \in Nodes |-> IF m \in Under(node[1]) THEN doc[m].text ELSE <<>>])

Values(nodes) == {StringValue(x) : x \in nodes}

NodesetNe(a, b) ==
    a # {} /\ b # {} /\ ~(Cardinality(Values(a)) = 1 /\ Values(a) = Values(b))

Compare(m, cmp, n) ==
    CASE cmp = "<=" -> m <= n [] cmp = "=" -> m = n [] cmp = "<" -> m < n
      [] cmp = ">=" -> m >= n [] cmp = ">" -> m > n

DecimalsOf(text) ==
    IF Contains(text, ".") THEN Len(text) - SelectInSeq(text, LAMBDA ch : ch = ".") ELSE 0

----------------------------------------------------------------------------
\* compile_test and its siblings: which expressions are accepted, and as what

IsPath(e) == e.op = "path" /\ PathOk(e.path, FALSE)
IsPlain(e) == e.op = "path" /\ PlainChildPath(e.path, FALSE)
NotPath(e) == e.op = "not" /\ IsPath(e.e)
Ungrouped(e) == IF e.op = "group" THEN e.e ELSE e

IsAtom(e) == IsPlain(e) \/ (e.op = "not" /\ IsPlain(e.e))
AtomPath(e) == IF e.op = "not" THEN e.e.path ELSE e.path

\* (not(A) and B) or (A and not(B)) or (not(A) and not(B)), in any order.
MutualExclusion(disjuncts) ==
    LET d == [i \in DOMAIN disjuncts |-> Ungrouped(disjuncts[i])]
        shaped == \A i \in DOMAIN d : /\ d[i].op = "and" /\ Len(d[i].es) = 2
                                      /\ IsAtom(d[i].es[1]) /\ IsAtom(d[i].es[2])
        paths(i) == {AtomPath(d[i].es[1]), AtomPath(d[i].es[2])}
        positive(i) == {AtomPath(x) : x \in {y \in ToSet(d[i].es) : y.op # "not"}}
    IN IF shaped /\ Cardinality(paths(1)) = 2 /\ (\A i \in DOMAIN d : paths(i) = paths(1))
          /\ {positive(i) : i \in DOMAIN d} = {{}} \cup {{p} : p \in paths(1)}
       THEN [kind |-> "not_and", terms |-> SetToSeq(paths(1))] ELSE None

CompileTest(e) ==
    CASE NotPath(e) -> [kind |-> "not", p |-> e.e.path]
      [] e.op = "not" /\ e.e.op = "and" ->
            IF Len(e.e.es) = 2 /\ IsPlain(e.e.es[1]) /\ IsPlain(e.e.es[2])
            THEN [kind |-> "not_and", terms |-> <<e.e.es[1].path, e.e.es[2].path>>] ELSE None
      [] e.op = "or" /\ Len(e.es) = 2 ->
            LET right == Ungrouped(e.es[2])
            IN IF ~NotPath(e.es[1]) THEN None
               ELSE IF right.op = "eq" /\ PathOk(right.path, FALSE)
               THEN [kind |-> "not_or_eq", p |-> e.es[1].e.path, q |-> right.path,
                     lit |-> right.lit]
               ELSE IF e.es[2].op = "group" /\ right.op = "path" /\ PlainChildPath(right.path, TRUE)
               THEN [kind |-> "not_or_exists", p |-> e.es[1].e.path, q |-> right.path]
               ELSE None
      [] e.op = "or" /\ Len(e.es) = 3 -> MutualExclusion(e.es)
      [] OTHER -> None

IsCount(e) == e.op = "count" /\ PathOk(e.path, FALSE)

CompileCountTest(test) ==
    LET e == Ungrouped(test) IN
    CASE e.op = "and" /\ Len(e.es) = 2 ->
            LET left == Ungrouped(e.es[1]) right == Ungrouped(e.es[2])
            IN IF IsCount(left) /\ right.op = "ne" /\ PathOk(right.path, FALSE)
                  /\ PathOk(right.with, FALSE)
               THEN [kind |-> "and_count_ne", p |-> left.path, cmp |-> left.cmp, n |-> left.n,
                     a |-> right.path, b |-> right.with]
               ELSE None
      [] e.op = "or" /\ Len(e.es) = 2 ->
            LET right == Ungrouped(e.es[2])
            IN IF NotPath(e.es[1]) /\ IsCount(right)
               THEN [kind |-> "not_or_count", p |-> e.es[1].e.path, q |-> right.path,
                     cmp |-> right.cmp, n |-> right.n]
               ELSE None
      [] e.op = "diff" /\ PathOk(e.path, FALSE) /\ PathOk(e.with, FALSE) ->
            [kind |-> "count_diff", p |-> e.path, q |-> e.with, cmp |-> e.cmp, n |-> e.n]
      [] IsCount(e) -> [kind |-> "count", p |-> e.path, cmp |-> e.cmp, n |-> e.n]
      [] OTHER -> None

\* exists(P) or a parenthesised path.
ExistsTerm(e) ==
    \/ e.op = "exists" /\ PathOk(e.path, FALSE)
    \/ e.op = "group" /\ IsPath(e.e)

CompileExistenceTest(e) ==
    LET terms == IF e.op = "and" THEN e.es ELSE <<e>>
    IN IF \A i \in DOMAIN terms : ExistsTerm(terms[i])
       THEN [kind |-> "exists_all", terms |-> [i \in DOMAIN terms |-> Ungrouped(terms[i]).path]]
       ELSE None

CompileDatatypeTest(e) ==
    IF e.op = "decimals" THEN [kind |-> "decimal_le", n |-> e.n] ELSE None

CompileClassTest(shape, e) ==
    CASE shape = "absence-restriction" -> CompileTest(e)
      [] shape = "cardinality-count" -> CompileCountTest(e)
      [] shape = "existence" -> CompileExistenceTest(e)
      [] shape = "datatype-regex" -> CompileDatatypeTest(e)
      [] OTHER -> None

\* _Compiled.evaluate: does the assert fire on this context element?
Evaluate(c, ctx) ==
    LET P == Select(c.p, ctx)
        Q == Select(c.q, ctx)
    IN CASE c.kind = "not" -> P # {}
         [] c.kind = "not_or_eq" -> P # {} /\ c.lit \notin Values(Q)
         [] c.kind = "not_or_exists" -> P # {} /\ Q = {}
         [] c.kind = "not_and" -> \A i \in DOMAIN c.terms : Select(c.terms[i], ctx) # {}
         [] c.kind = "count" -> ~Compare(Cardinality(P), c.cmp, c.n)
         [] c.kind = "not_or_count" -> P # {} /\ ~Compare(Cardinality(Q), c.cmp, c.n)
         [] c.kind = "count_diff" -> ~Compare(Cardinality(P) - Cardinality(Q), c.cmp, c.n)
         [] c.kind = "and_count_ne" ->
               ~(/\ Compare(Cardinality(P), c.cmp, c.n)
                 /\ NodesetNe(Select(c.a, ctx), Select(c.b, ctx)))
         [] c.kind = "decimal_le" -> DecimalsOf(StringValue(Elem(ctx))) > c.n
         [] c.kind = "exists_all" -> \E i \in DOMAIN c.terms : Select(c.terms[i], ctx) = {}

----------------------------------------------------------------------------
\* Contexts.  A branch is [kind chain, rooted, tags], [kind suffix, ns, suffix,
\* notTags, notSuffixes, notUnder] or [kind other], which does not compile.

ContextOk(context) == context # <<>> /\ \A i \in DOMAIN context : context[i].kind # "other"

\* The k-th element above n, 0 beyond the root.
Above(n, k) ==
    LET up[j \in 0..k] == IF j = 0 THEN n ELSE IF up[j - 1] = 0 THEN 0 ELSE doc[up[j - 1]].up
    IN up[k]

ChildChain(n, chain) ==
    FoldLeft(LAMBDA S, tag : {m \in Nodes : doc[m].up \in S /\ doc[m].tag = tag}, {n}, chain) # {}

AncestorPath(n, guard) ==
    \E k \in 1..Len(doc) : LET a == Above(n, k) IN
        a # 0 /\ doc[a].tag = guard.tag /\ ChildChain(a, guard.chain)

SuffixMatches(n, br) ==
    LET tag == doc[n].tag IN
    /\ br.ns = "" \/ tag.ns = br.ns
    /\ IsSuffix(br.suffix, tag.local)
    /\ tag \notin br.notTags
    /\ \A s \in br.notSuffixes : ~IsSuffix(s, tag.local)
    /\ \A g \in br.notUnder : ~AncestorPath(n, g)

BranchMatches(n, br) ==
    IF br.kind = "suffix" THEN SuffixMatches(n, br)
    ELSE LET depth == Len(br.tags) IN
         /\ \A i \in 1..depth : LET a == Above(n, depth - i) IN a # 0 /\ doc[a].tag = br.tags[i]
         /\ br.rooted => Above(n, depth) = 0

Matches(context, n) == \E i \in DOMAIN context : BranchMatches(n, context[i])

\* _Context.match: the elements of the tree walk that match some branch.
TreeWalk(context) == SelectSeq([n \in Nodes |-> n], LAMBDA n : Matches(context, n))

\* _match_context_indexed: branch by branch over the index of the leaf tag, each
\* element once, then sorted when there are several branches.
MatchContextIndexed(context) ==
    LET candidates(br) ==
            SelectSeq([n \in Nodes |-> n],
                      LAMBDA n : br.kind = "suffix" \/ doc[n].tag = Last(br.tags))
        found == FoldLeft(LAMBDA out, br :
                              out \o SelectSeq(candidates(br),
                                        LAMBDA n : BranchMatches(n, br) /\ ~Contains(out, n)),
                          <<>>, context)
    IN IF Len(context) > 1 THEN SortSeq(found, LAMBDA m, n : m < n) ELSE found

----------------------------------------------------------------------------
\* Rule claiming: inside one pattern an element belongs to the first rule that
\* matches it.  Two sufficient conditions keep asserts out of the catalog run.

AllChains(context) == ContextOk(context) /\ \A i \in DOMAIN context : context[i].kind = "chain"
Leaves(context) == {Last(context[i].tags) : i \in DOMAIN context}

UniversalQName(context) ==
    IF AllChains(context) /\ Len(context) = 1 /\ ~context[1].rooted /\ Len(context[1].tags) = 1
    THEN {context[1].tags[1]} ELSE {}

ClaimShadowed(rules, j) ==
    LET universal == UNION {UniversalQName(rules[i].context) : i \in 1..(j - 1)}
    IN AllChains(rules[j].context) /\ Leaves(rules[j].context) \subseteq universal

\* The suffix of a context of exactly one suffix branch.
SuffixOf(context) ==
    IF ContextOk(context) /\ Len(context) = 1 /\ context[1].kind = "suffix"
    THEN {context[1].suffix} ELSE {}

\* Mutant: a concrete rule after a suffix rule is taken for safe.
SuffixUnsafeOneWay(rules, j) ==
    \E suffix \in SuffixOf(rules[j].context), i \in 1..(j - 1) :
        AllChains(rules[i].context) /\ \E t \in Leaves(rules[i].context) : IsSuffix(suffix, t.local)

SuffixUnsafe(rules, j) ==
    LET earlier == {rules[i].context : i \in 1..(j - 1)}
        suffixes == UNION {SuffixOf(c) : c \in earlier}
        leaves == UNION {Leaves(c) : c \in {x \in earlier : AllChains(x)}}
    IN \/ \E s \in SuffixOf(rules[j].context) :
            \/ \E t \in leaves : IsSuffix(s, t.local)
            \/ \E o \in suffixes : IsSuffix(s, o) \/ IsSuffix(o, s)
       \/ /\ AllChains(rules[j].context)
          /\ \E t \in Leaves(rules[j].context), s \in suffixes : IsSuffix(s, t.local)

IdsWhere(Test(_, _)) ==
    UNION {artifact[j].asserts : j \in {k \in DOMAIN artifact : Test(artifact, k)}}

Compiles(e) == CompileClassTest(e.shape, e.test) # None

\* The UBL absence restrictions run at the document root only.
UblImplemented(e) ==
    /\ Compiles(e)
    /\ IF e.shape = "absence-restriction" THEN e.context = RootContext ELSE ContextOk(e.context)

CiiImplemented(e) ==
    /\ Compiles(e) /\ ContextOk(e.context)
    /\ e.id \notin IdsWhere(ClaimShadowed) \cup IdsWhere(SuffixUnsafe)

Implemented(e) == IF e.binding = "ubl" THEN UblImplemented(e) ELSE CiiImplemented(e)

Severity(flag) == IF flag \in {"fatal", ""} THEN "fatal" ELSE "warning"

FindingsOf(e) ==
    {[id |-> e.id, node |-> n, severity |-> Severity(e.flag)] :
        n \in {m \in ToSet(MatchContextIndexed(e.context)) :
                  Evaluate(CompileClassTest(e.shape, e.test), m)}}

Findings == UNION {FindingsOf(e) : e \in {x \in Entries : Implemented(x)}}

----------------------------------------------------------------------------
\* An author adds an element, in document order.

Init == doc = <<[tag |-> RootTag, up |-> 0, attrs |-> <<>>, text |-> <<>>]>>
        /\ artifact \in Artifacts

AddElement ==
    /\ Len(doc) < MaxNodes
    /\ \E t \in Templates, k \in 0..Len(doc) :
          LET parent == Above(Len(doc), k) IN
          /\ parent # 0
          /\ doc' = Append(doc, [tag |-> t.tag, up |-> parent, attrs |-> t.attrs, text |-> t.text])
    /\ UNCHANGED artifact

Spec == Init /\ [][AddElement]_vars

----------------------------------------------------------------------------
\* XPath and Schematron.  The document node is 0; its child is the root.

XNodes == {0} \cup Nodes
XStep(S, st) ==
    CASE st.axis = "child" -> {<<m, "">> : m \in {n \in Nodes : <<doc[n].up, "">> \in S
                                                                 /\ doc[n].tag \in st.tags}}
      [] st.axis = "parent" -> {<<doc[x[1]].up, "">> : x \in {y \in S : y[1] # 0}}
      [] st.axis = "attr" -> {<<x[1], st.key>> : x \in {y \in S : y[1] # 0
                                                      /\ st.key \in DOMAIN doc[y[1]].attrs}}
XSelect(path, ctx) ==
    FoldLeft(XStep, CASE path.lead = "/" -> {<<0, "">>} [] path.lead = "" -> {<<ctx, "">>}
                      [] path.lead = "//" -> {<<n, "">> : n \in XNodes},
             path.steps)

RECURSIVE XTrue(_, _)
XTrue(e, ctx) ==
    CASE e.op = "path" \/ e.op = "exists" -> XSelect(e.path, ctx) # {}
      [] e.op = "not" -> ~XTrue(e.e, ctx)
      [] e.op = "group" -> XTrue(e.e, ctx)
      [] e.op = "and" -> \A i \in DOMAIN e.es : XTrue(e.es[i], ctx)
      [] e.op = "or" -> \E i \in DOMAIN e.es : XTrue(e.es[i], ctx)
      [] e.op = "eq" -> \E x \in XSelect(e.path, ctx) : StringValue(x) = e.lit
      [] e.op = "count" -> Compare(Cardinality(XSelect(e.path, ctx)), e.cmp, e.n)
      [] e.op = "diff" -> Compare(Cardinality(XSelect(e.path, ctx))
                                    - Cardinality(XSelect(e.with, ctx)), e.cmp, e.n)
      [] e.op = "ne" -> \E x \in XSelect(e.path, ctx), y \in XSelect(e.with, ctx) :
                            StringValue(x) # StringValue(y)
      [] e.op = "decimals" ->
            LET text == StringValue(<<ctx, "">>)
                dots == {i \in DOMAIN text : text[i] = "."}
            IN dots = {} \/ \E i \in dots : Len(text) - i <= e.n /\ \A j \in dots : i <= j
      [] e.op = "other" -> TRUE

\* The first rule of the artifact that matches the element, or none.
Claimant(n) ==
    LET m == {j \in DOMAIN artifact : Matches(artifact[j].context, n)}
    IN {j \in m : \A k \in m : j <= k}

Officially(e) ==
    {n \in Nodes : /\ \E j \in Claimant(n) : e.id \in artifact[j].asserts
                   /\ ~XTrue(e.test, n)}

\* No concrete rule takes some of the elements of a later concrete one.
NoPartialClaim ==
    \A j \in DOMAIN artifact, i \in DOMAIN artifact :
        i < j /\ AllChains(artifact[i].context) /\ AllChains(artifact[j].context) =>
            \/ Leaves(artifact[i].context) \cap Leaves(artifact[j].context) = {}
            \/ ClaimShadowed(artifact, j)

\* Whatever compiles means what XPath says (compile_test, compile_count_test,
\* compile_existence_test, compile_datatype_test against _Compiled.evaluate): on
\* every element of every document an assert fires iff its test is false.
CompiledAgrees ==
    \A e \in Entries :
        LET c == CompileClassTest(e.shape, e.test) IN
        c # None => \A n \in ToSet(TreeWalk(e.context)) : Evaluate(c, n) = ~XTrue(e.test, n)

\* "semantically IDENTICAL to _Context.match" (syntax_binding_eval.py:1746): the
\* index finds the same elements, each once, in document order.
IndexedIsTreeWalk ==
    \A e \in Entries : ContextOk(e.context) =>
        MatchContextIndexed(e.context) = TreeWalk(e.context)

\* The asserts that are run find exactly what the Schematron's rule claiming finds,
\* whatever the order of the rules: the two conditions of cii_claim_shadowed_ids and
\* cii_suffix_claim_unsafe_ids take out every assert that would over-fire.
FiredAsOfficial ==
    NoPartialClaim =>
        \A e \in {x \in Entries : Implemented(x) /\ x.id \in IdsWhere(LAMBDA r, j : TRUE)} :
            {f.node : f \in {x \in Findings : x.id = e.id}} = Officially(e)

\* "those three asserts are DEAD: the official validator can never fire them": an
\* assert that is taken out as shadowed never fires in any document.
DeadNeverFires ==
    \A e \in Entries : e.id \in IdsWhere(ClaimShadowed) => Officially(e) = {}

\* "//X = every X in the document" (syntax_binding_eval.py:52).
DescendantIsEvery ==
    \A t \in {doc[n].tag : n \in Nodes} :
        Select([lead |-> "//", steps |-> <<[axis |-> "child", tags |-> {t}, key |-> ""]>>], 1)
            = {Elem(n) : n \in {m \in Nodes : doc[m].tag = t}}
============================================================================
