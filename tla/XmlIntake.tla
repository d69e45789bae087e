------------------------------ MODULE XmlIntake ------------------------------
(***************************************************************************)
(* einvoice/_xmlsec.py, the parser every invoice comes in by: expat calls  *)
(* its handlers, which refuse a DTD or a document out of bounds and stamp  *)
(* each element with the line of its start tag; and the use validate.py    *)
(* makes of the stamps: the line a missing element has to be inserted at.  *)
(*                                                                         *)
(* An element is [tag, parent, line]; the first one is the root.           *)
(***************************************************************************)
EXTENDS Integers, Sequences, FiniteSets, SequencesExt, FiniteSetsExt

CONSTANTS
    Tags, RootTag,
    MaxElementDepth, MaxElementCount,  \* 256 and 2000000 in the code
    Catalog,     \* rule -> the location hint of its remediation entry, <<>> if none
    Reported,    \* findings to attribute: [rule, element, source], paths and lines
    MaxEvents, MaxInserts   \* bounds: events of a document, corrections

VARIABLES
    events,      \* history: the document so far, as its author wrote it
    line,        \* CurrentLineNumber
    nodes,       \* the elements built
    stack,       \* the open elements; its length is _depth
    status,      \* feeding, refused or built
    error,
    inserted     \* history: the elements inserted later, as <<path, node>>

xmlVars == <<events, line, nodes, stack, status, error, inserted>>

\* A start tag is told from the other events of a document by its name, and the bounds are
\* numbers.
Markers == {"end", "newline", "doctype", "oversized"}
DocumentAssumption ==
    /\ Tags \cap Markers = {} /\ RootTag \notin Markers
    /\ MaxElementDepth \in Nat /\ MaxElementCount \in Nat

----------------------------------------------------------------------------
\* _HardenedTreeParser

Refuse(why) == status' = "refused" /\ error' = why

Feeding == status = "feeding" /\ Len(events) < MaxEvents
Write(e) == events' = Append(events, e)

\* MAX_INPUT_BYTES: an oversized document is refused before a byte of it is fed.
TooLarge ==
    /\ Feeding /\ events = <<>>
    /\ Write("oversized") /\ Refuse("input-too-large") /\ UNCHANGED <<line, nodes, stack, inserted>>

\* A document type declaration, with or without entities in it.
ForbidDtd ==
    /\ Feeding /\ nodes = <<>>
    /\ Write("doctype") /\ Refuse("security") /\ UNCHANGED <<line, nodes, stack, inserted>>

NewLine ==
    /\ Feeding /\ Write("newline") /\ line' = line + 1
    /\ UNCHANGED <<nodes, stack, status, error, inserted>>

\* Mutant: the counter is not looked at.
StartUncounted(tag) ==
    /\ Feeding /\ (nodes = <<>> \/ stack # <<>>)
    /\ Write(tag)
    /\ IF Len(stack) + 1 > MaxElementDepth
       THEN Refuse("max-depth-exceeded") /\ UNCHANGED <<nodes, stack>>
       ELSE /\ nodes' = Append(nodes, [tag |-> tag, parent |-> IF stack = <<>> THEN 0 ELSE Last(stack),
                                       line |-> line])
            /\ stack' = Append(stack, Len(nodes) + 1)
            /\ UNCHANGED <<status, error>>
    /\ UNCHANGED <<line, inserted>>

\* _start: the bounds are checked before the element is built.
Start(tag) ==
    /\ Feeding /\ (nodes = <<>> \/ stack # <<>>)
    /\ Write(tag)
    /\ IF Len(stack) + 1 > MaxElementDepth
       THEN Refuse("max-depth-exceeded") /\ UNCHANGED <<nodes, stack>>
       ELSE IF Len(nodes) + 1 > MaxElementCount
       THEN Refuse("too-many-elements") /\ UNCHANGED <<nodes, stack>>
       ELSE /\ nodes' = Append(nodes, [tag |-> tag, parent |-> IF stack = <<>> THEN 0 ELSE Last(stack),
                                       line |-> line])
            /\ stack' = Append(stack, Len(nodes) + 1)
            /\ UNCHANGED <<status, error>>
    /\ UNCHANGED <<line, inserted>>

End ==
    /\ Feeding /\ stack # <<>>
    /\ Write("end") /\ stack' = Front(stack)
    /\ UNCHANGED <<line, nodes, status, error, inserted>>

\* The end of the input: expat refuses a document that is not complete.
Close ==
    /\ status = "feeding"
    /\ IF nodes # <<>> /\ stack = <<>> THEN status' = "built" /\ UNCHANGED error
       ELSE Refuse("not-well-formed")
    /\ UNCHANGED <<events, line, nodes, stack, inserted>>

----------------------------------------------------------------------------
\* _insertion_point_line.  A path is [absolute, steps]; a step that is not a plain name
\* is "?".  The result is a node, 0 for none.

ChildrenNamed(tree, n, tag) == {i \in DOMAIN tree : tree[i].parent = n /\ tree[i].tag = tag}

\* Mutant: of several children the first one is taken.
WalkStepFirst(tree, at, tag) ==
    LET matches == ChildrenNamed(tree, at.node, tag)
    IN IF at.stop # "none" THEN at
       ELSE IF matches = {} THEN [at EXCEPT !.stop = "absent"]
       ELSE [at EXCEPT !.node = Min(matches), !.depth = @ + 1]

WalkStep(tree, at, tag) ==
    LET matches == ChildrenNamed(tree, at.node, tag)
    IN IF at.stop # "none" THEN at
       ELSE IF Cardinality(matches) > 1 THEN [at EXCEPT !.stop = "ambiguous"]
       ELSE IF matches = {} THEN [at EXCEPT !.stop = "absent"]
       ELSE [at EXCEPT !.node = Min(matches), !.depth = @ + 1]

\* The walk, step by step.
Walk(tree, steps) ==
    LET walk[k \in 0..Len(steps)] ==
            IF k = 0 THEN [node |-> 1, depth |-> 0, stop |-> "none"] ELSE WalkStep(tree, walk[k - 1], steps[k])
    IN walk

InsertionPoint(tree, path) ==
    LET rooted == path.absolute /\ path.steps # <<>>
        steps == IF rooted THEN Tail(path.steps) ELSE path.steps
        end == Walk(tree, steps)[Len(steps)]
    IN IF \/ "?" \in Range(path.steps) \/ steps = <<>>
          \/ rooted /\ Head(path.steps) # tree[1].tag
          \/ end.stop # "absent" \/ end.depth = 0
       THEN 0 ELSE end.node

InsertionPointLine(tree, path) ==
    IF InsertionPoint(tree, path) = 0 THEN 0 ELSE tree[InsertionPoint(tree, path)].line

\* Without an element the catalog's hint is used.
PathOf(f) == IF f.element.steps # <<>> THEN f.element ELSE Catalog[f.rule]

\* An error site excludes an insertion point.
StampInsertionPoints ==
    [i \in DOMAIN Reported |->
        [rule |-> Reported[i].rule, source |-> Reported[i].source,
         insertion |-> IF Reported[i].source # 0 THEN 0 ELSE InsertionPointLine(nodes, PathOf(Reported[i]))]]

----------------------------------------------------------------------------
\* The reader of a finding inserts the next missing element, on a line of its own after
\* the start tag it was pointed at, and the document is parsed again.

Paths == {Reported[i].element : i \in DOMAIN Reported} \cup Range(Catalog)
\* A path is a sequence of steps, and every rule reported has an entry, empty or not.
PathAssumption ==
    /\ \A path \in Paths : path.absolute \in BOOLEAN /\ path.steps \in Seq(Range(path.steps))
    /\ \A i \in DOMAIN Reported : Reported[i].rule \in DOMAIN Catalog

StepsBelowRoot(path) == IF path.absolute THEN Tail(path.steps) ELSE path.steps

\* The elements each step leads to, and the steps up from an element to the root.
Reached(tree, steps) ==
    LET reach[k \in 0..Len(steps)] ==
            IF k = 0 THEN {1} ELSE UNION {ChildrenNamed(tree, n, steps[k]) : n \in reach[k - 1]}
    IN reach
Ascent(tree, n) ==
    LET up[k \in 0..Len(tree)] == IF k = 0 THEN n ELSE IF up[k - 1] = 0 THEN 0 ELSE tree[up[k - 1]].parent
    IN up
DepthOf(tree, n) == Cardinality({k \in 0..Len(tree) : Ascent(tree, n)[k] # 0}) - 1

Insert ==
    /\ status = "built" /\ Len(inserted) < MaxInserts
    /\ \E path \in Paths :
         LET at == InsertionPoint(nodes, path)
         IN /\ at # 0
            /\ nodes' = Append([i \in DOMAIN nodes |->
                                   IF nodes[i].line > nodes[at].line THEN [nodes[i] EXCEPT !.line = @ + 1]
                                   ELSE nodes[i]],
                               [tag |-> StepsBelowRoot(path)[DepthOf(nodes, at) + 1], parent |-> at,
                                line |-> nodes[at].line + 1])
            /\ inserted' = Append(inserted, <<path, Len(nodes) + 1>>)
    /\ UNCHANGED <<events, line, stack, status, error>>

XmlInit ==
    /\ events = <<>> /\ line = 1 /\ nodes = <<>> /\ stack = <<>> /\ status = "feeding" /\ error = ""
    /\ inserted = <<>>

XmlNext ==
    \/ TooLarge \/ ForbidDtd \/ NewLine \/ End \/ Close \/ Insert
    \/ \E tag \in (IF nodes = <<>> THEN {RootTag} ELSE Tags) : Start(tag)

XmlSpec == XmlInit /\ [][XmlNext]_xmlVars

----------------------------------------------------------------------------
Starts == {i \in DOMAIN events : events[i] \notin Markers}
EndsBefore(i) == Cardinality({j \in 1..(i - 1) : events[j] = "end"})
NestingAt(i) == Cardinality({j \in Starts : j <= i}) - EndsBefore(i)

\* A tree is handed on only of a document without a DTD and within every bound, and of
\* such a document all of it, each element with the line of its start tag (_xmlsec).
BuiltIsDocument ==
    status = "built" /\ inserted = <<>> =>
        /\ \A i \in DOMAIN events : events[i] \notin {"doctype", "oversized"}
        /\ Cardinality(Starts) <= MaxElementCount
        /\ \A i \in Starts : NestingAt(i) <= MaxElementDepth
        /\ Len(nodes) = Cardinality(Starts)
        /\ \A k \in DOMAIN nodes :
              LET i == CHOOSE j \in Starts : Cardinality({m \in Starts : m <= j}) = k
              IN nodes[k].line = 1 + Cardinality({j \in 1..(i - 1) : events[j] = "newline"})

\* An insertion point is given only to a finding without an error site, one chain of
\* elements leads to it, it is below the root, and the next element of the path is nowhere.
NeverGuesses ==
    status = "built" =>
        \A i \in {j \in DOMAIN Reported : StampInsertionPoints[j].insertion # 0} :
            LET path == PathOf(Reported[i])
                steps == StepsBelowRoot(path)
            IN /\ Reported[i].source = 0
               /\ \E k \in 1..(Len(steps) - 1) :
                     /\ Reached(nodes, steps)[k] = {InsertionPoint(nodes, path)}
                     /\ Reached(nodes, steps)[k + 1] = {}

\* Who inserts what is missing at the line named is led on to the new element, or has
\* completed the path.
InsertLeadsOn ==
    inserted # <<>> =>
        LET path == Last(inserted)[1]
            new == Last(inserted)[2]
            steps == StepsBelowRoot(path)
            whole == Reached(nodes, steps)[Len(steps)]
        IN IF whole = {} THEN InsertionPoint(nodes, path) = new
           ELSE InsertionPoint(nodes, path) = 0 /\ whole = {new}

\* An insertion point is never a guess, and no correction made at one leaves its path
\* ambiguous (validate.py _insertion_point_line, _stamp_insertion_points).
InsertionIsNoGuess == NeverGuesses /\ InsertLeadsOn
=============================================================================
