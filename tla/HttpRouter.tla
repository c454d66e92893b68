------------------------------ MODULE HttpRouter ------------------------------
(***************************************************************************)
(* The path trie of HttpRouter<T> (src/src/http_router.h).                 *)
(*                                                                         *)
(* A trie node is named by the sequence of child keys that leads to it    *)
(* from the root, so the root is <<>> and the trie is the set `nodes` of   *)
(* such sequences (closed under prefixes, as the insert loop creates every *)
(* intermediate node) together with `data`, the T* stored on each node.    *)
(*                                                                         *)
(* A URL path is abstracted to what the code looks at: how the string      *)
(* begins (empty, '/', anything else) and the segments urls::segments_view *)
(* yields for it ("/" has no segments, "/a/" has <<"a", "">>, "//x" has    *)
(* <<"", "x">>).  A segment containing the substring ".." is the model     *)
(* value DotDot; ".." cannot span a '/', so a path contains ".." exactly   *)
(* when one of its segments does.                                          *)
(***************************************************************************)
EXTENDS Naturals, Sequences, SequencesExt

CONSTANTS
  Segments,     \* segment strings that occur, "" included
  DotDot,       \* a segment that contains the substring ".."
  Handlers,     \* non-null handler pointers
  NoHandler,    \* nullptr
  MaxSegments,  \* most segments in a path that is registered or searched
  MaxInserts    \* most registerHandler calls in one behaviour

ASSUME "" \in Segments /\ DotDot \in Segments
ASSUME NoHandler \notin Handlers
ASSUME MaxSegments \in Nat /\ MaxInserts \in Nat

VARIABLES
  nodes,        \* the trie: every node, named by its key sequence
  data,         \* [nodes -> Handlers \cup {NoHandler}]: HttpPathNode::data_
  lastReg,      \* history: registered path -> handler of the last insert
                \* of that path or of one equal to it up to a trailing '/' 
  inserts       \* insert calls so far (bounded by MaxInserts)

vars == <<nodes, data, lastReg, inserts>>

Root == <<>>

\* Segment sequences of a path that starts with '/'.  <<"">> is excluded:
\* segments_view("/") is empty, so no path yields a single empty segment.
SegSeqs == {s \in BoundedSeq(Segments, MaxSegments) : s # <<"">>}

\* A path string: `lead` is what path[0] is, `segs` its segments.
Paths ==
  {[lead |-> "slash", segs |-> s] : s \in SegSeqs}
    \cup {[lead |-> "empty", segs |-> <<>>], [lead |-> "other", segs |-> <<>>]}

\* The keys a walk over `segs` may use: both loops stop at the first empty
\* segment (`if (key == "") break;`), so a trailing '/' and everything
\* after an empty segment are ignored.
WalkKeys(segs) ==
  LET i == SelectInSeq(segs, LAMBDA x : x = "")
  IN  IF i = 0 THEN segs ELSE SubSeq(segs, 1, i - 1)

\* The paths the header comment of registerHandler calls "the same path":
\* "The '/' at the end of path will be ignored".
PathKey(segs) == IF segs # <<>> /\ Last(segs) = "" THEN Front(segs) ELSE segs
SamePath(p, q) == p.lead = q.lead /\ PathKey(p.segs) = PathKey(q.segs)

-----------------------------------------------------------------------------
(***************************************************************************)
(* The trie operations.                                                    *)
(***************************************************************************)

\* The walk of HttpRouter::insert on a trie t = [nodes, data]: every node
\* along WalkKeys is created if missing and the last one gets the handler
\* (the root when there are no keys), overwriting what it had.
AfterInsert(t, path, h) ==
  LET k  == WalkKeys(path.segs)
      ns == t.nodes \cup Prefixes(k)
  IN  [nodes |-> ns,
       data  |-> [n \in ns |-> IF n = k THEN h
                               ELSE IF n \in t.nodes THEN t.data[n]
                               ELSE NoHandler]]

\* Seeded fault (see README, "Mutants"): insert without `if (key == "")
\* break;`, so "/a/" links a child with the empty key.
InsertNoEmptyBreak(path, h) ==
  /\ h # NoHandler
  /\ path.lead = "slash"
  /\ ~Contains(path.segs, DotDot)
  /\ nodes' = nodes \cup Prefixes(path.segs)
  /\ data' = [n \in nodes' |->
                IF n = path.segs THEN h
                ELSE IF n \in nodes THEN data[n] ELSE NoHandler]

\* Seeded fault: the loop links only the last node.
InsertNoIntermediate(path, h) ==
  /\ h # NoHandler
  /\ path.lead = "slash"
  /\ ~Contains(path.segs, DotDot)
  /\ nodes' = nodes \cup {Root, WalkKeys(path.segs)}
  /\ data' = [n \in nodes' |->
                IF n = WalkKeys(path.segs) THEN h
                ELSE IF n \in nodes THEN data[n] ELSE NoHandler]

\* HttpRouter::insert: the three throwing checks, then the walk.
Insert(path, h) ==
  /\ h # NoHandler
  /\ path.lead = "slash"
  /\ ~Contains(path.segs, DotDot)
  /\ nodes' = AfterInsert([nodes |-> nodes, data |-> data], path, h).nodes
  /\ data' = AfterInsert([nodes |-> nodes, data |-> data], path, h).data

\* The trie after registering each <<path, handler>> of `regs` in order
\* (all valid), as HttpServerImpl::registerHandler does before run().
RoutesAfter(regs) ==
  FoldLeft(LAMBDA t, r : AfterInsert(t, r[1], r[2]),
           [nodes |-> {Root}, data |-> [n \in {Root} |-> NoHandler]], regs)

\* The search loop: from `node`, follow the child named by the next
\* segment until the segments run out, a segment is empty or no child has
\* that key.  Returns the node reached.
RECURSIVE Descend(_, _)
Descend(node, rest) ==
  IF rest = <<>> \/ Head(rest) = "" \/ Append(node, Head(rest)) \notin nodes
  THEN node
  ELSE Descend(Append(node, Head(rest)), Tail(rest))

\* Seeded fault: `segments.size() == 0` written as `segments.size() <= 1`.
SearchRootOffByOne(segs) ==
  IF Len(segs) <= 1
  THEN data[Root]
  ELSE LET cur == Descend(Root, segs)
       IN  IF cur = Root THEN NoHandler ELSE data[cur]

\* HttpRouter::search(urls::segments_view), the overload the session uses.
Search(segs) ==
  IF segs = <<>>
  THEN data[Root]
  ELSE LET cur == Descend(Root, segs)
       IN  IF cur = Root THEN NoHandler ELSE data[cur]

\* HttpRouter::search(beast::string_view): an empty path gets the root's
\* handler, a path not starting with '/' gets nullptr.
SearchPath(path) ==
  CASE path.lead = "empty" -> data[Root]
    [] path.lead = "other" -> NoHandler
    [] OTHER               -> Search(path.segs)

-----------------------------------------------------------------------------
(***************************************************************************)
(* The router as a state machine: registerHandler is called repeatedly     *)
(* before run().  A call that throws leaves the trie as it was.            *)
(***************************************************************************)

Init ==
  /\ nodes = {Root}
  /\ data = [n \in {Root} |-> NoHandler]
  /\ lastReg = [p \in {} |-> NoHandler]
  /\ inserts = 0

\* registerHandler(path, handler) -> HttpRouter::insert, returning normally.
Register(path, h) ==
  /\ inserts < MaxInserts
  /\ Insert(path, h)
  /\ lastReg' = [p \in DOMAIN lastReg \cup {path} |->
                   IF SamePath(p, path) THEN h ELSE lastReg[p]]
  /\ inserts' = inserts + 1

\* registerHandler(path, handler) -> HttpRouter::insert throws
\* std::runtime_error: a null handler, no leading '/', or "..".
RegisterRejected(path, h) ==
  /\ inserts < MaxInserts
  /\ \/ h = NoHandler
     \/ path.lead # "slash"
     \/ Contains(path.segs, DotDot)
  /\ inserts' = inserts + 1
  /\ UNCHANGED <<nodes, data, lastReg>>

Next ==
  \E path \in Paths, h \in Handlers \cup {NoHandler} :
    \/ Register(path, h)
    \/ RegisterRejected(path, h)

Spec == Init /\ [][Next]_vars

-----------------------------------------------------------------------------
(***************************************************************************)
(* Properties.                                                             *)
(***************************************************************************)

\* The segment sequences a request may carry: one segment longer than any
\* registered path, so that a search can run past the deepest node.
RequestSegs == {s \in BoundedSeq(Segments, MaxSegments + 1) : s # <<"">>}

TypeOK ==
  /\ Root \in nodes
  /\ nodes \subseteq BoundedSeq(Segments \ {"", DotDot}, MaxSegments)
  /\ data \in [nodes -> Handlers \cup {NoHandler}]
  /\ DOMAIN lastReg \subseteq Paths
  /\ \A p \in DOMAIN lastReg : lastReg[p] \in Handlers
  /\ inserts \in 0..MaxInserts

\* Reference for the search loop: the deepest trie node whose key sequence
\* is a prefix of the keys the request may use.
DeepestNode(segs) ==
  LET cands == Prefixes(WalkKeys(segs)) \cap nodes
  IN  CHOOSE n \in cands : \A m \in cands : Len(m) <= Len(n)

\* HttpRouter::search's loop, which stops at the first missing child, ends
\* at the deepest node that matches the request at all.  This holds only
\* while every prefix of a node is a node, i.e. while insert links every
\* intermediate node it passes.
SearchFindsDeepestNode ==
  \A segs \in RequestSegs : Descend(Root, segs) = DeepestNode(segs)

\* Header of registerHandler: "/test/" and "/test" are the same path, so a
\* request with a trailing '/' resolves like the one without it.
TrailingSlashIgnored ==
  \A q \in RequestSegs :
    (q # <<>> /\ Len(q) <= MaxSegments) => Search(Append(q, "")) = Search(q)

\* Spec sections 3 and 8: every registered path resolves to the handler of
\* the last registration of that path ("last writer wins").
LastRegistrationWins ==
  \A p \in DOMAIN lastReg : SearchPath(p) = lastReg[p]

\* Spec sections 4.1 and Glossary: a request resolves to the handler of the
\* longest registered path that is a segment prefix of it, the root path
\* "/" included; to none when no registered path is.
\* (Section 8 scenario 4 and the router test say otherwise for "/he".)
LongestRegisteredPrefix ==
  \A q \in RequestSegs :
    LET regs == {p \in DOMAIN lastReg : IsPrefix(PathKey(p.segs), PathKey(q))}
        best == CHOOSE p \in regs :
                  \A r \in regs : Len(PathKey(r.segs)) <= Len(PathKey(p.segs))
    IN  Search(q) = IF regs = {} THEN NoHandler ELSE lastReg[best]

=============================================================================
