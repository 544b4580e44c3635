------------------------------ MODULE HeapGraph ------------------------------
(* The answers the memory tool gives about a stored heap snapshot           *)
(* (src/src/heap.rs and broker_memory of src/src/broker.rs).                *)
(*                                                                          *)
(* A snapshot is two flat arrays: nodes, each with the number of edges that *)
(* leave it, and edge rows in the order of their sources.  HeapGraph::parse *)
(* rebuilds the multigraph row by row and sums, from the deepest dominators *)
(* upwards, what each node keeps alive; a request then asks one question    *)
(* and takes the answer page by page.  An artifact never changes, so the    *)
(* graph is parsed once here for all the pages of one question.             *)
(* Node and class names are left out of the graph; a node is its index, the *)
(* root is node 0.                                                          *)
EXTENDS Naturals, FiniteSets, Sequences, SequencesExt, FiniteSetsExt

CONSTANTS
    LastNode,       \* the index of the last node of a snapshot
    ClassOf,        \* the class name (a number) of each node
    SelfSize,       \* the self size of each node
    MaxSize,        \* the largest size the counter can hold (u64::MAX)
    Snapshots,      \* the stored snapshots: [counts, rows]
    Questions       \* the questions asked: [op, node, max_depth, limit]

Node == 0 .. LastNode
Root == 0
None == LastNode + 1    \* no node

Raw == [counts : [Node -> Nat], rows : Seq(Nat)]
Question == [op : {"retaining_paths", "dominators", "nodes", "retainers",
                   "edges", "classes"},
             node : Nat, max_depth : Nat, limit : Nat \ {0}]

ASSUME LastNodeAssumption == LastNode \in Nat
ASSUME SizeAssumption == MaxSize \in Nat /\ SelfSize \in [Node -> 0 .. MaxSize]
ASSUME ClassAssumption == ClassOf \in [Node -> Nat]
ASSUME SnapshotsAssumption == Snapshots \subseteq Raw
ASSUME QuestionsAssumption == Questions \subseteq Question

VARIABLES
    snapshot,       \* the bytes of the artifact
    stage,          \* what the request is doing
    source,         \* parse: the node whose edges are read
    taken,          \* parse: how many of its edges have been read
    cursor,         \* parse: how many edge rows have been read
    incoming,       \* the sources of the edges into a node, last added first
    outgoing,       \* the targets of the edges of a node, last added first
    dominators,     \* node -> its immediate dominator
    depth_nodes,    \* parse: the nodes whose size is still to be passed up
    retained_sizes, \* node -> the size it keeps alive, as summed so far
    question,       \* the question being answered
    queue,          \* retaining_paths: the paths to look at
    path,           \* retaining_paths: the path being extended
    parents,        \* retaining_paths: the retainers not yet tried on it
    data,           \* the answer before it is cut into pages
    pages           \* what the client has received, page after page

parsing == <<source, taken, cursor>>
graph == <<incoming, outgoing>>
sizes == <<dominators, depth_nodes, retained_sizes>>
search == <<queue, path, parents>>
answer == <<data, pages>>
vars == <<snapshot, stage, parsing, graph, sizes,
          question, search, answer>>

----------------------------------------------------------------------------
(* Dominators: what petgraph's simple_fast computes, by definition.         *)

\* The nodes that can be reached from the root without passing `avoided`.
ReachedWithout(avoided) ==
    LET reached[n \in 0 .. LastNode + 1] ==
            IF n = 0 THEN {Root} \ avoided
            ELSE reached[n - 1]
                 \cup {m \in Node \ avoided :
                         \E i \in DOMAIN incoming[m] : incoming[m][i] \in reached[n - 1]}
    IN  reached[LastNode + 1]

\* The nodes every path from the root to `n` goes through; none when no path does.
DominatorsOf(n) ==
    IF n \in ReachedWithout({})
    THEN {d \in Node : d = n \/ n \notin ReachedWithout({d})}
    ELSE {}

DominatorDepth(n) == Cardinality(DominatorsOf(n))

\* The strict dominator that all the others dominate.
ImmediateDominator(n) ==
    LET strict == DominatorsOf(n) \ {n}
    IN  IF strict = {} THEN None
        ELSE CHOOSE d \in strict : strict \subseteq DominatorsOf(d)

----------------------------------------------------------------------------
(* Parsing.                                                                 *)

Saturated(size) == IF size > MaxSize THEN MaxSize ELSE size

\* A snapshot is stored; the request has read its bytes.
Init ==
    /\ snapshot \in Snapshots
    /\ stage = "edges"
    /\ source = 0 /\ taken = 0 /\ cursor = 0
    /\ incoming = [n \in Node |-> <<>>]
    /\ outgoing = [n \in Node |-> <<>>]
    /\ dominators = [n \in Node |-> None]
    /\ depth_nodes = <<>>
    /\ retained_sizes = SelfSize
    /\ question = None
    /\ queue = <<>> /\ path = <<>> /\ parents = <<>>
    /\ data = <<>> /\ pages = <<>>

\* The next edge row of `source` is missing: the request fails.
TruncatedEdges ==
    /\ stage = "edges"
    /\ source \in Node /\ taken < snapshot.counts[source]
    /\ cursor >= Len(snapshot.rows)
    /\ stage' = "failed"
    /\ UNCHANGED <<snapshot, parsing, graph, sizes,
                   question, search, answer>>

\* The next edge row of `source`; a target that is not a node is passed over.
ReadEdge ==
    /\ stage = "edges"
    /\ source \in Node /\ taken < snapshot.counts[source]
    /\ cursor < Len(snapshot.rows)
    /\ cursor' = cursor + 1
    /\ taken' = taken + 1
    /\ LET target == snapshot.rows[cursor + 1]
       IN  IF target \in Node
           THEN /\ incoming' = [incoming EXCEPT ![target] = <<source>> \o @]
                /\ outgoing' = [outgoing EXCEPT ![source] = <<target>> \o @]
           ELSE UNCHANGED graph
    /\ UNCHANGED <<snapshot, stage, source, sizes,
                   question, search, answer>>

NextSource ==
    /\ stage = "edges"
    /\ source \in Node /\ taken = snapshot.counts[source]
    /\ source' = source + 1
    /\ taken' = 0
    /\ UNCHANGED <<snapshot, stage, cursor, graph, sizes,
                   question, search, answer>>

ByIndex == [i \in 1 .. LastNode + 1 |-> i - 1]

\* The nodes by decreasing dominator depth; the sort is stable.
ByDepth ==
    LET depth == [n \in Node |-> DominatorDepth(n)]
    IN  SetToSortSeq(Node, LAMBDA m, n : \/ depth[m] > depth[n]
                                         \/ (depth[m] = depth[n] /\ m < n))

SortDepths ==
    /\ stage = "edges" /\ source = LastNode + 1
    /\ stage' = "sizes"
    /\ dominators' = [n \in Node |-> ImmediateDominator(n)]
    /\ depth_nodes' = ByDepth
    /\ UNCHANGED <<snapshot, parsing, graph, retained_sizes, question, search, answer>>

\* One node passes what it keeps alive to its immediate dominator.
PassUp ==
    /\ stage = "sizes" /\ depth_nodes # <<>>
    /\ LET node == Head(depth_nodes)
           parent == dominators[node]
       IN  retained_sizes' =
             IF node = Root \/ parent = None THEN retained_sizes
             ELSE [retained_sizes EXCEPT ![parent] = Saturated(@ + retained_sizes[node])]
    /\ depth_nodes' = Tail(depth_nodes)
    /\ UNCHANGED <<snapshot, stage, parsing, graph, dominators, question, search, answer>>

Parsed ==
    /\ stage = "sizes" /\ depth_nodes = <<>>
    /\ stage' = "parsed"
    /\ UNCHANGED <<snapshot, parsing, graph, sizes,
                   question, search, answer>>

----------------------------------------------------------------------------
(* The answers that take one step.                                          *)

\* The walk up the dominator tree, the nearest first, the root last.
DominatorChain(n) ==
    LET chain[k \in 0 .. LastNode + 1] ==
            IF k = 0 THEN <<>>
            ELSE LET at == IF chain[k - 1] = <<>> THEN n ELSE Last(chain[k - 1])
                     parent == dominators[at]
                 IN  IF parent = None THEN chain[k - 1]
                     ELSE Append(chain[k - 1], parent)
    IN  chain[LastNode + 1]

\* All the nodes, those that keep most alive first; the sort is stable.
NodesBySize ==
    SetToSortSeq(Node, LAMBDA m, n : \/ retained_sizes[m] > retained_sizes[n]
                                     \/ (retained_sizes[m] = retained_sizes[n] /\ m < n))

\* What the instances of a class keep alive, one instance after the other: an
\* instance kept alive by another one of the class is counted with both.
ClassSize(class) ==
    Saturated(FoldSet(LAMBDA n, sum : retained_sizes[n] + sum, 0,
                      {n \in Node : ClassOf[n] = class}))

Classes ==
    SetToSortSeq({ClassOf[n] : n \in Node},
                 LAMBDA c, d : \/ ClassSize(c) > ClassSize(d)
                               \/ (ClassSize(c) = ClassSize(d) /\ c < d))

Listing(q) ==
    CASE q.op = "dominators" -> DominatorChain(q.node)
      [] q.op = "nodes"      -> NodesBySize
      [] q.op = "retainers"  -> incoming[q.node]
      [] q.op = "edges"      -> outgoing[q.node]
      [] q.op = "classes"    -> Classes

AskListing(q) ==
    /\ stage = "parsed" /\ q.node \in Node /\ q.op # "retaining_paths"
    /\ question' = q
    /\ data' = Listing(q)
    /\ stage' = "answered"
    /\ UNCHANGED <<snapshot, parsing, graph, sizes, search, pages>>

\* The id of the question is not in by_id.
AskUnknown(q) ==
    /\ stage = "parsed" /\ q.node \notin Node
    /\ stage' = "failed"
    /\ UNCHANGED <<snapshot, parsing, graph, sizes, question,
                   search, answer>>

----------------------------------------------------------------------------
(* retaining_paths: breadth first from the node up to the root.             *)

AskPaths(q) ==
    /\ stage = "parsed" /\ q.node \in Node /\ q.op = "retaining_paths"
    /\ question' = q
    /\ queue' = <<<<q.node>>>>
    /\ stage' = "paths"
    /\ UNCHANGED <<snapshot, parsing, graph, sizes, path,
                   parents, answer>>

\* The path at the head of the queue ends at the root: it is an answer, shown
\* from the root down, and the search stops when there are enough of them.
FindPath ==
    /\ stage = "paths" /\ parents = <<>> /\ queue # <<>>
    /\ Head(queue)[Len(Head(queue))] = Root
    /\ data' = Append(data, Reverse(Head(queue)))
    /\ queue' = Tail(queue)
    /\ stage' = IF Len(data') >= question.limit THEN "answered" ELSE stage
    /\ UNCHANGED <<snapshot, parsing, graph, sizes, question,
                   path, parents, pages>>

\* The path is too long to be extended, or its retainers are tried next.
VisitPath ==
    /\ stage = "paths" /\ parents = <<>> /\ queue # <<>>
    /\ Head(queue)[Len(Head(queue))] # Root
    /\ queue' = Tail(queue)
    /\ IF Len(Head(queue)) > question.max_depth
       THEN UNCHANGED <<path, parents>>
       ELSE /\ path' = Head(queue)
            /\ parents' = incoming[Head(queue)[Len(Head(queue))]]
    /\ UNCHANGED <<snapshot, stage, parsing, graph, sizes,
                   question, answer>>

OnPathEnd(m) == path[Len(path)] = m

\* path.contains(&parent)
OnPath(m) == \E i \in DOMAIN path : path[i] = m

\* One retainer, through one edge: a path does not come back to a node.
ExtendPath ==
    /\ stage = "paths" /\ parents # <<>>
    /\ parents' = Tail(parents)
    /\ queue' = IF OnPath(Head(parents)) THEN queue
                ELSE Append(queue, Append(path, Head(parents)))
    /\ UNCHANGED <<snapshot, stage, parsing, graph, sizes,
                   question, path, answer>>

NoMorePaths ==
    /\ stage = "paths" /\ parents = <<>> /\ queue = <<>>
    /\ stage' = "answered"
    /\ UNCHANGED <<snapshot, parsing, graph, sizes, question,
                   search, answer>>

----------------------------------------------------------------------------
(* paginate_value: the client follows next_cursor until there is none.      *)

\* The cursor of the next page, 0 for the first.
NextCursor == Len(pages) * question.limit

TruncatedAt(at) == at + question.limit < Len(data)

TakePage ==
    /\ stage = "answered"
    /\ pages' = Append(pages, SubSeq(data, NextCursor + 1,
                                     Min({Len(data), NextCursor + question.limit})))
    /\ stage' = IF TruncatedAt(NextCursor) THEN stage ELSE "read"
    /\ UNCHANGED <<snapshot, parsing, graph, sizes, question,
                   search, data>>

Parse == TruncatedEdges \/ ReadEdge \/ NextSource \/ SortDepths \/ PassUp \/ Parsed

Ask == \E q \in Questions : AskListing(q) \/ AskUnknown(q) \/ AskPaths(q)

Search == FindPath \/ VisitPath \/ ExtendPath \/ NoMorePaths

Next == Parse \/ Ask \/ Search \/ TakePage

Spec == Init /\ [][Next]_vars

----------------------------------------------------------------------------
(* What the answers should be, from the snapshot alone.                     *)

\* The rows that precede those of a node.
RowsBefore(n) ==
    FoldSet(LAMBDA m, sum : snapshot.counts[m] + sum, 0, {m \in Node : m < n})

\* How many edges of the snapshot go from one node to another.
EdgesBetween(from, to) ==
    Cardinality({k \in DOMAIN snapshot.rows :
                   /\ RowsBefore(from) < k /\ k <= RowsBefore(from) + snapshot.counts[from]
                   /\ snapshot.rows[k] = to})

RealPath(p) == \A i \in 1 .. Len(p) - 1 : EdgesBetween(p[i], p[i + 1]) > 0

IsSimple(p) == \A i, j \in DOMAIN p : p[i] = p[j] => i = j

\* The sequences of different nodes.
Routes == {p \in UNION {[1 .. n -> Node] : n \in 1 .. Cardinality(Node)} : IsSimple(p)}

\* The simple paths of the snapshot that leave the root.
RootPaths == {p \in Routes : p[1] = Root /\ RealPath(p)}

\* A node keeps another alive when every path from the root to the other goes
\* through it; a node off the root keeps only itself.
KeptAlive(n) ==
    LET to(m) == {p \in RootPaths : p[Len(p)] = m}
    IN  {m \in Node : \/ m = n
                      \/ to(m) # {} /\ \A p \in to(m) : \E i \in DOMAIN p : p[i] = n}

\* The retained size of a node is the total self size of the nodes it keeps
\* alive, at most what the counter can hold: the sums are passed up in an order
\* that never reads a size before it is complete (HeapGraph::parse).
RetainedSizesExact ==
    stage = "parsed" =>
        \A n \in Node :
            retained_sizes[n] =
                Saturated(FoldSet(LAMBDA m, sum : SelfSize[m] + sum, 0, KeptAlive(n)))

\* The retaining paths a question asks for, parallel edges counted apart.
Asked == {p \in RootPaths : /\ p[Len(p)] = question.node
                            /\ Len(p) <= question.max_depth + 1}

Copies(p) == FoldSet(LAMBDA i, product : EdgesBetween(p[i], p[i + 1]) * product, 1,
                     1 .. Len(p) - 1)

Times(p) == Cardinality({i \in DOMAIN data : data[i] = p})

PathsExact ==
    LET asked == Asked IN
    /\ \A i \in DOMAIN data : data[i] \in asked
    /\ \A i \in 2 .. Len(data) : Len(data[i - 1]) <= Len(data[i])
    /\ Len(data) <= question.limit
    /\ \A p \in asked :
          \/ Times(p) = Copies(p)
          \/ /\ Times(p) < Copies(p)
             /\ Len(data) = question.limit /\ Len(data[Len(data)]) <= Len(p)

ChainExact ==
    LET kept == [n \in Node |-> KeptAlive(n)] IN
    /\ \A i, j \in DOMAIN data : i < j => data[j] # data[i] /\ data[i] \in kept[data[j]]
    /\ {data[i] : i \in DOMAIN data}
         = {n \in Node \ {question.node} : question.node \in kept[n]}

\* A client that follows the cursors to the end has the whole answer, each
\* entry once and in order; the retaining paths are the shortest simple paths
\* from the root to the node, and the dominator chain is every node that keeps
\* the node alive, the nearest first (HeapGraph::retaining_paths, dominators
\* and paginate_value).
AnswersAreExact ==
    stage = "read" =>
        /\ FlattenSeq(pages) = data
        /\ question.op = "retaining_paths" => PathsExact
        /\ question.op = "dominators" => ChainExact

=============================================================================
