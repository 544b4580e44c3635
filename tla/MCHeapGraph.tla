----------------------------- MODULE MCHeapGraph -----------------------------
(* Every graph over four nodes (edges into the root and loops change neither *)
(* dominators nor simple paths and appear in a few), with doubled edges,     *)
(* edges that leave the snapshot and truncated edge arrays beside them.      *)
EXTENDS HeapGraph, SequencesExt

MCClassOf == [n \in Node |-> n % 2]

MCSelfSize == [n \in Node |-> 2 ^ n]

\* The pairs of nodes in the order of their rows.
Ordered == LET N == LastNode + 1
           IN  [i \in 1 .. N * N |-> <<(i - 1) \div N, (i - 1) % N>>]

\* The snapshot that lists each pair as often as `times` says.
Stored(times) ==
    [counts |-> [n \in Node |-> FoldSeq(LAMBDA e, sum : IF e[1] = n THEN times[e] + sum ELSE sum,
                                        0, Ordered)],
     rows   |-> FoldLeft(LAMBDA rows, e : rows \o [i \in 1 .. times[e] |-> e[2]],
                         <<>>, Ordered)]

Listed(edges) == Stored([e \in Node \X Node |-> IF e \in edges THEN 1 ELSE 0])

Simple == {e \in Node \X Node : e[1] # e[2] /\ e[2] # Root}

Doubled == {Stored([e \in Node \X Node |->
                       IF e \in {<<0, 1>>, <<1, 3>>, <<2, 3>>, <<3, 2>>} THEN t[e]
                       ELSE IF e = <<0, 2>> THEN 1 ELSE 0]) :
              t \in [{<<0, 1>>, <<1, 3>>, <<2, 3>>, <<3, 2>>} -> 0 .. 2]}

Looped == {Listed(edges \cup {<<1, 1>>, <<2, 0>>}) :
             edges \in SUBSET {<<0, 1>>, <<1, 2>>, <<2, 3>>, <<1, 3>>}}

\* An edge to a node that is not there, before the others.
Dangling == {[counts |-> [n \in Node |-> IF n < 2 THEN 2 ELSE 0], rows |-> r] :
               r \in {<<None, 1, None, 3>>, <<1, None, 2, 3>>, <<1, 2, 3, None>>}}

Short == {[counts |-> [n \in Node |-> 1], rows |-> r] : r \in {<<>>, <<1, 2>>, <<1, 2, 3>>}}

MCSnapshots == {Listed(edges) : edges \in SUBSET Simple}
                 \cup Doubled \cup Looped \cup Dangling \cup Short

Q(op, node, depth, limit) ==
    [op |-> op, node |-> node, max_depth |-> depth, limit |-> limit]

MCQuestions ==
    {Q("retaining_paths", 3, d, l) : d \in 1 .. 3, l \in {1, 2, 9}}
      \cup {Q("retaining_paths", Root, 1, 9), Q("retaining_paths", None, 1, 9)}
      \cup {Q(op, n, 1, l) : op \in {"dominators", "retainers"}, n \in {2, 3}, l \in {1, 2}}
      \cup {Q("nodes", 0, 1, 3), Q("classes", 0, 1, 1), Q("edges", 0, 1, 2)}
=============================================================================
