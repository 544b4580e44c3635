-------------------------- MODULE MCDiagnosticsLog --------------------------
(* Constants and symmetry for the run of DiagnosticsLog. *)
EXTENDS DiagnosticsLog, TLC

\* ids under eviction, clears, resets and redirects; and a click among requests
\* that are recorded out of order
LogProfiles ==
    {[does |-> {"list", "clear", "reset", "log"}, requests |-> Requests,
      methods |-> {"GET"}, pending |-> 2, events |-> 4],
     [does |-> {"list", "redirect"}, requests |-> Requests,
      methods |-> {"GET"}, pending |-> 2, events |-> 5],
     [does |-> {"click", "clear", "redirect", "stop"}, requests |-> Requests,
      methods |-> Methods, pending |-> 2, events |-> 4]}

Symmetry == Permutations(Requests)
=============================================================================
