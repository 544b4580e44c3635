--------------------------- MODULE MCTabCaptures ---------------------------
(* Profiles and symmetry for the run of TabCaptures. *)
EXTENDS TabCaptures, TLC

With(methods, faults) == [methods |-> methods \cup {"new_tab"}, faults |-> faults]

MCProfiles == {
    With({"start_cast", "stop_cast", "claim"}, {"stops"}),
    With({"start_cast", "takeover"}, {"human"}),
    With({"start_cast", "close"}, {"human"}),
    With({"start_cast", "release"}, {"fails"}),
    With({"start_trace", "stop_trace", "close"}, {"human", "fails"}),
    With({"start_trace", "takeover"}, {"fails"}),
    With({"start_trace", "release", "claim", "takeover_uninstructed"}, {"human"}),
    With({"set_viewport", "claim", "release"}, {"fails"}),
    With({"set_viewport", "reset", "release"}, {}),
    With({"set_viewport", "takeover"}, {"fails"}),
    With({"set_viewport", "close"}, {"fails"}),
    With({"set_other", "claim", "release"}, {}),
    With({"set_viewport", "audit"}, {}),
    With({"audit", "takeover"}, {"human"}),
    With({"audit", "delete"}, {"fails"}),
    With({"capture", "delete", "takeover"}, {"human"}) }

Symmetry == Permutations(Sessions) \cup Permutations(Tabs) \cup Permutations(Calls)
              \cup Permutations(Jobs)
=============================================================================
