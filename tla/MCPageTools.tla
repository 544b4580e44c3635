---------------------------- MODULE MCPageTools ----------------------------
(* Profiles and symmetry for the run of PageTools. *)
EXTENDS PageTools, TLC

With(methods, faults) == [methods |-> methods \cup {"claim"}, faults |-> faults]

MCProfiles == {
    With({"console", "release"}, {"fails"}),
    With({"console", "takeover"}, {"ends", "expires"}),
    With({"snapshot", "form", "navigate"}, {"moves", "fails"}),
    With({"snapshot", "fill", "takeover"}, {}),
    With({"snapshot", "fill"}, {"expires"}),
    With({"snapshot", "type"}, {"moves", "fails"}),
    With({"snapshot", "press"}, {"moves", "fails"}),
    With({"snapshot", "drag"}, {"moves", "fails"}),
    With({"snapshot", "hover", "frame"}, {"moves"}),
    With({"snapshot", "screenshot", "click_at"}, {"moves"}),
    With({"snapshot", "evaluate", "css"}, {"moves"}),
    With({"snapshot", "wait"}, {"moves"}),
    With({"snapshot", "submit"}, {"moves"}),
    With({"snapshot", "submit"}, {"ends", "fails"}) }

Symmetry == Permutations(Sessions) \cup Permutations(Calls) \cup Permutations(Monitors)
=============================================================================
