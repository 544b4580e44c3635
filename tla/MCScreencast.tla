---------------------------- MODULE MCScreencast ----------------------------
(* Scenarios for the run of Screencast. *)
EXTENDS Screencast, TLC

With(acts, frames, switches) == [acts |-> acts, frames |-> frames, switches |-> switches]

MCScenarios == {
    With({"stops", "closes"}, 3, 0),
    With({"refuses"}, 3, 0),
    With({"cancels", "stops"}, 2, 0),
    With({"stops"}, 1, 3),
    With({"refuses", "closes"}, 0, 3),
    With({"cancels"}, 0, 4) }
=============================================================================
