-------------------------- MODULE MCManagedBrowser --------------------------
(* Profiles and symmetry for the run of ManagedBrowser. *)
EXTENDS ManagedBrowser, TLC

With(methods, events) == [methods |-> methods, events |-> events]

MCProfiles == {
    With({"create", "close"}, {"open", "restart"}),
    With({"create", "claim", "close"}, {"navigate"}),
    With({"create", "claim", "close"}, {"fail"}),
    With({"list", "claim", "close"}, {"crash"}),
    With({"create", "close", "list"}, {"record"}),
    With({"create", "list"}, {"crash", "mute"}),
    With({"create", "list"}, {"quit", "mute"}),
    With({"create", "close"}, {"quit"}) }

Symmetry == Permutations(Browsers) \cup Permutations(Targets) \cup Permutations(Calls)
=============================================================================
