---------------------------- MODULE MCBrokerTabs ----------------------------
(* Profiles and symmetry for the runs of BrokerTabs; the liveness run uses no *)
(* symmetry.                                                                  *)
EXTENDS BrokerTabs, TLC

\* every request of managed Chrome, without the sweep
AllRequests == [methods |-> AllMethods \ {"start_with_url"}, managed |-> TRUE, sweeps |-> FALSE,
              fails |-> TRUE, human |-> TRUE]

\* the sweep, without the lifecycle lock of managed Chrome
SweepRuns == [methods |-> {"start_session", "new_tab", "claim_tab", "release_tab"},
           managed |-> FALSE, sweeps |-> TRUE, fails |-> TRUE, human |-> TRUE]

InFlight == [methods |-> {"start_session", "new_tab", "release_tab", "preserve_tab", "close_tab"},
             managed |-> TRUE, sweeps |-> TRUE, fails |-> TRUE, human |-> FALSE]

Progress == [methods |-> {"start_with_url", "claim_tab", "close_tab"},
             managed |-> TRUE, sweeps |-> TRUE, fails |-> TRUE, human |-> FALSE]

StaleInventory == [methods |-> {"start_session", "new_tab", "list_tabs"},
                   managed |-> TRUE, sweeps |-> FALSE, fails |-> FALSE, human |-> FALSE]

OwnershipProfiles == {AllRequests, SweepRuns, InFlight}
ProgressProfiles  == {Progress}
StaleProfiles     == {StaleInventory}

Symmetry == Permutations(Sessions) \cup Permutations(Tabs) \cup Permutations(Targets)
              \cup Permutations(Requests)
=============================================================================
