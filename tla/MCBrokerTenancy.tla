--------------------------- MODULE MCBrokerTenancy ---------------------------
(* The profiles TLC checks BrokerTenancy with. *)
EXTENDS BrokerTenancy

CONSTANTS c1, c2

K(v, r) == [version |-> v, runtime |-> r]
Same == [c \in Clients |-> K("new", "managed")]
Upgrade == [Same EXCEPT ![c2] = K("old", "managed")]
Conflict == [Same EXCEPT ![c2] = K("old", "external")]

Profile(fs, w, old, fb) == [faults |-> fs, wants |-> w, legacy |-> old, fallback |-> fb]
Plain(fs, w) == Profile(fs, w, NoLegacy, "off")

OldBrokers == {old \in LegacyBroker : Telltale(old)} \ {NoLegacy}

MCProfiles ==
    {Plain({"broker_crash"}, w) : w \in {Upgrade, Conflict}}
    \cup {Plain(fs, Same) : fs \in {{"client_killed", "slow_start"}, {"files_vanish"}, {"idle_exit"}}}
    \cup {Profile({}, Same, old, "off") : old \in OldBrokers}
    \cup {Profile(fs, Same, NoLegacy, fb) : fs \in {{}, {"broker_command"}}, fb \in Fallback \ {"off"}}
FindProfiles == {Plain({"idle_exit"}, Same)}
=============================================================================
