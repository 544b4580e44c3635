--------------------------- MODULE MCPageSessions ---------------------------
(* Profiles for the runs of PageSessions. *)
EXTENDS PageSessions

With(methods, policies, events, documents, calls) ==
    [methods |-> methods, policies |-> policies, events |-> events, documents |-> documents,
     calls |-> calls]

OneCall == {CHOOSE x \in Calls : TRUE}

MCProfiles == {
    With({"evaluate", "history"}, {"accept"}, {}, 1, Calls),
    With({"evaluate"}, {}, {"moves", "drops"}, 2, Calls),
    With({"history"}, {"accept"}, {"drops"}, 1, OneCall),
    With({"url", "reload"}, {"accept"}, {}, 2, Calls),
    With({"evaluate", "reload"}, {"none"}, {"timeout"}, 1, Calls),
    With({"url"}, {"accept", "dismiss"}, {"timeout"}, 2, Calls),
    With({"url", "history", "reload"}, {"accept"}, {"fails", "drops"}, 1, OneCall),
    With({"evaluate", "url"}, {"accept"}, {"fails"}, 1, Calls) }
=============================================================================
