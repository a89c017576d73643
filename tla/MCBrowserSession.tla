------------------------- MODULE MCBrowserSession -------------------------
(***************************************************************************)
(* Instances of BrowserSession: what two or three clients do at once.      *)
(***************************************************************************)
EXTENDS BrowserSession

MCRoutes == {[pattern |-> "p", reply |-> 200], [pattern |-> "p", reply |-> 500],
             [pattern |-> "q", reply |-> 200]}

\* Pages and tabs, events, routes and cookies, each with a client that closes
\* the session or starts the next one.
Pages ==
    [a |-> <<navigate_to_journey, {"navigate_back", "tabs_new"}, {"tabs_select", "tabs_close", "page"}>>,
     b |-> <<{"close", "tabs_close"}, capture_artifact>>,
     c |-> <<capture_artifact, perform_step>>]
Watching ==
    [a |-> <<perform_step, {"navigate"}>>, b |-> <<{"close", "page"}, {"navigate"}>>, c |-> <<>>]
Mocking ==
    [a |-> <<route_register, route_register \cup route_clear>>,
     b |-> <<{"route_add", "close"}, {"route_remove"}>>,
     c |-> <<route_clear>>]
Baking ==
    [a |-> <<storage_set, storage_set \cup storage_import>>,
     b |-> <<{"close", "cookie_set"}, {"cookie_delete"} \cup storage_get>>,
     c |-> <<{"cookie_delete"} \cup storage_import>>]

\* Runs, captures and the browser after the same profile; an anonymous one.
Running == [a |-> <<{"run"}, {"run"}>>, b |-> <<{"run"}>>, c |-> <<>>]
Renewing == [a |-> <<{"run", "capture"}, {"run"}>>, b |-> <<{"save", "capture"}>>, c |-> <<>>]
Opening == [a |-> <<{"navigate", "navigate_as"}>>, b |-> <<{"navigate_as", "save", "page_session"}>>, c |-> <<>>]

Warm(calls, n) == [calls |-> calls, able |-> {}, checks |-> TRUE, warm |-> TRUE, emitted |-> MaxEmitted - n]
Cold(calls, who, checked) == [calls |-> calls, able |-> who, checks |-> checked, warm |-> FALSE, emitted |-> MaxEmitted]

MCAgendas ==
    {Warm(Pages, 0), Warm(Watching, 3), Warm(Mocking, 0), Warm(Baking, 0),
     Cold(Running, {"user"}, TRUE), Cold(Renewing, {}, TRUE), Cold(Opening, {"env"}, FALSE)}
============================================================================
