--------------------------- MODULE MCDiscovery ---------------------------
(***************************************************************************)
(* Instances of Discovery: the sites, the calls and what an LLM answers.   *)
(***************************************************************************)
EXTENDS Discovery

MCUrls == {"home", "shop", "docs", "cart", "out"}
None == [u \in MCUrls |-> {}]
Links == [home |-> <<"shop", "docs", "out">>, shop |-> <<"cart", "home">>,
          docs |-> <<"cart">>, cart |-> <<"docs">>, out |-> <<>>]

\* Four pages in three areas, and a link that leaves the site.
Asks ==
    [tool |-> "explore", app |-> "app", start |-> "home", seeds |-> <<>>,
     links |-> Links, area |-> [home |-> "/", shop |-> "shop", docs |-> "docs", cart |-> "shop", out |-> "out"],
     signals |-> [None EXCEPT !["shop"] = {"pricing"}, !["docs"] = {"pricing", "demo"}],
     allowed |-> MCUrls \ {"out"}, unparsable |-> {}, depth |-> 2, pages |-> 4,
     signedIn |-> FALSE, concurrency |-> 0, pattern |-> "fine",
     routes |-> [u \in MCUrls |-> <<>>], hints |-> None, tokens |-> None,
     siteWords |-> {}, sectionWords |-> [k \in 1..6 |-> IF k = 2 THEN {"pay"} ELSE {}],
     goal |-> NoGoal, repo |-> FALSE, hasKey |-> TRUE, focus |-> FALSE]

Crawls ==
    { Asks, [Asks EXCEPT !.pages = 3, !.signedIn = TRUE],
      [Asks EXCEPT !.depth = 1, !.pages = 2, !.concurrency = 3],
      [Asks EXCEPT !.seeds = <<"docs", "home", "out">>],
      [Asks EXCEPT !.seeds = <<"docs">>, !.depth = 1],
      [Asks EXCEPT !.links["shop"] = <<"cart", "out", "docs">>, !.unparsable = {"out"}],
      [Asks EXCEPT !.pattern = "bad"], [Asks EXCEPT !.tool = "structure"] }

\* One page, with little or much on it.
OnePage == [Asks EXCEPT !.links["home"] = <<>>, !.tool = "discover", !.pages = 1]
Store == [None EXCEPT !["home"] = {"cart", "checkout"}]
Shown(n) == [u \in MCUrls |-> IF u = "home" THEN [i \in 1..n |-> i] ELSE <<>>]

Joined == [OnePage EXCEPT !.hasKey = FALSE, !.repo = TRUE, !.tool = "journeys"]
Refused == [OnePage EXCEPT !.pattern = "bad"]

Plannings ==
    { [OnePage EXCEPT !.hints["home"] = {"enter_ai_agent", "import_media"}, !.routes = Shown(1)],
      [OnePage EXCEPT !.tokens = Store, !.routes = Shown(6), !.repo = TRUE],
      [OnePage EXCEPT !.tokens = Store, !.routes = Shown(2), !.tool = "journeys"],
      [OnePage EXCEPT !.tokens["home"] = {"cart"}, !.goal = [words |-> {"pay"}, tokens |-> {"checkout"}]],
      [OnePage EXCEPT !.tokens = Store, !.hasKey = FALSE, !.siteWords = {"cart"}],
      Joined,
      [OnePage EXCEPT !.tool = "capture", !.focus = TRUE, !.routes = Shown(5)],
      Refused }

MCAsked == Crawls \cup Plannings

Login == Says("Log in", "log_in", "other", {"sign up"}, "fair")
AsInFallback == LET name == <<"page_loads", "nav_links", "forms_work">>
                IN [i \in 1..3 |-> Says(name[i], name[i], "other", {}, "low")]
MCPlans ==
    { <<>>, <<Says("?", "?", "other", {}, "fair"), Login, Login>>, AsInFallback,
      <<Says("blank", "blank", "other", {}, "fair")>>,
      <<Says("log-in", "log_in", "other", {"cart", "help"}, "low"), Login>>,
      <<Says("basket", "basket", "other", {"cart"}, "fair"), Login>>,
      <<Says("checkout_purchase", "checkout_purchase", "support", {"pay"}, "low"),
        Says("Log in", "log_in", "revenue", {}, "quoted"), Login>>,
      <<Login, Says("pay", "pay", "revenue", {}, "words")>>,
      [i \in 1..9 |-> Says("flow " \o ToString(i), "flow_" \o ToString(i), "other", {}, "fair")] }

Recorded(id, name, key, app) == [id |-> id, name |-> name, key |-> key, app |-> app, crit |-> "revenue", steps |-> <<>>]
MCRecordings ==
    {Recorded(1, "Log in", "log_in", "app"), Recorded(2, "Log in", "log_in", "other app"),
     Recorded(3, "log in", "log_in", "app")}

Reading == {"discover", "journeys", "capture"}
Empty == [graphs |-> <<>>, recorded |-> <<>>]
MCEarlier(c) ==
    IF c.tool \notin Reading THEN {Empty}
    ELSE IF c \in {Refused, Joined} THEN {[Empty EXCEPT !.recorded = <<Recorded(1, "Log in", "log_in", "app")>>]}
    ELSE [graphs : {<<>>, <<[NoGraph EXCEPT !.app = c.app]>>}, recorded : {<<>>} \cup {<<r>> : r \in MCRecordings}]

\* A recording of "Log in" beside a call that is refused, in all its forms, and
\* a mobile one beside a call that plans.
NoJob == [kind |-> "none", flow |-> Recorded(4, "Log in", "log_in", "app"), auth |-> FALSE, deep |-> FALSE,
          pages |-> FALSE, hasKey |-> FALSE, public |-> FALSE, shots |-> [max |-> 0, cap |-> 0]]
Web == [NoJob EXCEPT !.kind = "web"]
MCJobs ==
    { NoJob, [NoJob EXCEPT !.kind = "bad"], [NoJob EXCEPT !.kind = "mobile"],
      [Web EXCEPT !.auth = TRUE, !.deep = TRUE, !.hasKey = TRUE, !.flow.name = "Sign up"],
      [Web EXCEPT !.pages = TRUE, !.public = TRUE, !.shots = [max |-> 2, cap |-> 1]] }
MCMeanwhile(c) ==
    IF c = Refused THEN MCJobs
    ELSE IF c = Joined THEN {NoJob, [NoJob EXCEPT !.kind = "mobile"]} ELSE {NoJob}

Act(do, xpath, hint) == [do |-> do, typed |-> FALSE, index |-> TRUE, xpath |-> xpath, hint |-> hint]
MCActs == { Act("click", "long", TRUE), Act("fill", "short", FALSE), Act("skip", "none", FALSE),
            [Act("click", "none", TRUE) EXCEPT !.typed = TRUE] }

\* As in _adaptive_budget, with smaller numbers: from one signal one page more,
\* three at most, from two two more and four at most.
MCTiers == <<[signals |-> 2, more |-> 2, cap |-> 4], [signals |-> 1, more |-> 1, cap |-> 3]>>
==========================================================================
