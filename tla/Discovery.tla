---------------------------- MODULE Discovery ----------------------------
(***************************************************************************)
(* The discovery tools: a crawl (SiteCrawl), a plan of 3 to 8 flows made   *)
(* by the LLM or without it, and a context graph that says which critical  *)
(* journeys have a recording.                                              *)
(*                                                                         *)
(* One call is followed, and beside it one recording (Recording), which    *)
(* writes the flows the graph is built from.  While the call plans, others *)
(* of the server save graphs and recordings too; what they did before is   *)
(* in the initial state.                                                   *)
(*                                                                         *)
(* A flow is [name, key, crit, words, conf]: key is the name as the graph  *)
(* compares it, words the classes of words in its texts (WordTests), conf  *)
(* whether confidence is below 0.4 ("low"), not ("fair"), a number in      *)
(* quotes or words.  Routes are numbers: the sections of a site in their   *)
(* order.                                                                  *)
(***************************************************************************)
EXTENDS SiteCrawl, Recording

CONSTANTS
    Plans,          \* lists of flows an LLM may answer
    Recordings,     \* flows other calls record: [id, name, key, app, crit, steps]
    Earlier(_),     \* bound: what the tables may hold before a call: [graphs, recorded]
    Meanwhile(_),   \* bound: the jobs of Recording there may be beside a call
    Sections,       \* bound: sections of a site
    MaxOthers       \* bound: graphs and recordings saved meanwhile

ASSUME DiscoveryAssumption ==
    /\ Sections \in Nat
    /\ \A answer \in Plans : answer \in Seq(Range(answer))
    /\ \A c \in Asked : \A e \in Earlier(c) :
          e.graphs \in Seq(Range(e.graphs)) /\ e.recorded \in Seq(Range(e.recorded))

VARIABLES
    flows,      \* the plan
    quality,    \* [fallback, passed] of the answer
    previous,   \* index in graphs of the graph the diff is made from, 0: none
    known,      \* the recordings list_flows_full answered
    graphs,     \* saved context graphs, oldest first
    mine,       \* index in graphs of the graph this call saved, 0: none
    journeys,   \* what discover_critical_journeys answers
    before,     \* history: the recordings when the call began
    others      \* bound

plan == <<flows, quality, previous, known, mine, journeys>>
store == <<graphs, recorded, others>>
vars == <<stage, crawl, plan, store, before, recording>>

Critical == {"revenue", "activation"}
NoGraph == [app |-> "", routes |-> {}, journeys |-> {}]

-----------------------------------------------------------------------------
(* The inventory *)

Inventory ==
    LET urls == {p.url : p \in pages}
    IN [crawled |-> crawled,
        routes  |-> UNION {Range(call.routes[u]) : u \in urls},
        hints   |-> UNION {call.hints[u] : u \in urls},
        tokens  |-> UNION {call.tokens[u] : u \in urls}]

Storefront(tokens) == Cardinality(tokens) >= 2

-----------------------------------------------------------------------------
(* Flows made without an LLM *)

Says(name, key, crit, words, conf) ==
    [name |-> name, key |-> key, crit |-> crit, words |-> words, conf |-> conf]
Flow(name, crit, words, conf) == Says(name, name, crit, words, conf)

FirstFew(s, n) == SubSeq(s, 1, AtMost(n, Len(s)))
Names(s) == {s[i].name : i \in DOMAIN s}
\* The elements of s at some of its indices, in their order.
Picked(s, at) ==
    [k \in 1..Cardinality(at) |-> s[CHOOSE i \in at : Cardinality({j \in at : j <= i}) = k]]
\* The first flow of each name, blank ones left out.
Distinct(s) ==
    Picked(s, {i \in DOMAIN s : s[i].name \notin {"blank"} \cup {s[j].name : j \in 1..(i - 1)}})

\* A flow that comes with its criticality: its words are never looked at.
Ready(name, crit) == Flow(name, crit, {}, "fair")

HintFlows ==
    << Ready("browse_templates", "activation"), Ready("review_shared_content", "retention"),
       Ready("start_caption_workflow", "activation"), Ready("enter_ai_agent", "activation"),
       Ready("create_blank_project", "activation"), Ready("import_media", "activation") >>

\* _heuristic_flows_from_inventory
HeuristicFlows(inv) ==
    Picked(HintFlows, {i \in DOMAIN HintFlows : HintFlows[i].name \in inv.hints})
    \o IF inv.routes = {} THEN <<>> ELSE <<Ready("navigate_core_routes", "other")>>

\* They name the URL of the application, which has words of its own.
GenericFlows ==
    [i \in 1..3 |-> Flow(<<"page_loads", "nav_links", "forms_work">>[i], "other", call.siteWords, "low")]

\* _inventory_section_fallback_flows: five sections, whichever rank first; each
\* names its path.
SectionFlows(inv) ==
    FirstFew(Picked([k \in 1..Sections |->
                        Flow("explore_" \o ToString(k), "other", call.sectionWords[k], "fair")],
                    inv.routes \cap 1..Sections), 5)

\* _storefront_fallback_flows
StorefrontFlows(inv) ==
    IF ~Storefront(inv.tokens) THEN <<>>
    ELSE <<Ready("browse_catalog_and_product_details", "activation"),
           Ready("checkout_purchase", "revenue"),
           Ready("manage_cart_contents", "support")>>

-----------------------------------------------------------------------------
(* How critical a flow is *)

\* The tests of _infer_flow_business_criticality in their order.  "pay" is
\* checkout, purchase, ...; "change" add, remove, ...; "storefront" says that
\* the inventory or the goal has two tokens of a shop.
WordTests ==
    << <<"revenue", {"pay"}>>, <<"revenue", {"cart", "change"}>>, <<"activation", {"sign up"}>>,
       <<"activation", {"browse"}>>, <<"support", {"help"}>>, <<"retention", {"saved"}>>,
       <<"revenue", {"storefront", "cart"}>>, <<"activation", {"storefront", "product"}>> >>

NoGoal == [words |-> {}, tokens |-> {}]

\* The words of the business goal count as words of every flow.
InferredCriticality(f, inv, goal) ==
    LET words == f.words \cup goal.words
                 \cup (IF Storefront(inv.tokens \cup goal.tokens) THEN {"storefront"} ELSE {})
    IN IF f.crit # "other" THEN f.crit
       ELSE FoldRight(LAMBDA test, rest : IF test[2] \subseteq words THEN test[1] ELSE rest, WordTests, "other")

Inferred(s, inv, goal) ==
    [i \in DOMAIN s |->
        LET f == s[i] IN Says(f.name, f.key, InferredCriticality(f, inv, goal), f.words, f.conf)]

\* The goal is not looked at here, and the cut at eight drops the storefront
\* flows of a site with five sections.
FallbackFlows(inv) ==
    FirstFew(Inferred(Distinct(GenericFlows \o SectionFlows(inv) \o StorefrontFlows(inv)), inv, NoGoal), 8)

-----------------------------------------------------------------------------
(* What becomes of an LLM's answer *)

\* _enrich_discovered_flows: a storefront also gets the flows of the classes
\* nobody named, which differ in class and name.
Enriched(answer, inv) ==
    LET own == Distinct(Inferred(answer, inv, call.goal))
        extra == StorefrontFlows(inv)
        missing == {i \in DOMAIN extra : /\ extra[i].name \notin Names(own)
                                        /\ \A k \in DOMAIN own : own[k].crit # extra[i].crit}
    IN FirstFew(own \o Picked(extra, missing), 8)

\* Items without a name and a goal are left out.
Valid(answer) == Picked(answer, {i \in DOMAIN answer : answer[i].name # "?"})

Shallow(inv) ==
    inv.crawled <= 6 /\ Cardinality(inv.routes) <= 4 /\ Len(HeuristicFlows(inv)) >= 3

\* "Clamp to 3-8 flows"; a padding flow may repeat a name.
Clamped(s) ==
    LET few == FirstFew(s, 8)
    IN IF Len(few) >= 3 THEN few ELSE few \o FirstFew(FallbackFlows(Inventory), 3 - Len(few))

-----------------------------------------------------------------------------
(* The context graph *)

CriticalityOrder == <<"revenue", "activation", "retention", "support", "other">>
Rank(crit) == LET at == {i \in DOMAIN CriticalityOrder : CriticalityOrder[i] = crit}
              IN IF at = {} THEN 99 ELSE Min(at)

\* _build_journey_summaries: one journey for each key, of the most critical
\* class anybody gave it; it is covered when a flow is recorded under its key.
JourneySummaries(planned, recordings) ==
    LET ofApp == {r \in recordings : r.app = call.app}
        all == {[key |-> f.key, crit |-> f.crit] : f \in Range(planned) \cup ofApp}
    IN {[key |-> k,
         crit |-> (CHOOSE j \in all : j.key = k /\ \A o \in all : o.key = k => Rank(j.crit) <= Rank(o.crit)).crit,
         covered |-> \E r \in ofApp : r.key = k] : k \in {j.key : j \in all}}

build_context_graph ==
    [app |-> call.app, routes |-> Inventory.routes, journeys |-> JourneySummaries(flows, known)]

UncoveredCritical(graph) == {j \in graph.journeys : j.crit \in Critical /\ ~j.covered}

LatestGraph == LET own == {i \in DOMAIN graphs : graphs[i].app = call.app}
               IN IF own = {} THEN 0 ELSE CHOOSE i \in own : \A j \in own : j <= i

-----------------------------------------------------------------------------
(* The tools *)

Is(s) == stage = s
Then(s) == stage' = s
Planner == call.tool \in {"discover", "journeys"}
ReadsDb == Planner \/ call.tool = "capture"

\* discover_test_flows and discover_critical_journeys look at the URL and the
\* patterns, the others at the URL at most.
Validate ==
    /\ Is("asked")
    /\ Then(IF call.pattern = "bad" /\ Planner THEN "refused" ELSE "acquire")
    /\ UNCHANGED <<crawl, plan, store, before>>

\* get_page_structure: two attempts at goto, and the second one may raise.
PageStructure ==
    /\ Is("bootstrap") /\ call.tool = "structure"
    /\ \/ alive /\ Then("answered")
       \/ Then("failed")
    /\ UNCHANGED <<crawl, plan, store, before>>

\* A failure to save the inventory is logged, no more.
SaveInventory ==
    /\ Is("crawled")
    /\ Then(CASE call.tool = "explore" -> "answered"
              [] call.tool = "capture" /\ ~call.focus -> "graph"
              [] Planner /\ call.repo -> "repo"
              [] OTHER -> "plan")
    /\ UNCHANGED <<crawl, plan, store, before>>

\* s is bound before it is clamped, so that TLC evaluates it once.
Planned(s, fallback) ==
    /\ flows' \in {IF call.tool = "capture" THEN f ELSE Clamped(f) : f \in {s}}
    /\ quality' = [quality EXCEPT !.fallback = fallback /\ ~call.repo]
    /\ Then(IF Planner THEN "gate" ELSE "graph")
    /\ UNCHANGED <<crawl, previous, known, mine, journeys, store, before>>

\* _flows_from_repo: without source files or a key, or without a usable answer,
\* it plans from the inventory.
RepoAnswers ==
    /\ Is("repo") /\ call.hasKey
    /\ \E answer \in Plans :
          Valid(answer) # <<>> /\ Planned(Enriched(Valid(answer), Inventory), FALSE)

RepoFallsBack ==
    /\ Is("repo")
    /\ Then("plan")
    /\ UNCHANGED <<crawl, plan, store, before>>

\* plan_flows_from_inventory
PlanHeuristic == Is("plan") /\ Shallow(Inventory) /\ Planned(HeuristicFlows(Inventory), TRUE)

PlanWithoutKey ==
    Is("plan") /\ ~Shallow(Inventory) /\ ~call.hasKey /\ Planned(FallbackFlows(Inventory), TRUE)

LlmPlans ==
    /\ Is("plan") /\ ~Shallow(Inventory) /\ call.hasKey
    /\ \E answer \in Plans :
          Valid(answer) # <<>> /\ Planned(Enriched(Valid(answer), Inventory), FALSE)

\* An answer without a usable flow is not reported as a fallback.
LlmFails ==
    /\ Is("plan") /\ ~Shallow(Inventory) /\ call.hasKey
    /\ \E raised \in BOOLEAN : Planned(FallbackFlows(Inventory), raised)

\* make_planning_llm raises outside the handlers; capture_context has its own.
PlannerRaises ==
    /\ stage \in {"plan", "repo"} /\ call.hasKey
    /\ Is("plan") => ~Shallow(Inventory)
    /\ IF call.tool = "capture" THEN Planned(<<>>, FALSE)
       ELSE Then("failed") /\ UNCHANGED <<crawl, plan, store, before>>

\* quality_gate_flows compares one confidence after the other until one is high
\* enough; one that is no number raises, and nothing catches it.
Gate ==
    /\ Is("gate")
    /\ LET good == {i \in DOMAIN flows : flows[i].conf = "fair"}
           looked == {i \in DOMAIN flows : \A g \in good : i < g}
           generic == Names(flows) \subseteq Names(GenericFlows)
       IN /\ Then(IF ~generic /\ \E i \in looked : flows[i].conf \in {"quoted", "words"} THEN "failed" ELSE "graph")
          /\ quality' = [quality EXCEPT !.passed = ~generic /\ good # {}]
    /\ UNCHANGED <<crawl, flows, previous, known, mine, journeys, store, before>>

ReadPrevious ==
    /\ Is("graph")
    /\ previous' = LatestGraph
    /\ Then("known")
    /\ UNCHANGED <<crawl, flows, quality, known, mine, journeys, store, before>>

\* Mutated form: the graph is saved before the recordings are read.
SaveGraphEarly ==
    /\ Is("known")
    /\ graphs' = Append(graphs, build_context_graph)
    /\ mine' = Len(graphs')
    /\ known' = {r \in Range(recorded) : r.app = call.app}
    /\ Then(IF call.tool = "journeys" THEN "link" ELSE "answered")
    /\ UNCHANGED <<crawl, flows, quality, previous, journeys, recorded, others, before>>

ReadRecorded ==
    /\ Is("known")
    /\ known' = {r \in Range(recorded) : r.app = call.app}
    /\ Then("save")
    /\ UNCHANGED <<crawl, flows, quality, previous, mine, journeys, store, before>>

\* The graph is built, compared and saved.  A confidence in words raises when
\* it is built, and so does a failure to save it.
SaveGraph ==
    /\ Is("save")
    /\ \/ UNCHANGED <<graphs, mine>> /\ Then("failed")
       \/ /\ \A f \in Range(flows) : f.conf # "words"
          /\ graphs' = Append(graphs, build_context_graph)
          /\ mine' = Len(graphs')
          /\ Then(IF call.tool = "journeys" THEN "link" ELSE "answered")
    /\ UNCHANGED <<crawl, flows, quality, previous, known, journeys, recorded, others, before>>

\* discover_critical_journeys: names are looked up among the recordings of all
\* applications, and the oldest one of a name is taken.
LinkJourneys ==
    /\ Is("link")
    /\ journeys' = {[name |-> f.name, gated |-> f.crit \in Critical,
                     flow |-> LET of == {i \in DOMAIN recorded : recorded[i].name = f.name}
                              IN IF of = {} THEN 0 ELSE recorded[Min(of)].id] : f \in Range(flows)}
    /\ Then("answered")
    /\ UNCHANGED <<crawl, flows, quality, previous, known, mine, store, before>>

-----------------------------------------------------------------------------
(* The other calls of the server *)

Planning == stage \in {"graph", "known", "save", "link"} /\ others < MaxOthers

OtherRecords ==
    /\ Planning
    /\ others' = others + 1
    /\ \E r \in Recordings \ Range(recorded) : recorded' = Append(recorded, r)
    /\ UNCHANGED <<stage, crawl, plan, graphs, before>>

OtherSavesGraph ==
    /\ Planning
    /\ others' = others + 1
    /\ graphs' = Append(graphs, [NoGraph EXCEPT !.app = call.app])
    /\ UNCHANGED <<stage, crawl, plan, recorded, before>>

PlanStep ==
    Validate \/ PageStructure \/ SaveInventory \/ RepoFallsBack \/ PlannerRaises
    \/ RepoAnswers \/ PlanHeuristic \/ PlanWithoutKey \/ LlmPlans \/ LlmFails \/ Gate
    \/ ReadPrevious \/ ReadRecorded \/ SaveGraph \/ LinkJourneys

Init ==
    /\ CrawlInit
    /\ flows = <<>> /\ journeys = {} /\ known = {}
    /\ quality = [fallback |-> FALSE, passed |-> FALSE]
    /\ previous = 0 /\ mine = 0 /\ others = 0
    /\ RecordInit /\ job \in Meanwhile(call)
    /\ \E e \in Earlier(call) : recorded = e.recorded /\ graphs = e.graphs
    /\ before = Range(recorded)

Crawling(A) == A /\ UNCHANGED <<plan, store, before, recording>>
RecordingOnly(A) == A /\ UNCHANGED <<stage, crawl, plan, graphs, others, before>>

Next ==
    \/ Crawling(CrawlNext)
    \/ (PlanStep \/ OtherRecords \/ OtherSavesGraph) /\ UNCHANGED recording
    \/ RecordingOnly(RecordNext)

Spec == Init /\ [][Next]_vars

\* The calls run on; a worker that can move moves, and so does the screenshot
\* task.  Visits end: goto and the wait for the page have timeouts, its scripts
\* are taken to return.  The agent's steps are bounded.
FairSpec ==
    /\ Spec
    /\ WF_vars(Crawling(CallStep) \/ (PlanStep /\ UNCHANGED recording))
    /\ \A w \in Slots : WF_vars(Crawling(WorkerStep(w)))
    /\ WF_vars(RecordingOnly(RecordStep)) /\ WF_vars(RecordingOnly(PollStep))

-----------------------------------------------------------------------------
(* Properties *)

Answered == stage = "answered"

\* The journeys of this application with a recording.
Done(recordings) == {r.key : r \in {x \in recordings : x.app = call.app}}

\* What a discovery that answers delivers, whatever pages, LLM, database and
\* other calls did: three to eight flows, which pass the gate only with a flow
\* of its own; on a storefront a revenue flow, unless the list is full, the site
\* was shallow or a flow has its name; a graph compared with an older one, which
\* has every planned journey and every one recorded before the call began, the
\* latter as covered, none as covered that has no recording, and every planned
\* critical one without a recording among the uncovered critical ones.
DiscoveryDelivers ==
    Answered =>
        /\ Planner =>
             /\ Len(flows) \in 3..8
             /\ quality.passed => ~(Names(flows) \subseteq Names(GenericFlows))
             /\ Storefront(Inventory.tokens) /\ Len(flows) < 8 /\ ~Shallow(Inventory)
                   => \E f \in Range(flows) : f.crit = "revenue" \/ f.name = "checkout_purchase"
        /\ ReadsDb =>
             LET told == graphs[mine].journeys
                 done == Done(Range(recorded))
             IN /\ previous < mine
                /\ {f.key : f \in Range(flows)} \cup Done(before) \subseteq {j.key : j \in told}
                /\ \A j \in told : (j.key \in Done(before) => j.covered) /\ (j.covered => j.key \in done)
                /\ \A f \in Range(flows) : f.crit \in Critical /\ f.key \notin done
                      => f.key \in {j.key : j \in UncoveredCritical(graphs[mine])}
        /\ \A j \in journeys : j.flow # 0 => \E r \in Range(recorded) : r.id = j.flow
============================================================================
