---------------------------- MODULE SiteCrawl ----------------------------
(***************************************************************************)
(* inventory_site: one page visits the start page and the seeds, then a    *)
(* few workers drain a frontier of links under one asyncio.Condition.      *)
(*                                                                         *)
(* What runs inside `async with condition` up to the wait is one action:   *)
(* it awaits nothing.  The visit of a page is a step of its own, and every *)
(* visit may fail.  Which of the candidates _choose_next_work_item takes   *)
(* depends on the words in their URLs: any of them here.                   *)
(***************************************************************************)
EXTENDS Naturals, FiniteSets, SequencesExt

CONSTANTS
    Asked,      \* the calls: a site, see Site, with the arguments of the tool
    Urls,       \* the URLs on its pages
    Slots,      \* numbers of workers, 1..n
    Tiers,      \* the rows of _adaptive_budget, the strongest first:
                \* [signals |-> 8, more |-> 12, cap |-> 40], then 4, 6, 30
    MaxDeaths   \* bound: deaths of the browser

ASSUME CrawlAssumption ==
    /\ Slots \subseteq Nat \ {0} /\ IsFiniteSet(Slots) /\ 1 \in Slots
    /\ MaxDeaths \in Nat
    /\ Tiers \in Seq([signals : Nat \ {0}, more : Nat, cap : Nat])
    /\ \A c \in Asked :
          /\ c.start \in Urls /\ c.seeds \in Seq(Urls) /\ c.allowed \subseteq Urls
          /\ c.links \in [Urls -> Seq(Urls)]
          /\ c.pages \in Nat /\ c.depth \in Nat /\ c.concurrency \in Nat
          /\ IsFiniteSet(UNION {c.signals[u] : u \in Urls})

VARIABLES
    call,       \* what was asked, and the site as it is
    stage,      \* how far the call is
    todo,       \* bootstrap_urls left
    frontier,   \* frontier and frontier_urls, as [url, depth]
    visited, inflight,
    crawled,    \* crawled_pages
    scheduled,  \* scheduled_pages
    budget,     \* adaptive_max_pages
    worker,     \* [pc, item] of each worker_loop
    alive,      \* the browser that was acquired is connected
    \* history and bounds
    pages,      \* the results absorbed, as [url, depth]
    tries,      \* how often the crawl of a URL has begun
    deaths

crawl == <<call, todo, frontier, visited, inflight, crawled, scheduled, budget,
           worker, alive, pages, tries, deaths>>

\* What _extract_page_inventory finds on a page decides what comes after it:
\* its links, the area of its path, the signals in its texts.
Site == [links |-> call.links, area |-> call.area, signals |-> call.signals]

AtMost(a, b) == IF a <= b THEN a ELSE b
AtLeast(a, b) == IF a >= b THEN a ELSE b
Nothing == [url |-> call.start, depth |-> 0]
CrawlStages == {"acquire", "bootstrap", "workers"}
WorkerPcs == {"off", "open", "look", "wait", "visit", "done", "broken"}

-----------------------------------------------------------------------------
(* The page budget, and which page is next *)

\* max_pages may shrink: the caps also hold for a caller who asked for more.
AdaptiveBudget(base, signals) ==
    LET met == {i \in DOMAIN Tiers : signals >= Tiers[i].signals}
        tier == Tiers[CHOOSE i \in met : \A j \in met : i <= j]
    IN IF met = {} THEN base ELSE AtMost(tier.cap, base + tier.more)

SignalsOf(results) == UNION {Site.signals[p.url] : p \in results}
AreaPages(a) == Cardinality({p \in pages : Site.area[p.url] = a})

WorkerCount ==
    LET auto == IF call.signedIn THEN 2 ELSE 3
    IN AtLeast(1, AtMost(IF call.concurrency > 0 THEN call.concurrency ELSE auto, call.pages))

Candidates ==
    LET count(i) == AreaPages(Site.area[i.url])
        unexplored == {i \in frontier : count(i) = 0}
    IN IF unexplored # {} THEN unexplored
       ELSE {i \in frontier : \A j \in frontier : count(i) <= count(j)}

-----------------------------------------------------------------------------
(* What a visited page leaves *)

UrlAllowed(u) == u \in call.allowed
KnownUrls == visited \cup inflight \cup {i.url : i \in frontier}

\* urlparse raises on some hrefs ("http://["): the links after it are lost and
\* the exception leaves _absorb_result.
Follows(item) == item.depth < call.depth
Raises(item) ==
    Follows(item) /\ \E u \in Range(Site.links[item.url]) : u \in call.unparsable
Read(links) ==
    LET bad == {k \in DOMAIN links : links[k] \in call.unparsable}
    IN {links[k] : k \in {k \in DOMAIN links : \A b \in bad : k < b}}

\* Mutated form: the page that was found counts as one more hop.
DiscoveredLate(item) ==
    IF item.depth + 1 >= call.depth THEN {}
    ELSE {[url |-> u, depth |-> item.depth + 1] :
              u \in {v \in Read(Site.links[item.url]) \ {item.url} : UrlAllowed(v) /\ v \notin KnownUrls}}

Discovered(item) ==
    IF ~Follows(item) THEN {}
    ELSE {[url |-> u, depth |-> item.depth + 1] :
              u \in {v \in Read(Site.links[item.url]) \ {item.url} : UrlAllowed(v) /\ v \notin KnownUrls}}

\* _absorb_result of a result without an error.
Absorb(item) ==
    /\ crawled' = crawled + 1
    /\ pages' = pages \cup {item}
    /\ budget' = AdaptiveBudget(call.pages, Cardinality(SignalsOf(pages')))
    /\ frontier' = frontier \cup Discovered(item)

AbsorbError == UNCHANGED <<crawled, pages, budget, frontier>>

Try(u) == tries' = [tries EXCEPT ![u] = @ + 1]

-----------------------------------------------------------------------------
(* The pool and the bootstrap page *)

\* BROWSER_POOL.acquire: a browser that is gone is launched again.
Acquire ==
    /\ stage = "acquire"
    /\ \/ stage' = "bootstrap" /\ alive' = TRUE
       \/ stage' = "failed" /\ UNCHANGED alive
    /\ UNCHANGED <<call, todo, frontier, visited, inflight, crawled, scheduled,
                   budget, worker, pages, tries, deaths>>

BrowserDies ==
    /\ alive /\ deaths < MaxDeaths
    /\ stage \in CrawlStages
    /\ alive' = FALSE
    /\ deaths' = deaths + 1
    /\ UNCHANGED <<stage, call, todo, frontier, visited, inflight, crawled,
                   scheduled, budget, worker, pages, tries>>

Booting == stage = "bootstrap" /\ call.tool # "structure" /\ todo # <<>>
Boot == [url |-> Head(todo), depth |-> 0]

\* The start page among the seeds is left out of bootstrap_urls; here it is
\* skipped when its turn comes again, for the reason it had or as visited.
SkipBootstrap ==
    /\ Booting
    /\ \/ crawled >= budget
       \/ call.pattern = "fine" /\ (~UrlAllowed(Boot.url) \/ Boot.url \in visited)
    /\ todo' = Tail(todo)
    /\ UNCHANGED <<stage, call, frontier, visited, inflight, crawled, scheduled,
                   budget, worker, alive, pages, tries, deaths>>

\* re.search of a pattern nobody compiled before.
PatternRaises ==
    /\ Booting /\ call.pattern = "bad" /\ crawled < budget
    /\ stage' = "failed"
    /\ UNCHANGED crawl

\* Only visited is looked up: a seed the start page links to is also in the
\* frontier, and a worker will visit it again.
VisitBootstrap(ok) ==
    /\ Booting /\ call.pattern = "fine"
    /\ crawled < budget /\ UrlAllowed(Boot.url) /\ Boot.url \notin visited
    /\ visited' = visited \cup {Boot.url}
    /\ Try(Boot.url)
    /\ todo' = Tail(todo)
    /\ IF ok THEN alive /\ Absorb(Boot) /\ scheduled' = scheduled + 1
       ELSE AbsorbError /\ UNCHANGED scheduled
    /\ stage' = IF ok /\ Raises(Boot) THEN "failed" ELSE stage
    /\ UNCHANGED <<call, inflight, worker, alive, deaths>>

StartWorkers ==
    /\ stage = "bootstrap" /\ call.tool # "structure" /\ todo = <<>>
    /\ IF frontier # {} /\ crawled < budget
       THEN /\ stage' = "workers"
            /\ worker' = [w \in Slots |->
                  IF w <= AtMost(WorkerCount, Cardinality(frontier))
                  THEN [worker[w] EXCEPT !.pc = "open"] ELSE worker[w]]
       ELSE stage' = "crawled" /\ UNCHANGED worker
    /\ UNCHANGED <<call, todo, frontier, visited, inflight, crawled, scheduled,
                   budget, alive, pages, tries, deaths>>

-----------------------------------------------------------------------------
(* worker_loop *)

At(w, pc) == worker[w].pc = pc
Goto(w, pc) == worker' = [worker EXCEPT ![w].pc = pc]
\* gather raises what the first worker raised; the others go on, unobserved.
GatherRaises == stage' = IF stage = "workers" THEN "failed" ELSE stage

OpenPage(w) ==
    /\ At(w, "open")
    /\ \/ alive /\ Goto(w, "look") /\ UNCHANGED stage
       \/ Goto(w, "broken") /\ GatherRaises
    /\ UNCHANGED <<call, todo, frontier, visited, inflight, crawled, scheduled,
                   budget, alive, pages, tries, deaths>>

Finished == (crawled >= budget \/ frontier = {}) /\ inflight = {}
Takes == ~(crawled >= budget /\ inflight = {}) /\ frontier # {} /\ scheduled < budget

Take(w) ==
    /\ At(w, "look") /\ Takes
    /\ \E item \in Candidates :
          /\ frontier' = frontier \ {item}
          /\ inflight' = inflight \cup {item.url}
          /\ visited' = visited \cup {item.url}
          /\ worker' = [worker EXCEPT ![w] = [pc |-> "visit", item |-> item]]
          /\ Try(item.url)
    /\ scheduled' = scheduled + 1
    /\ UNCHANGED <<stage, call, todo, crawled, budget, alive, pages, deaths>>

Return(w) ==
    /\ At(w, "look") /\ Finished
    /\ Goto(w, "done")
    /\ UNCHANGED <<stage, call, todo, frontier, visited, inflight, crawled,
                   scheduled, budget, alive, pages, tries, deaths>>

Wait(w) ==
    /\ At(w, "look") /\ ~Takes /\ ~Finished
    /\ Goto(w, "wait")
    /\ UNCHANGED <<stage, call, todo, frontier, visited, inflight, crawled,
                   scheduled, budget, alive, pages, tries, deaths>>

\* notify_all, and the worker itself goes round its loop.
Notify(w) ==
    worker' = [v \in Slots |-> IF v = w \/ At(v, "wait")
                               THEN [worker[v] EXCEPT !.pc = "look"] ELSE worker[v]]

Succeed(w) ==
    /\ At(w, "visit") /\ alive
    /\ inflight' = inflight \ {worker[w].item.url}
    /\ Absorb(worker[w].item)
    /\ IF Raises(worker[w].item)
       THEN Goto(w, "broken") /\ GatherRaises
       ELSE Notify(w) /\ UNCHANGED stage
    /\ UNCHANGED <<call, todo, visited, scheduled, alive, tries, deaths>>

\* Mutated form: a page that failed keeps its place in the budget.
GiveBackNothing == scheduled

GiveBack == AtLeast(crawled, scheduled - 1)

\* Mutated form: only a page that could be read is reported to the others.
FailUnnoticed(w) ==
    /\ At(w, "visit")
    /\ inflight' = inflight \ {worker[w].item.url}
    /\ AbsorbError
    /\ scheduled' = GiveBack
    /\ Goto(w, "look")
    /\ UNCHANGED <<stage, call, todo, visited, alive, tries, deaths>>

\* A result with an error: both attempts at goto failed, or the page's scripts.
Fail(w) ==
    /\ At(w, "visit")
    /\ inflight' = inflight \ {worker[w].item.url}
    /\ AbsorbError
    /\ scheduled' = GiveBack
    /\ Notify(w)
    /\ UNCHANGED <<stage, call, todo, visited, alive, tries, deaths>>

Gathered ==
    /\ stage = "workers"
    /\ \A w \in Slots : worker[w].pc \in {"off", "done"}
    /\ stage' = "crawled"
    /\ UNCHANGED crawl

WorkerStep(w) ==
    OpenPage(w) \/ Take(w) \/ Return(w) \/ Wait(w) \/ Succeed(w) \/ Fail(w)

CallStep ==
    Acquire \/ SkipBootstrap \/ PatternRaises \/ (\E ok \in BOOLEAN : VisitBootstrap(ok))
    \/ StartWorkers \/ Gathered

CrawlNext == CallStep \/ (\E w \in Slots : WorkerStep(w)) \/ BrowserDies

CrawlInit ==
    /\ call \in Asked
    /\ stage = "asked"
    /\ todo = <<call.start>> \o call.seeds
    /\ frontier = {} /\ visited = {} /\ inflight = {} /\ pages = {}
    /\ crawled = 0 /\ scheduled = 0 /\ budget = call.pages
    /\ worker = [w \in Slots |-> [pc |-> "off", item |-> Nothing]]
    /\ alive = FALSE
    /\ tries = [u \in Urls |-> 0]
    /\ deaths = 0

-----------------------------------------------------------------------------
(* Properties *)

Visitors == {w \in Slots : At(w, "visit")}
Bootstrapped == {call.start} \cup Range(call.seeds)
Seeds == Bootstrapped \cap call.allowed
Broken == \E w \in Slots : At(w, "broken")
Budgets == {AdaptiveBudget(call.pages, n) :
                n \in 0..Cardinality(UNION {Site.signals[u] : u \in Urls})}

\* The bookkeeping of the crawl agrees with what the workers do: each URL in
\* flight has one worker, the schedule is the pages absorbed and those in
\* flight, no URL is crawled twice but a seed the frontier knew already, and no
\* more pages are scheduled than the largest budget allows.  That is the budget
\* _adaptive_budget comes to: max_pages is where it starts, and no cap, though
\* README.md:557 and :1187 call it one.
CrawlAddsUp ==
    /\ inflight = {worker[w].item.url : w \in Visitors}
    /\ Cardinality(inflight) = Cardinality(Visitors)
    /\ scheduled = crawled + Cardinality(inflight)
    /\ inflight \subseteq visited /\ {i.url : i \in frontier} \cap inflight = {}
    /\ \A u \in Urls : tries[u] <= IF u \in Bootstrapped THEN 2 ELSE 1
    /\ \E most \in Budgets : scheduled <= most
    /\ {p.url : p \in pages} \cup {i.url : i \in frontier} \subseteq call.allowed

\* Where the pages that could be read lead to.
Ways == [u \in Urls |-> IF u \in {p.url : p \in pages}
                        THEN Range(Site.links[u]) \cap call.allowed ELSE {}]

\* What is at most n hops away from a set of URLs.
Hops(from, ways) ==
    LET near[n \in Nat] ==
            IF n = 0 THEN from ELSE near[n - 1] \cup UNION {ways[u] : u \in near[n - 1]}
    IN near

\* Seeds that could not be read as seeds, but as links: they are as deep as the
\* page that links to them is.
ReadLate == {p.url : p \in {p \in pages : p.url \in Bootstrapped /\ p.depth > 0}}
            \ {p.url : p \in {p \in pages : p.depth = 0}}

\* A crawl that ended with budget to spare has tried every URL within
\* max_depth hops of a seed, and a crawl never tries others.  (Up to two hops: a
\* URL first seen on a longer way keeps that depth, which matters from three on.)
\* A seed has depth 0, so that max_depth 1 tries the pages the start page links
\* to: README.md:556 calls that 2, and 1 "homepage only".
CrawlCovers ==
    /\ {u \in Urls : tries[u] > 0} \subseteq Hops(Seeds, Ways)[call.depth]
    /\ stage = "crawled" /\ crawled < budget /\ call.depth <= 2
          => \A u \in Hops(Seeds \ ReadLate, Ways)[call.depth] : tries[u] > 0

\* A call is answered or raises, and no worker waits for a page nobody visits -
\* unless another one raised, whose exception skips the notification.
CrawlEnds ==
    /\ []<>(stage \notin CrawlStages)
    /\ \A w \in Slots : At(w, "wait") ~> (~At(w, "wait") \/ Broken)
============================================================================
