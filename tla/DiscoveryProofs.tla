-------------------------- MODULE DiscoveryProofs --------------------------
(***************************************************************************)
(* Proofs about a discovery, for any site, any number of workers, any      *)
(* budget, any answers of the LLM and any other calls meanwhile: the       *)
(* bookkeeping of the crawl adds up (CrawlAddsUp), it tries what it should *)
(* and nothing else (CrawlCovers), and what the call answers is what a     *)
(* discovery promises (DiscoveryDelivers).                                 *)
(***************************************************************************)
EXTENDS Discovery, FiniteSetTheorems, SequenceTheorems, WellFoundedInduction, TLAPS

-----------------------------------------------------------------------------
(* The inductive invariant of the crawl *)

Items == [url : Urls, depth : Nat]
UrlsOf(items) == {i.url : i \in items}

\* Before StartWorkers no worker runs.
Before == {"asked", "acquire", "bootstrap"}

CrawlTypeOK ==
    /\ call \in Asked
    /\ todo \in Seq(Bootstrapped)
    /\ frontier \subseteq Items /\ pages \subseteq Items
    /\ crawled \in Nat /\ scheduled \in Nat
    /\ worker \in [Slots -> [pc : WorkerPcs, item : Items]]
    /\ tries \in [Urls -> Nat]

\* The budget is one of those there can be, and was not exceeded.
BudgetOK == budget \in Budgets /\ \E most \in Budgets : scheduled <= most

\* What the workers visit.
WorkersOK ==
    /\ inflight = {worker[w].item.url : w \in Visitors}
    /\ \A v, w \in Visitors : worker[v].item.url = worker[w].item.url => v = w
    /\ stage \in Before => \A w \in Slots : At(w, "off")

\* A page is scheduled as long as it is in flight, and for good when absorbed.
ScheduleOK == IsFiniteSet(inflight) /\ scheduled = crawled + Cardinality(inflight)

FrontierOK ==
    /\ \A i, j \in frontier : i.url = j.url => i = j
    /\ UrlsOf(frontier) \cap inflight = {}
    /\ inflight \subseteq visited
    /\ inflight \cup UrlsOf(frontier) \cup UrlsOf(pages) \subseteq call.allowed

\* The frontier may hold a URL that was tried, when it is a seed.
TriesOK ==
    \A u \in Urls :
        /\ u \notin visited => tries[u] = 0
        /\ tries[u] <= IF u \in Bootstrapped THEN 2 ELSE 1
        /\ u \in UrlsOf(frontier) => tries[u] <= 1
        /\ u \in UrlsOf(frontier) /\ u \in visited => u \in Bootstrapped

CrawlInv ==
    CrawlTypeOK /\ BudgetOK /\ WorkersOK /\ ScheduleOK /\ FrontierOK /\ TriesOK

-----------------------------------------------------------------------------
(* The page budget *)

\* A set of numbers that is not empty has a least one: the first tier that is
\* met is there to be chosen.
LEMMA LeastExists ==
    ASSUME NEW S \in SUBSET Nat, S # {}
    PROVE  \E x \in S : \A y \in S : x <= y
<1> DEFINE Less == OpToRel(<, Nat)
<1>1. IsWellFoundedOn(Less, Nat)
    BY NatLessThanWellFounded
<1>2. \A x, y \in Nat : x < y => <<x, y>> \in Less
    BY DEF OpToRel
<1> HIDE DEF Less
<1>3. PICK x \in S : \A y \in S : ~ (<<y, x>> \in Less)
    BY <1>1, WFMin
<1>4. \A y \in S : ~ (y < x)
    BY <1>2, <1>3
<1> QED
    BY <1>4

\* The rows of _adaptive_budget.
LEMMA TierRows ==
    /\ DOMAIN Tiers = 1..Len(Tiers) /\ Len(Tiers) \in Nat
    /\ \A i \in DOMAIN Tiers : Tiers[i] \in [signals : Nat \ {0}, more : Nat, cap : Nat]
<1> DEFINE Rows == [signals : Nat \ {0}, more : Nat, cap : Nat]
<1>1. Tiers \in Seq(Rows)
    BY CrawlAssumption, Zenon
<1> HIDE DEF Rows
<1>2. /\ DOMAIN Tiers = 1..Len(Tiers) /\ Len(Tiers) \in Nat
      /\ \A i \in DOMAIN Tiers : Tiers[i] \in Rows
    BY <1>1
<1> QED
    BY <1>2 DEF Rows

\* _adaptive_budget returns a number, whatever was found.
LEMMA BudgetIsNatural ==
    ASSUME NEW base \in Nat, NEW n \in Nat
    PROVE  AdaptiveBudget(base, n) \in Nat
<1> DEFINE met == {i \in DOMAIN Tiers : n >= Tiers[i].signals}
           first == CHOOSE i \in met : \A j \in met : i <= j
           tier == Tiers[first]
<1>1. CASE met = {}
    BY <1>1 DEF AdaptiveBudget
<1>2. CASE met # {}
    <2>1. met \subseteq Nat
        BY TierRows
    <2>2. \E i \in met : \A j \in met : i <= j
        BY <1>2, <2>1, LeastExists
    <2>3. first \in met
        BY <2>2
    <2>4. tier \in [signals : Nat \ {0}, more : Nat, cap : Nat]
        BY <2>3, TierRows
    <2>5. AtMost(tier.cap, base + tier.more) \in Nat
        BY <2>4 DEF AtMost
    <2> QED
        BY <1>2, <2>5 DEF AdaptiveBudget
<1> QED
    BY <1>1, <1>2

\* Without a signal the budget is what was asked for.
LEMMA BudgetAtFirst ==
    ASSUME NEW base \in Nat
    PROVE  AdaptiveBudget(base, 0) = base
<1>1. {i \in DOMAIN Tiers : 0 >= Tiers[i].signals} = {}
    BY TierRows
<1> QED
    BY <1>1 DEF AdaptiveBudget

\* Each budget of the call is a number, what was asked for is one of them, and
\* so is that of any pages of the site.
LEMMA BudgetsOfTheCall ==
    ASSUME call \in Asked
    PROVE  /\ Budgets \subseteq Nat
           /\ call.pages \in Budgets
           /\ \A results : UrlsOf(results) \subseteq call.allowed
                 => AdaptiveBudget(call.pages, Cardinality(SignalsOf(results))) \in Budgets
<1> DEFINE all == UNION {Site.signals[u] : u \in Urls}
           most == Cardinality(all)
<1>1. call.pages \in Nat /\ call.allowed \subseteq Urls /\ IsFiniteSet(all)
    BY CrawlAssumption DEF Site
<1>2. most \in Nat
    BY <1>1, FS_CardinalityType
<1>3. Budgets = {AdaptiveBudget(call.pages, n) : n \in 0..most}
    BY Zenon DEF Budgets
<1>4. \A results : UrlsOf(results) \subseteq call.allowed => SignalsOf(results) \in SUBSET all
    BY <1>1 DEF SignalsOf, UrlsOf
<1>5. \A S \in SUBSET all : Cardinality(S) \in Nat /\ Cardinality(S) <= most
    BY <1>1, FS_Subset, FS_CardinalityType
<1> HIDE DEF all, most
<1>6. Budgets \subseteq Nat
    <2>1. \A n \in Nat : AdaptiveBudget(call.pages, n) \in Nat
        BY <1>1, BudgetIsNatural
    <2> QED
        BY <1>2, <1>3, <2>1
<1>7. call.pages \in Budgets
    <2>1. call.pages = AdaptiveBudget(call.pages, 0)
        BY <1>1, BudgetAtFirst
    <2> QED
        BY <1>2, <1>3, <2>1
<1>8. ASSUME NEW results, UrlsOf(results) \subseteq call.allowed
      PROVE  AdaptiveBudget(call.pages, Cardinality(SignalsOf(results))) \in Budgets
    <2>1. SignalsOf(results) \in SUBSET all
        BY <1>8, <1>4
    <2>2. Cardinality(SignalsOf(results)) \in 0..most
        BY <1>2, <1>5, <2>1
    <2> QED
        BY <1>3, <2>2
<1> QED
    BY <1>6, <1>7, <1>8

-----------------------------------------------------------------------------
(* What a page leaves, and the workers *)

\* _enqueue_url: what a page adds to the frontier is allowed and was nowhere,
\* and no URL is added twice.
LEMMA DiscoveredIsNew ==
    ASSUME NEW item \in Items, call \in Asked
    PROVE  /\ Discovered(item) \subseteq Items
           /\ UrlsOf(Discovered(item)) \subseteq call.allowed \ (KnownUrls \cup {item.url})
           /\ \A i, j \in Discovered(item) : i.url = j.url => i = j
<1>1. call.allowed \subseteq Urls
    BY CrawlAssumption
<1>2. item.depth + 1 \in Nat
    BY DEF Items
<1>3. \A i \in Discovered(item) : \E u \in call.allowed \ (KnownUrls \cup {item.url}) :
          i = [url |-> u, depth |-> item.depth + 1]
    BY DEF Discovered, UrlAllowed
<1> QED
    BY <1>1, <1>2, <1>3 DEF Items, UrlsOf

\* A step that leaves the pages and the frontier alone, but may take items out
\* of the frontier, leaves them as they should be.
LEMMA SameFrontier ==
    ASSUME FrontierOK, frontier' \subseteq frontier, UNCHANGED <<pages, call>>,
           inflight' \subseteq inflight, visited \subseteq visited'
    PROVE  FrontierOK'
BY DEF FrontierOK, UrlsOf

\* A step in which nobody begins or ends a visit leaves the workers as they
\* should be.
LEMMA SameVisitors ==
    ASSUME WorkersOK, UNCHANGED inflight, stage' \in Before => stage \in Before,
           stage' \in Before => \A w \in Slots : At(w, "off")',
           \A w \in Slots : At(w, "visit")' <=> At(w, "visit"),
           \A w \in Visitors : worker'[w].item = worker[w].item
    PROVE  WorkersOK'
<1>1. Visitors' = Visitors
    BY DEF Visitors
<1> QED
    BY <1>1 DEF WorkersOK

\* A step that begins no crawl of a page leaves the counts of them alone, when
\* the frontier has not grown.
LEMMA SameTries ==
    ASSUME TriesOK, UNCHANGED <<tries, visited, call>>, frontier' \subseteq frontier
    PROVE  TriesOK'
BY DEF TriesOK, UrlsOf, Bootstrapped

\* The budgets there can be are those of the call.
LEMMA SameBudgets ==
    ASSUME UNCHANGED call
    PROVE  Budgets' = Budgets
BY DEF Budgets, AdaptiveBudget, Site

\* The rest of the bookkeeping, when nothing is scheduled or absorbed.
LEMMA SameSchedule ==
    ASSUME BudgetOK, ScheduleOK, UNCHANGED <<budget, scheduled, crawled, inflight, call>>
    PROVE  BudgetOK' /\ ScheduleOK'
BY SameBudgets DEF BudgetOK, ScheduleOK

\* _absorb_result leaves a frontier and counts as they should be: what it adds
\* was neither visited nor in flight.
LEMMA AbsorbKeeps ==
    ASSUME CrawlTypeOK, FrontierOK, BudgetOK, UNCHANGED call,
           NEW item \in Items, item.url \in call.allowed, Absorb(item),
           visited' = visited \cup {item.url}, inflight' \subseteq inflight
    PROVE  /\ FrontierOK'
           /\ budget' \in Budgets'
           /\ frontier' \subseteq Items /\ pages' \subseteq Items /\ crawled' \in Nat
           /\ \A u \in UrlsOf(frontier') : u \in UrlsOf(frontier) \/ u \notin visited'
<1>1. call \in Asked /\ crawled \in Nat /\ frontier \subseteq Items /\ pages \subseteq Items
    BY DEF CrawlTypeOK
<1>2. /\ Discovered(item) \subseteq Items
      /\ UrlsOf(Discovered(item)) \subseteq call.allowed \ (KnownUrls \cup {item.url})
      /\ \A i, j \in Discovered(item) : i.url = j.url => i = j
    BY <1>1, DiscoveredIsNew
<1>3. /\ crawled' = crawled + 1
      /\ pages' = pages \cup {item}
      /\ frontier' = frontier \cup Discovered(item)
      /\ budget' = AdaptiveBudget(call.pages, Cardinality(SignalsOf(pages')))
    BY DEF Absorb
<1>4. FrontierOK'
    <2>1. \A i, j \in frontier' : i.url = j.url => i = j
        BY <1>2, <1>3 DEF FrontierOK, KnownUrls, UrlsOf
    <2>2. UrlsOf(frontier)' = UrlsOf(frontier) \cup UrlsOf(Discovered(item))
        BY <1>3 DEF UrlsOf
    <2>3. UrlsOf(pages)' = UrlsOf(pages) \cup {item.url}
        BY <1>3 DEF UrlsOf
    <2>4. UrlsOf(Discovered(item)) \cap (visited \cup inflight) = {}
        BY <1>2 DEF KnownUrls
    <2> QED
        BY <1>2, <2>1, <2>2, <2>3, <2>4 DEF FrontierOK
<1>5. budget' \in Budgets'
    <2>1. UrlsOf(pages') \subseteq call.allowed
        BY <1>4 DEF FrontierOK
    <2>2. budget' \in Budgets
        BY <1>1, <1>3, <2>1, BudgetsOfTheCall
    <2> QED
        BY <2>2, SameBudgets
<1>6. frontier' \subseteq Items /\ pages' \subseteq Items /\ crawled' \in Nat
    BY <1>1, <1>2, <1>3
<1>7. \A u \in UrlsOf(frontier') : u \in UrlsOf(frontier) \/ u \notin visited'
    BY <1>2, <1>3 DEF UrlsOf, KnownUrls
<1> QED
    BY <1>4, <1>5, <1>6, <1>7

-----------------------------------------------------------------------------
(* The steps of the crawl *)

LEMMA CrawlInitHolds == CrawlInit => CrawlInv
<1> SUFFICES ASSUME CrawlInit PROVE CrawlInv
    OBVIOUS
<1> USE DEF CrawlInit
<1>1. /\ call \in Asked /\ call.start \in Urls /\ call.seeds \in Seq(Urls)
      /\ call.pages \in Nat /\ call.depth \in Nat
    BY CrawlAssumption
<1>2. Visitors = {}
    BY DEF Visitors, At
<1>3. CrawlTypeOK
    <2>1. call.seeds \in Seq(Range(call.seeds))
        <3>1. /\ Len(call.seeds) \in Nat /\ DOMAIN call.seeds = 1..Len(call.seeds)
              /\ call.seeds = [i \in 1..Len(call.seeds) |-> call.seeds[i]]
            BY <1>1
        <3>2. \A i \in 1..Len(call.seeds) : call.seeds[i] \in Range(call.seeds)
            BY <3>1 DEF Range
        <3>3. call.seeds \in [1..Len(call.seeds) -> Range(call.seeds)]
            BY <3>1, <3>2, Zenon
        <3> QED
            BY <3>1, <3>3, SeqDef
    <2>2. <<call.start>> \in Seq(Bootstrapped) /\ call.seeds \in Seq(Bootstrapped)
        BY <2>1 DEF Bootstrapped
    <2>3. todo \in Seq(Bootstrapped)
        BY <2>2
    <2>4. worker \in [Slots -> [pc : WorkerPcs, item : Items]]
        BY <1>1 DEF WorkerPcs, Items, Nothing
    <2> QED
        BY <1>1, <2>3, <2>4 DEF CrawlTypeOK
<1>4. BudgetOK
    BY <1>1, BudgetsOfTheCall DEF BudgetOK
<1>5. WorkersOK
    BY <1>2 DEF WorkersOK, At
<1>6. ScheduleOK
    BY FS_EmptySet DEF ScheduleOK
<1>7. FrontierOK
    BY DEF FrontierOK, UrlsOf
<1>8. TriesOK
    BY DEF TriesOK, UrlsOf
<1> QED
    BY <1>3, <1>4, <1>5, <1>6, <1>7, <1>8 DEF CrawlInv

\* A step that moves only the call, or a worker that neither begins nor ends a
\* visit.
LEMMA MoveKeeps ==
    ASSUME CrawlInv,
           UNCHANGED <<call, frontier, visited, inflight, crawled, scheduled, budget, pages, tries>>,
           todo' \in Seq(Bootstrapped),
           worker' \in [Slots -> [pc : WorkerPcs, item : Items]],
           \A w \in Slots : At(w, "visit")' <=> At(w, "visit"),
           \A w \in Visitors : worker'[w].item = worker[w].item,
           stage' \in Before => stage \in Before /\ \A w \in Slots : At(w, "off")'
    PROVE  CrawlInv'
<1> USE DEF CrawlInv
<1>1. Bootstrapped' = Bootstrapped
    BY DEF Bootstrapped
<1>2. CrawlTypeOK'
    BY <1>1 DEF CrawlTypeOK
<1>3. BudgetOK' /\ ScheduleOK'
    BY SameSchedule
<1>4. WorkersOK'
    BY SameVisitors
<1>5. FrontierOK' /\ TriesOK'
    BY SameFrontier, SameTries
<1> QED
    BY <1>2, <1>3, <1>4, <1>5

\* Other steps of the call, of the browser and of the recording beside it.
LEMMA StageKeeps ==
    ASSUME CrawlInv,
           UNCHANGED <<call, todo, frontier, visited, inflight, crawled, scheduled, budget,
                       worker, pages, tries>>,
           stage' \in Before => stage \in Before
    PROVE  CrawlInv'
<1>1. todo' \in Seq(Bootstrapped) /\ worker' \in [Slots -> [pc : WorkerPcs, item : Items]]
    BY DEF CrawlInv, CrawlTypeOK
<1>2. \A w \in Slots, pc \in WorkerPcs : At(w, pc)' <=> At(w, pc)
    BY DEF At
<1>3. stage' \in Before => \A w \in Slots : At(w, "off")'
    BY <1>2 DEF CrawlInv, WorkersOK, WorkerPcs
<1> QED
    BY <1>1, <1>2, <1>3, MoveKeeps DEF WorkerPcs

LEMMA SkipKeeps == CrawlInv /\ SkipBootstrap => CrawlInv'
<1> SUFFICES ASSUME CrawlInv, SkipBootstrap PROVE CrawlInv'
    OBVIOUS
<1>1. todo' \in Seq(Bootstrapped) /\ worker' \in [Slots -> [pc : WorkerPcs, item : Items]]
    BY DEF CrawlInv, CrawlTypeOK, SkipBootstrap, Booting
<1>2. /\ UNCHANGED <<call, frontier, visited, inflight, crawled, scheduled, budget, pages, tries>>
      /\ UNCHANGED <<stage, worker>>
    BY DEF SkipBootstrap
<1>3. \A w \in Slots, pc \in WorkerPcs : At(w, pc)' <=> At(w, pc)
    BY <1>2 DEF At
<1>4. stage' \in Before => \A w \in Slots : At(w, "off")'
    BY <1>2, <1>3 DEF CrawlInv, WorkersOK, WorkerPcs
<1> QED
    BY <1>1, <1>2, <1>3, <1>4, MoveKeeps DEF WorkerPcs

\* A worker that opens its page, returns or waits, and the start of the workers.
LEMMA WorkerMovesKeep ==
    ASSUME CrawlInv,
           StartWorkers \/ \E w \in Slots : OpenPage(w) \/ Return(w) \/ Wait(w)
    PROVE  CrawlInv'
<1>1. /\ todo \in Seq(Bootstrapped)
      /\ worker \in [Slots -> [pc : WorkerPcs, item : Items]]
      /\ stage \in Before => \A w \in Slots : At(w, "off")
    BY DEF CrawlInv, CrawlTypeOK, WorkersOK
<1>2. CASE StartWorkers
    <2>1. UNCHANGED <<call, frontier, visited, inflight, crawled, scheduled, budget, pages, tries, todo>>
        BY <1>2 DEF StartWorkers
    <2>2. stage' \notin Before /\ stage \in Before
        BY <1>2 DEF StartWorkers, Before
    <2>3. worker' \in [Slots -> [pc : WorkerPcs, item : Items]]
        BY <1>1, <1>2 DEF StartWorkers, WorkerPcs
    <2>4. \A w \in Slots : ~ At(w, "visit") /\ ~ At(w, "visit")'
        BY <1>1, <1>2, <2>2 DEF StartWorkers, At
    <2> QED
        BY <1>1, <2>1, <2>2, <2>3, <2>4, MoveKeeps DEF Visitors
<1>3. ASSUME NEW w \in Slots, OpenPage(w) \/ Return(w) \/ Wait(w)
      PROVE  CrawlInv'
    <2>1. UNCHANGED <<call, frontier, visited, inflight, crawled, scheduled, budget, pages, tries, todo>>
        BY <1>3 DEF OpenPage, Return, Wait
    <2>2. ~ At(w, "off") /\ ~ At(w, "visit")
        BY <1>3 DEF OpenPage, Return, Wait, At
    <2>3. stage \notin Before /\ stage' \notin Before
        BY <1>1, <1>3, <2>2 DEF OpenPage, Return, Wait, GatherRaises, Before
    <2>4. PICK pc \in {"look", "broken", "done", "wait"} : worker' = [worker EXCEPT ![w].pc = pc]
        BY <1>3 DEF OpenPage, Return, Wait, Goto
    <2>5. worker' \in [Slots -> [pc : WorkerPcs, item : Items]]
        BY <1>1, <2>4 DEF WorkerPcs
    <2>6. \A v \in Slots : /\ At(v, "visit")' <=> At(v, "visit")
                           /\ worker'[v].item = worker[v].item
        BY <1>1, <2>2, <2>4 DEF At
    <2> QED
        BY <1>1, <2>1, <2>3, <2>5, <2>6, MoveKeeps DEF Visitors
<1> QED
    BY <1>2, <1>3

\* A page that is visited for the bootstrap, while no worker runs: whether it
\* can be read or not, it stays visited.
LEMMA BootstrapKeeps ==
    ASSUME CrawlInv, NEW ok \in BOOLEAN, VisitBootstrap(ok)
    PROVE  CrawlInv'
<1> USE DEF CrawlInv
<1>1. /\ todo \in Seq(Bootstrapped) /\ todo # <<>> /\ call \in Asked
      /\ frontier \subseteq Items /\ pages \subseteq Items
      /\ crawled \in Nat /\ scheduled \in Nat /\ budget \in Nat
      /\ worker \in [Slots -> [pc : WorkerPcs, item : Items]]
      /\ tries \in [Urls -> Nat]
    BY BudgetsOfTheCall DEF CrawlTypeOK, VisitBootstrap, Booting, BudgetOK
<1>2. /\ stage = "bootstrap" /\ stage \in Before
      /\ UNCHANGED <<call, inflight, worker>>
      /\ todo' = Tail(todo)
      /\ crawled < budget
      /\ visited' = visited \cup {Boot.url} /\ Boot.url \notin visited /\ Boot.url \in call.allowed
      /\ tries' = [tries EXCEPT ![Boot.url] = @ + 1]
    BY DEF VisitBootstrap, Booting, Before, Try, UrlAllowed
<1>3. Boot.url \in Bootstrapped /\ Boot.url \in Urls /\ Boot \in Items
    <2>1. Boot = [url |-> Head(todo), depth |-> 0] /\ call.allowed \subseteq Urls
        BY <1>1, CrawlAssumption DEF Boot
    <2>2. Head(todo) \in Bootstrapped
        BY <1>1
    <2> QED
        BY <1>2, <2>1, <2>2 DEF Items
<1>4. \A w \in Slots : At(w, "off") /\ At(w, "off")'
    BY <1>2 DEF WorkersOK, At
<1>5. inflight = {} /\ scheduled = crawled
    BY <1>1, <1>4, FS_EmptySet DEF WorkersOK, Visitors, At, ScheduleOK
<1>6. Bootstrapped' = Bootstrapped /\ Budgets' = Budgets
    BY <1>2, SameBudgets DEF Bootstrapped
<1>7. WorkersOK'
    <2>1. Visitors' = {} /\ inflight' = {}
        BY <1>2, <1>4, <1>5 DEF Visitors, At
    <2> QED
        BY <1>4, <2>1 DEF WorkersOK
<1>8. CASE ok
    <2>1. Absorb(Boot) /\ scheduled' = scheduled + 1 /\ crawled' = crawled + 1
        BY <1>8 DEF VisitBootstrap, Absorb
    <2>2. /\ FrontierOK' /\ budget' \in Budgets'
          /\ frontier' \subseteq Items /\ pages' \subseteq Items /\ crawled' \in Nat
          /\ \A u \in UrlsOf(frontier') : u \in UrlsOf(frontier) \/ u \notin visited'
        BY <1>2, <1>3, <2>1, AbsorbKeeps
    <2>3. BudgetOK'
        BY <1>1, <1>2, <1>5, <1>6, <2>1, <2>2 DEF BudgetOK
    <2>4. ScheduleOK'
        BY <1>1, <1>2, <1>5, <2>1, FS_EmptySet DEF ScheduleOK
    <2>5. TriesOK'
        BY <1>1, <1>2, <1>3, <1>6, <2>2 DEF TriesOK
    <2>6. CrawlTypeOK'
        BY <1>1, <1>2, <1>3, <1>6, <2>1, <2>2 DEF CrawlTypeOK
    <2> QED
        BY <1>7, <2>2, <2>3, <2>4, <2>5, <2>6
<1>9. CASE ~ ok
    <2>1. UNCHANGED <<crawled, pages, budget, frontier, scheduled>>
        BY <1>9 DEF VisitBootstrap, AbsorbError
    <2>2. FrontierOK'
        BY <1>2, <2>1, SameFrontier
    <2>3. BudgetOK' /\ ScheduleOK'
        BY <1>2, <2>1, SameSchedule
    <2>4. TriesOK'
        BY <1>1, <1>2, <1>3, <1>6, <2>1 DEF TriesOK, UrlsOf
    <2>5. CrawlTypeOK'
        BY <1>1, <1>2, <1>3, <1>6, <2>1 DEF CrawlTypeOK
    <2> QED
        BY <1>7, <2>2, <2>3, <2>4, <2>5
<1> QED
    BY <1>8, <1>9

\* A worker that takes the next item of the frontier: the item leaves it and
\* is in flight, its URL was in the hands of no other worker.
LEMMA TakeKeeps ==
    ASSUME CrawlInv, NEW w \in Slots, Take(w)
    PROVE  CrawlInv'
<1> USE DEF CrawlInv
<1>1. /\ call \in Asked /\ frontier \subseteq Items /\ crawled \in Nat /\ scheduled \in Nat
      /\ worker \in [Slots -> [pc : WorkerPcs, item : Items]]
      /\ tries \in [Urls -> Nat] /\ budget \in Budgets /\ budget \in Nat
    BY BudgetsOfTheCall DEF CrawlTypeOK, BudgetOK
<1>2. PICK item \in frontier :
          /\ frontier' = frontier \ {item}
          /\ inflight' = inflight \cup {item.url}
          /\ visited' = visited \cup {item.url}
          /\ worker' = [worker EXCEPT ![w] = [pc |-> "visit", item |-> item]]
          /\ tries' = [tries EXCEPT ![item.url] = @ + 1]
    BY DEF Take, Candidates, Try
<1>3. /\ At(w, "look") /\ scheduled < budget /\ scheduled' = scheduled + 1
      /\ UNCHANGED <<stage, call, todo, crawled, budget, alive, pages, deaths>>
    BY DEF Take, Takes
<1>4. item \in Items /\ item.url \in Urls /\ item.url \in UrlsOf(frontier)
      /\ item.url \in call.allowed /\ item.url \notin inflight
    BY <1>1, <1>2 DEF FrontierOK, UrlsOf, Items
<1>5. item.url \notin UrlsOf(frontier')
    BY <1>2 DEF FrontierOK, UrlsOf
<1>6. Bootstrapped' = Bootstrapped /\ Budgets' = Budgets
    BY <1>3, SameBudgets DEF Bootstrapped
<1>7. CrawlTypeOK'
    BY <1>1, <1>2, <1>3, <1>4, <1>6 DEF CrawlTypeOK, WorkerPcs
<1>8. BudgetOK'
    BY <1>1, <1>3, <1>6 DEF BudgetOK
<1>9. ScheduleOK'
    <2>1. /\ IsFiniteSet(inflight')
          /\ Cardinality(inflight') = Cardinality(inflight) + 1 /\ Cardinality(inflight) \in Nat
        BY <1>2, <1>4, FS_AddElement, FS_CardinalityType DEF ScheduleOK
    <2> QED
        BY <1>1, <1>3, <2>1 DEF ScheduleOK
<1>10. WorkersOK'
    <2>1. /\ worker'[w].pc = "visit" /\ worker'[w].item = item
          /\ \A v \in Slots \ {w} : worker'[v] = worker[v]
        BY <1>1, <1>2
    <2>2. Visitors' = Visitors \cup {w} /\ w \notin Visitors
        BY <1>3, <2>1 DEF Visitors, At
    <2>3. \A v \in Visitors : worker'[v] = worker[v] /\ worker[v].item.url # item.url
        BY <1>4, <2>1, <2>2 DEF WorkersOK, Visitors
    <2>4. inflight' = {worker'[v].item.url : v \in Visitors'}
        BY <1>2, <2>1, <2>2, <2>3 DEF WorkersOK
    <2>5. \A u, v \in Visitors' : worker'[u].item.url = worker'[v].item.url => u = v
        BY <2>1, <2>2, <2>3 DEF WorkersOK
    <2>6. stage' \notin Before
        BY <1>3 DEF WorkersOK, At
    <2> QED
        BY <2>4, <2>5, <2>6 DEF WorkersOK
<1>11. FrontierOK'
    BY <1>2, <1>3, <1>4, <1>5 DEF FrontierOK, UrlsOf
<1>12. TriesOK'
    <2>1. UrlsOf(frontier') = UrlsOf(frontier) \ {item.url}
        BY <1>2, <1>5 DEF UrlsOf
    <2>2. UrlsOf(frontier)' = UrlsOf(frontier') /\ tries[item.url] \in Nat
        BY <1>1, <1>4 DEF UrlsOf
    <2>3. ASSUME NEW u \in Urls, u # item.url
          PROVE  tries'[u] = tries[u] /\ (u \in visited' <=> u \in visited)
        BY <1>1, <1>2, <2>3
    <2>4. /\ tries'[item.url] = tries[item.url] + 1
          /\ tries[item.url] <= 1
          /\ item.url \notin Bootstrapped => tries[item.url] = 0
        BY <1>1, <1>2, <1>4 DEF TriesOK
    <2>5. tries'[item.url] <= IF item.url \in Bootstrapped THEN 2 ELSE 1
        BY <2>2, <2>4
    <2>6. item.url \in visited'
        BY <1>2
    <2> QED
        BY <1>6, <2>1, <2>2, <2>3, <2>5, <2>6 DEF TriesOK
<1> QED
    BY <1>7, <1>8, <1>9, <1>10, <1>11, <1>12

\* When a worker ends its visit its URL leaves the inflight set, and only that.
LEMMA VisitEnds ==
    ASSUME CrawlInv, NEW w \in Slots, At(w, "visit"),
           inflight' = inflight \ {worker[w].item.url},
           \A v \in Slots \ {w} : /\ At(v, "visit")' <=> At(v, "visit")
                                  /\ worker'[v].item = worker[v].item,
           ~ At(w, "visit")', stage' \in Before => stage \in Before
    PROVE  /\ WorkersOK'
           /\ IsFiniteSet(inflight')
           /\ Cardinality(inflight') \in Nat
           /\ scheduled = crawled + Cardinality(inflight') + 1
<1> USE DEF CrawlInv
<1>1. Visitors' = Visitors \ {w} /\ w \in Visitors
    BY DEF Visitors
<1>2. \A v \in Visitors \ {w} : /\ worker'[v].item = worker[v].item
                                /\ worker[v].item.url # worker[w].item.url
    BY <1>1 DEF WorkersOK, Visitors
<1>3. stage \notin Before
    BY DEF WorkersOK, At
<1>4. inflight' = {worker'[v].item.url : v \in Visitors'}
    BY <1>1, <1>2 DEF WorkersOK
<1>5. \A u, v \in Visitors' : worker'[u].item.url = worker'[v].item.url => u = v
    BY <1>1, <1>2 DEF WorkersOK
<1>6. WorkersOK'
    BY <1>3, <1>4, <1>5 DEF WorkersOK
<1>7. worker[w].item.url \in inflight
    BY <1>1 DEF WorkersOK
<1>8. /\ IsFiniteSet(inflight') /\ Cardinality(inflight') \in Nat
      /\ Cardinality(inflight) \in Nat /\ Cardinality(inflight') = Cardinality(inflight) - 1
    BY <1>7, FS_RemoveElement, FS_CardinalityType DEF ScheduleOK
<1> QED
    BY <1>6, <1>8 DEF ScheduleOK, CrawlTypeOK

\* notify_all only wakes workers that wait.
LEMMA NotifyWakes ==
    ASSUME CrawlInv, NEW w \in Slots, At(w, "visit"), Notify(w) \/ Goto(w, "broken")
    PROVE  /\ worker' \in [Slots -> [pc : WorkerPcs, item : Items]]
           /\ \A v \in Slots \ {w} : /\ At(v, "visit")' <=> At(v, "visit")
                                     /\ worker'[v].item = worker[v].item
           /\ ~ At(w, "visit")'
<1>1. worker \in [Slots -> [pc : WorkerPcs, item : Items]]
    BY DEF CrawlInv, CrawlTypeOK
<1>2. CASE Notify(w)
    BY <1>1, <1>2 DEF Notify, At, WorkerPcs
<1>3. CASE Goto(w, "broken")
    BY <1>1, <1>3 DEF Goto, At, WorkerPcs
<1> QED
    BY <1>2, <1>3

\* A page that could be read: it is absorbed, and stays scheduled.
LEMMA SucceedKeeps ==
    ASSUME CrawlInv, NEW w \in Slots, Succeed(w)
    PROVE  CrawlInv'
<1> USE DEF CrawlInv
<1> DEFINE item == worker[w].item
<1>1. /\ call \in Asked /\ crawled \in Nat /\ todo \in Seq(Bootstrapped)
      /\ worker \in [Slots -> [pc : WorkerPcs, item : Items]]
      /\ tries \in [Urls -> Nat] /\ scheduled \in Nat
    BY DEF CrawlTypeOK
<1>2. /\ At(w, "visit") /\ inflight' = inflight \ {item.url} /\ Absorb(item)
      /\ UNCHANGED <<call, todo, visited, scheduled, alive, tries, deaths>>
      /\ crawled' = crawled + 1
    BY DEF Succeed, Absorb
<1>3. Notify(w) \/ Goto(w, "broken")
    BY DEF Succeed
<1>4. stage' \in Before => stage \in Before
    BY DEF Succeed, GatherRaises, Before
<1>5. /\ worker' \in [Slots -> [pc : WorkerPcs, item : Items]]
      /\ \A v \in Slots \ {w} : /\ At(v, "visit")' <=> At(v, "visit")
                                /\ worker'[v].item = worker[v].item
      /\ ~ At(w, "visit")'
    BY <1>2, <1>3, NotifyWakes
<1>6. /\ WorkersOK' /\ IsFiniteSet(inflight') /\ Cardinality(inflight') \in Nat
      /\ scheduled = crawled + Cardinality(inflight') + 1
    BY <1>2, <1>4, <1>5, VisitEnds
<1>7. item \in Items /\ item.url \in inflight /\ item.url \in visited /\ item.url \in call.allowed
    BY <1>1, <1>2 DEF WorkersOK, Visitors, FrontierOK
<1>8. visited' = visited \cup {item.url} /\ inflight' \subseteq inflight
    BY <1>2, <1>7
<1>9. /\ FrontierOK' /\ budget' \in Budgets'
      /\ frontier' \subseteq Items /\ pages' \subseteq Items /\ crawled' \in Nat
      /\ \A u \in UrlsOf(frontier') : u \in UrlsOf(frontier) \/ u \notin visited'
    BY <1>2, <1>7, <1>8, AbsorbKeeps
<1>10. Bootstrapped' = Bootstrapped /\ Budgets' = Budgets
    BY <1>2, SameBudgets DEF Bootstrapped
<1>11. CrawlTypeOK'
    BY <1>1, <1>2, <1>5, <1>9, <1>10 DEF CrawlTypeOK
<1>12. BudgetOK'
    BY <1>2, <1>9, <1>10 DEF BudgetOK
<1>13. ScheduleOK'
    BY <1>1, <1>2, <1>6 DEF ScheduleOK
<1>14. TriesOK'
    BY <1>1, <1>2, <1>9, <1>10 DEF TriesOK
<1> QED
    BY <1>6, <1>9, <1>11, <1>12, <1>13, <1>14

\* A page that could not be read: its place in the schedule is given back.
LEMMA FailKeeps ==
    ASSUME CrawlInv, NEW w \in Slots, Fail(w)
    PROVE  CrawlInv'
<1> USE DEF CrawlInv
<1>1. /\ crawled \in Nat /\ scheduled \in Nat /\ Budgets \subseteq Nat
      /\ todo \in Seq(Bootstrapped)
    BY BudgetsOfTheCall DEF CrawlTypeOK
<1>2. /\ At(w, "visit") /\ inflight' = inflight \ {worker[w].item.url} /\ Notify(w)
      /\ UNCHANGED <<stage, call, todo, visited, alive, tries, deaths>>
      /\ UNCHANGED <<crawled, pages, budget, frontier>>
      /\ scheduled' = AtLeast(crawled, scheduled - 1)
    BY DEF Fail, AbsorbError, GiveBack
<1>3. /\ worker' \in [Slots -> [pc : WorkerPcs, item : Items]]
      /\ \A v \in Slots \ {w} : /\ At(v, "visit")' <=> At(v, "visit")
                                /\ worker'[v].item = worker[v].item
      /\ ~ At(w, "visit")'
    BY <1>2, NotifyWakes
<1>4. /\ WorkersOK' /\ IsFiniteSet(inflight') /\ Cardinality(inflight') \in Nat
      /\ scheduled = crawled + Cardinality(inflight') + 1
    BY <1>2, <1>3, VisitEnds
<1>5. scheduled' = crawled + Cardinality(inflight') /\ scheduled' \in Nat /\ scheduled' <= scheduled
    BY <1>1, <1>2, <1>4 DEF AtLeast
<1>6. Bootstrapped' = Bootstrapped /\ Budgets' = Budgets
    BY <1>2, SameBudgets DEF Bootstrapped
<1>7. CrawlTypeOK'
    BY <1>1, <1>2, <1>3, <1>5, <1>6 DEF CrawlTypeOK
<1>8. BudgetOK'
    BY <1>1, <1>2, <1>5, <1>6 DEF BudgetOK
<1>9. ScheduleOK'
    BY <1>2, <1>4, <1>5 DEF ScheduleOK
<1>10. FrontierOK' /\ TriesOK'
    BY <1>2, SameFrontier, SameTries
<1> QED
    BY <1>4, <1>7, <1>8, <1>9, <1>10

-----------------------------------------------------------------------------
(* The crawl is booked *)

LEMMA CrawlStepKeeps == CrawlInv /\ CrawlNext => CrawlInv'
<1> SUFFICES ASSUME CrawlInv, CrawlNext PROVE CrawlInv'
    OBVIOUS
<1>1. CASE Acquire \/ BrowserDies \/ PatternRaises \/ Gathered
    <2>1. UNCHANGED <<call, todo, frontier, visited, inflight, crawled, scheduled, budget,
                      worker, pages, tries>>
        BY <1>1 DEF Acquire, BrowserDies, PatternRaises, Gathered, crawl
    <2>2. stage' \in Before => stage \in Before
        BY <1>1 DEF Acquire, BrowserDies, PatternRaises, Gathered, Before
    <2> QED
        BY <2>1, <2>2, StageKeeps
<1>2. CASE SkipBootstrap
    BY <1>2, SkipKeeps
<1>3. CASE \E ok \in BOOLEAN : VisitBootstrap(ok)
    BY <1>3, BootstrapKeeps
<1>4. CASE StartWorkers \/ \E w \in Slots : OpenPage(w) \/ Return(w) \/ Wait(w)
    BY <1>4, WorkerMovesKeep
<1>5. CASE \E w \in Slots : Take(w) \/ Succeed(w) \/ Fail(w)
    BY <1>5, TakeKeeps, SucceedKeeps, FailKeeps
<1> QED
    BY <1>1, <1>2, <1>3, <1>4, <1>5 DEF CrawlNext, CallStep, WorkerStep

\* What the call does besides crawling, and what others do, leaves the crawl
\* alone; the planning begins when no worker is about to start.
LEMMA PlanKeeps ==
    ASSUME CrawlInv, PlanStep \/ OtherRecords \/ OtherSavesGraph \/ RecordingOnly(RecordNext)
    PROVE  CrawlInv'
<1>1. UNCHANGED crawl
    BY DEF PlanStep, OtherRecords, OtherSavesGraph, RecordingOnly, Validate, PageStructure,
           SaveInventory, RepoAnswers, RepoFallsBack, PlanHeuristic, PlanWithoutKey, LlmPlans,
           LlmFails, PlannerRaises, Planned, Gate, ReadPrevious, ReadRecorded, SaveGraph, LinkJourneys
<1>2. stage' \in Before => stage \in Before
    BY DEF PlanStep, OtherRecords, OtherSavesGraph, RecordingOnly, Validate, PageStructure,
           SaveInventory, RepoAnswers, RepoFallsBack, PlanHeuristic, PlanWithoutKey, LlmPlans,
           LlmFails, PlannerRaises, Planned, Gate, ReadPrevious, ReadRecorded, SaveGraph, LinkJourneys,
           Is, Then, Before
<1> QED
    BY <1>1, <1>2, StageKeeps DEF crawl

\* The set of URLs in flight has as many members as there are workers on a
\* visit, because no two of them have the same.
LEMMA OneWorkerEach == CrawlInv => Cardinality(inflight) = Cardinality(Visitors)
<1> SUFFICES ASSUME CrawlInv PROVE Cardinality(inflight) = Cardinality(Visitors)
    OBVIOUS
<1> DEFINE url == [w \in Visitors |-> worker[w].item.url]
<1>1. Visitors \in SUBSET Slots
    BY DEF Visitors
<1>2. IsFiniteSet(Visitors)
    BY <1>1, CrawlAssumption, FS_Subset
<1>3. url \in Bijection(Visitors, inflight)
    <2>1. inflight = {url[w] : w \in Visitors}
        BY DEF CrawlInv, WorkersOK
    <2>2. \A v, w \in Visitors : url[v] = url[w] => v = w
        BY DEF CrawlInv, WorkersOK
    <2>3. url \in [Visitors -> inflight]
        BY <2>1
    <2> QED
        BY <2>1, <2>2, <2>3, Zenon DEF Bijection, Injection, Surjection, IsInjective
<1>4. ExistsBijection(Visitors, inflight)
    BY <1>3 DEF ExistsBijection
<1> QED
    BY <1>2, <1>4, FS_Bijection

LEMMA CrawlInvariant == CrawlInv /\ [Next]_vars => CrawlInv'
<1> SUFFICES ASSUME CrawlInv, [Next]_vars PROVE CrawlInv'
    OBVIOUS
<1>1. CASE Crawling(CrawlNext)
    BY <1>1, CrawlStepKeeps DEF Crawling
<1>2. CASE PlanStep \/ OtherRecords \/ OtherSavesGraph \/ RecordingOnly(RecordNext)
    BY <1>2, PlanKeeps
<1>3. CASE UNCHANGED vars
    BY <1>3, StageKeeps DEF vars, crawl
<1> QED
    BY <1>1, <1>2, <1>3 DEF Next

\* The bookkeeping of inventory_site agrees with what its workers do, on every
\* site and with any number of workers: each URL in flight has one worker, the
\* schedule is what was absorbed and what is in flight, no URL but a seed is
\* crawled twice, and the schedule stays within the largest budget.
THEOREM CrawlIsBooked == Spec => []CrawlAddsUp
<1>1. Init => CrawlInv
    BY CrawlInitHolds DEF Init
<1>2. CrawlInv /\ [Next]_vars => CrawlInv'
    BY CrawlInvariant
<1>3. CrawlInv => CrawlAddsUp
    <2> SUFFICES ASSUME CrawlInv PROVE CrawlAddsUp
        OBVIOUS
    <2>1. Cardinality(inflight) = Cardinality(Visitors)
        BY OneWorkerEach
    <2> QED
        BY <2>1 DEF CrawlInv, CrawlAddsUp, CrawlTypeOK, BudgetOK, WorkersOK, ScheduleOK, FrontierOK, TriesOK, UrlsOf
<1> QED
    BY <1>1, <1>2, <1>3, PTL DEF Spec

-----------------------------------------------------------------------------
(* Hops *)

\* A set of numbers with 0 and with each successor is all of them.
LEMMA NoNumberIsMissed ==
    ASSUME NEW S \in SUBSET Nat, 0 \in S, \A n \in S : n + 1 \in S
    PROVE  S = Nat
<1> SUFFICES ASSUME Nat \ S # {} PROVE FALSE
    OBVIOUS
<1>1. PICK x \in Nat \ S : \A y \in Nat \ S : x <= y
    BY LeastExists
<1>2. x - 1 \in Nat /\ x - 1 \notin Nat \ S
    BY <1>1
<1>3. x - 1 \in S /\ (x - 1) + 1 = x
    BY <1>2
<1> QED
    BY <1>1, <1>3

\* The hops from a set of URLs are as they are counted: such a function there
\* is, the one that tells which URLs a walk of at most n steps ends at.
LEMMA HopsAreCounted ==
    ASSUME NEW U, NEW from \in SUBSET U, NEW ways \in [U -> SUBSET U]
    PROVE  /\ Hops(from, ways)[0] = from
           /\ \A n \in Nat : /\ Hops(from, ways)[n] \subseteq U
                             /\ Hops(from, ways)[n + 1] =
                                  Hops(from, ways)[n] \cup UNION {ways[u] : u \in Hops(from, ways)[n]}
<1> DEFINE Walk(m, p) == /\ p \in [0..m -> U] /\ p[0] \in from
                         /\ \A i \in 1..m : p[i] \in ways[p[i - 1]]
           Ends(m) == {u \in U : \E p \in [0..m -> U] : Walk(m, p) /\ p[m] = u}
           g == [n \in Nat |-> {u \in U : \E m \in 0..n : u \in Ends(m)}]
           Step(f) == [n \in Nat |-> IF n = 0 THEN from ELSE f[n - 1] \cup UNION {ways[u] : u \in f[n - 1]}]
<1>1. Ends(0) = from
    <2>1. \A u \in from : [i \in 0..0 |-> u] \in [0..0 -> U] /\ Walk(0, [i \in 0..0 |-> u])
        OBVIOUS
    <2>2. \A u \in from : u \in Ends(0)
        <3>1. \A u \in from : [i \in 0..0 |-> u][0] = u /\ u \in U
            OBVIOUS
        <3> QED
            BY <2>1, <3>1
    <2>3. \A u \in Ends(0) : u \in from
        OBVIOUS
    <2> HIDE DEF Ends
    <2> QED
        BY <2>2, <2>3
<1>2. ASSUME NEW m \in Nat
      PROVE  Ends(m + 1) = UNION {ways[u] : u \in Ends(m)}
    <2>1. ASSUME NEW v \in Ends(m + 1)
          PROVE  \E u \in Ends(m) : v \in ways[u]
        <3>1. PICK p \in [0..(m + 1) -> U] : Walk(m + 1, p) /\ p[m + 1] = v
            BY <2>1
        <3> DEFINE q == [i \in 0..m |-> p[i]]
        <3>2. q \in [0..m -> U] /\ Walk(m, q)
            <4>1. q \in [0..m -> U] /\ q[0] = p[0]
                BY <3>1
            <4>2. \A i \in 1..m : i \in 1..(m + 1) /\ q[i] = p[i] /\ q[i - 1] = p[i - 1]
                OBVIOUS
            <4> QED
                BY <3>1, <4>1, <4>2
        <3>3. q[m] = p[m] /\ p[m] \in U
            BY <3>1
        <3>4. p[m] \in Ends(m)
            BY <3>2, <3>3
        <3>5. v \in ways[p[m]]
            <4>1. m + 1 \in 1..(m + 1) /\ (m + 1) - 1 = m
                OBVIOUS
            <4> QED
                BY <3>1, <4>1
        <3> QED
            BY <3>4, <3>5
    <2>2. ASSUME NEW u \in Ends(m), NEW v \in ways[u]
          PROVE  v \in Ends(m + 1)
        <3>1. PICK p \in [0..m -> U] : Walk(m, p) /\ p[m] = u
            BY <2>2
        <3> DEFINE q == [i \in 0..(m + 1) |-> IF i = m + 1 THEN v ELSE p[i]]
        <3>2. v \in U
            BY <2>2
        <3>3. q \in [0..(m + 1) -> U]
            <4>1. \A i \in 0..(m + 1) : i = m + 1 \/ i \in 0..m
                OBVIOUS
            <4> QED
                BY <3>2, <4>1
        <3>4. q[0] = p[0] /\ q[m + 1] = v
            OBVIOUS
        <3>5. ASSUME NEW i \in 1..(m + 1)
              PROVE  q[i] \in ways[q[i - 1]]
            <4>1. CASE i = m + 1
                <5>1. q[i] = v /\ q[i - 1] = p[m]
                    BY <4>1
                <5> QED
                    BY <3>1, <5>1
            <4>2. CASE i \in 1..m
                <5>1. q[i] = p[i] /\ q[i - 1] = p[i - 1]
                    BY <4>2
                <5> QED
                    BY <3>1, <4>2, <5>1
            <4> QED
                BY <4>1, <4>2
        <3>6. Walk(m + 1, q)
            BY <3>1, <3>3, <3>4, <3>5
        <3> QED
            BY <3>2, <3>3, <3>4, <3>6
    <2> HIDE DEF Ends
    <2> QED
        BY <2>1, <2>2
<1> HIDE DEF Ends
<1>3. /\ g[0] = from
      /\ \A n \in Nat : /\ g[n] \subseteq U
                        /\ g[n + 1] = g[n] \cup UNION {ways[u] : u \in g[n]}
    <2>1. g[0] = from
        BY <1>1
    <2>2. ASSUME NEW n \in Nat
          PROVE  g[n + 1] = g[n] \cup UNION {ways[u] : u \in g[n]}
        <3>1. \A m \in 0..n : m \in Nat /\ m \in 0..(n + 1) /\ m + 1 \in 0..(n + 1)
            OBVIOUS
        <3>2. \A m \in 0..(n + 1) : m = 0 \/ (m - 1 \in 0..n /\ m = (m - 1) + 1)
            OBVIOUS
        <3>3. ASSUME NEW v \in g[n + 1]
              PROVE  v \in g[n] \/ \E u \in g[n] : v \in ways[u]
            <4>1. PICK m \in 0..(n + 1) : v \in Ends(m)
                BY <3>3
            <4>2. CASE m = 0
                BY <3>3, <4>1, <4>2
            <4>3. CASE m - 1 \in 0..n /\ m = (m - 1) + 1
                <5>1. PICK u \in Ends(m - 1) : v \in ways[u]
                    BY <1>2, <4>1, <4>3
                <5>2. u \in U
                    BY DEF Ends
                <5>3. u \in g[n]
                    BY <4>3, <5>1, <5>2
                <5> QED
                    BY <5>1, <5>3
            <4> QED
                BY <3>2, <4>2, <4>3
        <3>4. ASSUME NEW u \in g[n], NEW v \in ways[u]
              PROVE  v \in g[n + 1]
            <4>1. PICK m \in 0..n : u \in Ends(m)
                BY <3>4
            <4>2. v \in Ends(m + 1) /\ m + 1 \in 0..(n + 1)
                BY <1>2, <3>1, <4>1
            <4>3. v \in U
                BY <4>2 DEF Ends
            <4> QED
                BY <4>2, <4>3
        <3>5. g[n] \subseteq g[n + 1]
            BY <3>1
        <3> HIDE DEF g
        <3> QED
            BY <3>3, <3>4, <3>5
    <2> QED
        BY <2>1, <2>2
<1>4. g = Step(g)
    <2>1. \A n \in Nat : n = 0 \/ (n - 1 \in Nat /\ n = (n - 1) + 1)
        OBVIOUS
    <2>2. \A n \in Nat : g[n] = Step(g)[n]
        BY <1>3, <2>1
    <2>3. g = [n \in Nat |-> g[n]] /\ Step(g) = [n \in Nat |-> Step(g)[n]]
        OBVIOUS
    <2> HIDE DEF g, Step
    <2>4. [n \in Nat |-> g[n]] = [n \in Nat |-> Step(g)[n]]
        BY <2>2
    <2> QED
        BY <2>3, <2>4
<1> HIDE DEF g
<1> DEFINE h == Hops(from, ways)
<1>5. h = Step(h)
    BY <1>4, Zenon DEF Hops
<1> HIDE DEF h
<1>6. h[0] = from
    <2>1. Step(h)[0] = from
        OBVIOUS
    <2> HIDE DEF Step
    <2> QED
        BY <1>5, <2>1, Zenon
<1>7. ASSUME NEW n \in Nat
      PROVE  h[n + 1] = h[n] \cup UNION {ways[u] : u \in h[n]}
    <2>1. n + 1 \in Nat /\ n + 1 # 0 /\ (n + 1) - 1 = n
        OBVIOUS
    <2>2. Step(h)[n + 1] = h[n] \cup UNION {ways[u] : u \in h[n]}
        BY <2>1
    <2> HIDE DEF Step
    <2> QED
        BY <1>5, <2>2, Zenon
<1>8. \A n \in Nat : h[n] \subseteq U
    <2> DEFINE S == {n \in Nat : h[n] \subseteq U}
    <2>1. 0 \in S
        BY <1>6
    <2>2. ASSUME NEW n \in S
          PROVE  n + 1 \in S
        <3>1. n \in Nat /\ h[n] \subseteq U
            BY <2>2
        <3>2. UNION {ways[u] : u \in h[n]} \subseteq U
            BY <3>1
        <3>3. h[n + 1] \subseteq U
            BY <1>7, <3>1, <3>2
        <3> QED
            BY <3>1, <3>3
    <2>3. S \in SUBSET Nat
        OBVIOUS
    <2> HIDE DEF S
    <2>4. S = Nat
        BY <2>1, <2>2, <2>3, NoNumberIsMissed
    <2> QED
        BY <2>4 DEF S
<1> QED
    BY <1>6, <1>7, <1>8 DEF h

\* More hops reach more, and so do more ways.
LEMMA HopsGrow ==
    ASSUME NEW U, NEW from \in SUBSET U, NEW ways \in [U -> SUBSET U], NEW more \in [U -> SUBSET U],
           \A u \in U : ways[u] \subseteq more[u]
    PROVE  /\ \A n \in Nat : Hops(from, ways)[n] \subseteq Hops(from, more)[n]
           /\ \A n, m \in Nat : n <= m => Hops(from, ways)[n] \subseteq Hops(from, ways)[m]
<1> DEFINE h == Hops(from, ways)
           k == Hops(from, more)
<1>1. /\ h[0] = from
      /\ \A n \in Nat : h[n] \subseteq U /\ h[n + 1] = h[n] \cup UNION {ways[u] : u \in h[n]}
    BY HopsAreCounted, Zenon
<1>2. /\ k[0] = from
      /\ \A n \in Nat : k[n] \subseteq U /\ k[n + 1] = k[n] \cup UNION {more[u] : u \in k[n]}
    BY HopsAreCounted, Zenon
<1> HIDE DEF h, k
<1>3. {n \in Nat : h[n] \subseteq k[n]} = Nat
    <2> DEFINE S == {n \in Nat : h[n] \subseteq k[n]}
    <2>1. ASSUME NEW n \in S
          PROVE  n + 1 \in S
        <3>1. n \in Nat /\ h[n] \subseteq k[n] /\ h[n] \subseteq U
            BY <1>1, <2>1
        <3>2. h[n + 1] = h[n] \cup UNION {ways[u] : u \in h[n]}
            BY <1>1, <3>1
        <3>3. k[n + 1] = k[n] \cup UNION {more[u] : u \in k[n]}
            BY <1>2, <3>1
        <3>4. UNION {ways[u] : u \in h[n]} \subseteq UNION {more[u] : u \in k[n]}
            BY <3>1
        <3> QED
            BY <3>1, <3>2, <3>3, <3>4
    <2>2. S \in SUBSET Nat /\ 0 \in S
        BY <1>1, <1>2
    <2> HIDE DEF S
    <2>3. S = Nat
        BY <2>1, <2>2, NoNumberIsMissed
    <2> QED
        BY <2>3 DEF S
<1>4. ASSUME NEW n \in Nat
      PROVE  {m \in Nat : n <= m => h[n] \subseteq h[m]} = Nat
    <2> DEFINE S == {m \in Nat : n <= m => h[n] \subseteq h[m]}
    <2>1. ASSUME NEW m \in S
          PROVE  m + 1 \in S
        <3>1. m \in Nat /\ h[m] \subseteq h[m + 1]
            BY <1>1, <2>1
        <3>2. n <= m + 1 => n <= m \/ n = m + 1
            BY <3>1
        <3> QED
            BY <2>1, <3>1, <3>2
    <2>2. S \in SUBSET Nat /\ 0 \in S
        <3>1. n <= 0 => n = 0
            OBVIOUS
        <3> QED
            BY <3>1
    <2> HIDE DEF S
    <2>3. S = Nat
        BY <2>1, <2>2, NoNumberIsMissed
    <2> QED
        BY <2>3 DEF S
<1>5. \A n \in Nat : h[n] \subseteq k[n]
    BY <1>3
<1>6. \A n, m \in Nat : n <= m => h[n] \subseteq h[m]
    BY <1>4
<1> QED
    BY <1>5, <1>6 DEF h, k

-----------------------------------------------------------------------------
(* What was reached *)

Near == Hops(Seeds, Ways)
Leads == [u \in Urls |-> Range(Site.links[u]) \cap call.allowed]
Visits == {worker[w].item : w \in Visitors}
InHand == frontier \cup pages \cup Visits
Found == visited \cup UrlsOf(frontier)

\* What was visited was tried, and was near, as is all that will be.
ReachOK ==
    /\ \A u \in visited : u \in Urls /\ tries[u] > 0 /\ u \in Near[call.depth]
    /\ \A i \in InHand : i.depth <= call.depth /\ i.url \in Near[i.depth]

\* What follows from a page that was absorbed is in the frontier or visited.
LinksOK ==
    stage \in Before \cup {"workers", "crawled"}
        => \A p \in pages : p.depth < call.depth => Leads[p.url] \subseteq Found

\* The seeds are visited first.
SeedsOK ==
    /\ stage \in Before => Seeds \subseteq visited \cup Range(todo) \/ crawled >= budget
    /\ stage = "workers" => Seeds \subseteq visited
    /\ stage = "crawled" => Seeds \subseteq visited \/ crawled >= budget

\* What has a depth of two or more is no seed, and no page read as a seed has a
\* link to it.
DepthOK ==
    /\ stage \in Before => (\A p \in pages : p.depth = 0) /\ (\A i \in frontier : i.depth = 1)
    /\ \A i \in frontier \cup Visits : i.depth >= 1
    /\ stage \in {"workers", "crawled"} =>
          \A i \in InHand : i.depth >= 2 =>
              i.url \notin Seeds /\ \A p \in pages : p.depth = 0 => i.url \notin Leads[p.url]

\* A worker that is done left nothing to do, and the call waits for all.
EndOK ==
    /\ stage \notin {"workers", "failed"} => \A w \in Slots : At(w, "off") \/ At(w, "done")
    /\ stage = "workers" => ~ At(1, "off")
    /\ (\E w \in Slots : At(w, "done")) => inflight = {} /\ (crawled >= budget \/ frontier = {})
    /\ stage = "crawled" => crawled >= budget \/ frontier = {}

CoverInv == ReachOK /\ LinksOK /\ SeedsOK /\ DepthOK /\ EndOK /\ IsFiniteSet(frontier)

\* The hops over the pages of a call that were read.
LEMMA NearIsCounted ==
    ASSUME CrawlTypeOK
    PROVE  /\ Ways \in [Urls -> SUBSET Urls] /\ Seeds \subseteq Urls
           /\ Leads \in [Urls -> SUBSET Urls]
           /\ Near[0] = Seeds
           /\ \A n, m \in Nat : n <= m => Near[n] \subseteq Near[m]
<1>1. call.allowed \subseteq Urls
    BY CrawlAssumption DEF CrawlTypeOK
<1>2. Ways \in [Urls -> SUBSET Urls] /\ Seeds \in SUBSET Urls /\ Leads \in [Urls -> SUBSET Urls]
    BY <1>1 DEF Ways, Seeds, Leads
<1>3. Hops(Seeds, Ways)[0] = Seeds
    BY <1>2, HopsAreCounted
<1>4. \A n, m \in Nat : n <= m => Hops(Seeds, Ways)[n] \subseteq Hops(Seeds, Ways)[m]
    BY <1>2, HopsGrow
<1> QED
    BY <1>2, <1>3, <1>4 DEF Near

\* When a page was read, what was near still is, and its links are a hop further.
LEMMA PageBringsNearer ==
    ASSUME CrawlTypeOK, UNCHANGED call, NEW item \in Items, pages' = pages \cup {item}
    PROVE  /\ \A n \in Nat : Near[n] \subseteq Near'[n]
           /\ \A n, m \in Nat : n <= m => Near'[n] \subseteq Near'[m]
           /\ \A n \in Nat : item.url \in Near[n] => Leads[item.url] \subseteq Near'[n + 1]
<1>1. call.allowed \subseteq Urls /\ item.url \in Urls
    BY CrawlAssumption DEF CrawlTypeOK, Items
<1>2. Ways \in [Urls -> SUBSET Urls] /\ Seeds \in SUBSET Urls
    BY <1>1 DEF Ways, Seeds
<1> DEFINE more == Ways'
<1>3. Seeds' = Seeds
    BY DEF Seeds, Bootstrapped
<1>4. /\ more \in [Urls -> SUBSET Urls]
      /\ \A u \in Urls : Ways[u] \subseteq more[u]
      /\ more[item.url] = Leads[item.url]
    BY <1>1 DEF Ways, Leads, Site
<1> HIDE DEF more
<1>5. /\ \A n \in Nat : Hops(Seeds, Ways)[n] \subseteq Hops(Seeds, more)[n]
      /\ \A n, m \in Nat : n <= m => Hops(Seeds, more)[n] \subseteq Hops(Seeds, more)[m]
    BY <1>2, <1>4, HopsGrow
<1>6. /\ Hops(Seeds, more)[0] = Seeds
      /\ \A n \in Nat : /\ Hops(Seeds, more)[n] \subseteq Urls
                        /\ Hops(Seeds, more)[n + 1] =
                             Hops(Seeds, more)[n] \cup UNION {more[u] : u \in Hops(Seeds, more)[n]}
    <2>1. Seeds \in SUBSET Urls /\ more \in [Urls -> SUBSET Urls]
        BY <1>2, <1>4
    <2> QED
        BY <2>1, HopsAreCounted, Zenon
<1>7. \A n \in Nat : item.url \in Hops(Seeds, Ways)[n]
          => Leads[item.url] \subseteq Hops(Seeds, more)[n + 1]
    BY <1>4, <1>5, <1>6
<1>8. Near' = Hops(Seeds, more)
    BY <1>3 DEF Near, more
<1> QED
    BY <1>5, <1>7, <1>8 DEF Near

-----------------------------------------------------------------------------
(* The steps that read no page *)

\* A list is its first element and the others.
LEMMA HeadAndRest ==
    ASSUME NEW S, NEW s \in Seq(S), s # <<>>
    PROVE  Range(s) = {Head(s)} \cup Range(Tail(s))
<1>1. /\ Len(s) \in Nat \ {0} /\ DOMAIN s = 1..Len(s) /\ Head(s) = s[1]
      /\ DOMAIN Tail(s) = 1..(Len(s) - 1) /\ \A i \in 1..(Len(s) - 1) : Tail(s)[i] = s[i + 1]
    OBVIOUS
<1>2. \A i \in 1..Len(s) : i = 1 \/ (i - 1 \in 1..(Len(s) - 1) /\ s[i] = s[(i - 1) + 1])
    BY <1>1
<1>3. \A i \in 1..(Len(s) - 1) : i + 1 \in 1..Len(s)
    BY <1>1
<1>4. 1 \in 1..Len(s)
    BY <1>1
<1>5. \A x \in Range(s) : x = Head(s) \/ x \in Range(Tail(s))
    <2>1. ASSUME NEW x \in Range(s)
          PROVE  x = Head(s) \/ x \in Range(Tail(s))
        <3>1. PICK i \in 1..Len(s) : x = s[i]
            BY <1>1, <2>1 DEF Range
        <3>2. CASE i = 1
            BY <1>1, <3>1, <3>2
        <3>3. CASE i - 1 \in 1..(Len(s) - 1) /\ s[i] = s[(i - 1) + 1]
            <4>1. x = Tail(s)[i - 1]
                BY <1>1, <3>1, <3>3
            <4> QED
                BY <1>1, <3>3, <4>1 DEF Range
        <3> QED
            BY <1>2, <3>2, <3>3
    <2> QED
        BY <2>1
<1>6. Head(s) \in Range(s)
    BY <1>1, <1>4 DEF Range
<1>7. \A x \in Range(Tail(s)) : x \in Range(s)
    <2>1. ASSUME NEW x \in Range(Tail(s))
          PROVE  x \in Range(s)
        <3>1. PICK i \in 1..(Len(s) - 1) : x = Tail(s)[i]
            BY <1>1, <2>1 DEF Range
        <3> QED
            BY <1>1, <1>3, <3>1 DEF Range
    <2> QED
        BY <2>1
<1> QED
    BY <1>5, <1>6, <1>7

\* What a call knows of its site does not change.
LEMMA SameSite ==
    ASSUME UNCHANGED call
    PROVE  Seeds' = Seeds /\ Leads' = Leads /\ (UNCHANGED pages => Near' = Near)
<1>1. Seeds' = Seeds
    BY DEF Seeds, Bootstrapped
<1>2. Leads' = Leads
    BY DEF Leads, Site
<1>3. UNCHANGED pages => Ways' = Ways
    BY DEF Ways, Site
<1> QED
    BY <1>1, <1>2, <1>3 DEF Near

\* What was reached stays reached when nothing is visited.
LEMMA QuietReaches ==
    ASSUME CrawlInv, CoverInv,
           UNCHANGED <<call, frontier, visited, pages, tries>>,
           Visits' \subseteq Visits,
           stage' \in Before => stage \in Before,
           stage' \in {"workers", "crawled"} => stage \in Before \cup {"workers", "crawled"}
    PROVE  ReachOK' /\ LinksOK' /\ DepthOK'
<1> USE DEF CoverInv
<1>1. Seeds' = Seeds /\ Leads' = Leads /\ Near' = Near
    BY SameSite
<1>2. InHand' \subseteq InHand /\ Found' = Found
    BY DEF InHand, Found, UrlsOf
<1>3. ReachOK'
    BY <1>1, <1>2 DEF ReachOK
<1>4. LinksOK'
    BY <1>1, <1>2 DEF LinksOK, Before
<1>5. DepthOK'
    <2>1. stage \in Before => \A i \in InHand : i.depth < 2
        <3>1. stage \in Before => Visits = {}
            BY DEF CrawlInv, WorkersOK, Visits, Visitors, At
        <3> QED
            BY <3>1 DEF DepthOK, InHand
    <2>2. InHand \subseteq Items /\ \A i \in Items : ~ (i.depth < 2 /\ i.depth >= 2)
        BY DEF CrawlInv, CrawlTypeOK, InHand, Visits, Visitors, Items
    <2> QED
        BY <1>1, <1>2, <2>1, <2>2 DEF DepthOK
<1> QED
    BY <1>3, <1>4, <1>5

\* A step that moves the call on, before the workers or after them, or fails it.
LEMMA StageCovers ==
    ASSUME CrawlInv, CoverInv,
           UNCHANGED <<call, todo, frontier, visited, inflight, crawled, budget, worker, pages, tries>>,
           stage' \in Before => stage \in Before,
           stage' \in {"workers", "crawled"} => stage' = stage,
           stage \in {"workers", "failed"} => stage' \in {stage, "failed"}
    PROVE  CoverInv'
<1> USE DEF CoverInv
<1>1. Seeds' = Seeds
    BY SameSite
<1>2. \A w, pc : worker'[w].pc = pc <=> worker[w].pc = pc
    OBVIOUS
<1>3. Visits' = Visits
    BY DEF Visits, Visitors, At
<1>4. ReachOK' /\ LinksOK' /\ DepthOK'
    BY <1>3, QuietReaches
<1>5. SeedsOK'
    BY <1>1 DEF SeedsOK, Before
<1>6. EndOK'
    BY <1>2 DEF EndOK, At
<1> QED
    BY <1>4, <1>5, <1>6

\* gather returns when all workers are done, and there is one at least.
LEMMA GatheredCovers == CrawlInv /\ CoverInv /\ Gathered => CoverInv'
<1> SUFFICES ASSUME CrawlInv, CoverInv, Gathered PROVE CoverInv'
    OBVIOUS
<1> USE DEF CoverInv
<1>1. /\ stage = "workers" /\ stage' = "crawled" /\ UNCHANGED crawl
      /\ \A w \in Slots : At(w, "off") \/ At(w, "done")
    BY DEF Gathered, At
<1>2. Visits' = Visits
    BY <1>1 DEF Visits, Visitors, At, crawl
<1>3. ReachOK' /\ LinksOK' /\ DepthOK'
    BY <1>1, <1>2, QuietReaches DEF crawl, Before
<1>4. 1 \in Slots
    BY CrawlAssumption
<1>5. inflight = {} /\ (crawled >= budget \/ frontier = {})
    BY <1>1, <1>4 DEF EndOK
<1>6. SeedsOK'
    BY <1>1, SameSite DEF SeedsOK, crawl, Before
<1>7. EndOK'
    BY <1>1, <1>5 DEF EndOK, crawl, At
<1> QED
    BY <1>1, <1>3, <1>6, <1>7 DEF crawl

\* A bootstrap URL that is passed over was visited, is not allowed, or the
\* budget is spent.
LEMMA SkipCovers == CrawlInv /\ CoverInv /\ SkipBootstrap => CoverInv'
<1> SUFFICES ASSUME CrawlInv, CoverInv, SkipBootstrap PROVE CoverInv'
    OBVIOUS
<1> USE DEF CoverInv
<1>1. /\ stage = "bootstrap" /\ todo # <<>> /\ todo' = Tail(todo)
      /\ crawled >= budget \/ Head(todo) \notin call.allowed \/ Head(todo) \in visited
      /\ UNCHANGED <<stage, call, frontier, visited, inflight, crawled, budget, worker, pages, tries>>
    BY DEF SkipBootstrap, Booting, Boot, UrlAllowed
<1>2. Visits' = Visits
    BY <1>1 DEF Visits, Visitors, At
<1>3. ReachOK' /\ LinksOK' /\ DepthOK'
    BY <1>1, <1>2, QuietReaches
<1>4. Range(todo) = {Head(todo)} \cup Range(Tail(todo))
    BY <1>1, HeadAndRest DEF CrawlInv, CrawlTypeOK
<1>5. SeedsOK'
    BY <1>1, <1>4, SameSite DEF SeedsOK, Before, Seeds
<1>6. EndOK'
    BY <1>1 DEF EndOK, At
<1> QED
    BY <1>1, <1>3, <1>5, <1>6

\* A worker that opens its page, returns or waits.
LEMMA MoveCovers ==
    ASSUME CrawlInv, CoverInv, NEW w \in Slots, OpenPage(w) \/ Return(w) \/ Wait(w)
    PROVE  CoverInv'
<1> USE DEF CoverInv
<1>1. /\ worker \in [Slots -> [pc : WorkerPcs, item : Items]]
      /\ stage \in Before => \A v \in Slots : At(v, "off")
    BY DEF CrawlInv, CrawlTypeOK, WorkersOK
<1>2. UNCHANGED <<call, todo, frontier, visited, inflight, crawled, budget, pages, tries>>
    BY DEF OpenPage, Return, Wait
<1>3. At(w, "open") \/ At(w, "look")
    BY DEF OpenPage, Return, Wait
<1>4. stage' = stage \/ (stage = "workers" /\ stage' = "failed")
    BY DEF OpenPage, Return, Wait, GatherRaises
<1>5. PICK pc \in {"look", "broken", "done", "wait"} :
          /\ worker' = [worker EXCEPT ![w].pc = pc]
          /\ pc = "done" => inflight = {} /\ (crawled >= budget \/ frontier = {})
    BY DEF OpenPage, Return, Wait, Goto, Finished
<1>6. \A v \in Slots : /\ worker'[v].pc = IF v = w THEN pc ELSE worker[v].pc
                       /\ worker'[v].item = worker[v].item
    BY <1>1, <1>5
<1>7. Visits' \subseteq Visits
    BY <1>6 DEF Visits, Visitors, At
<1>8. ReachOK' /\ LinksOK' /\ DepthOK'
    BY <1>2, <1>4, <1>7, QuietReaches DEF Before
<1>9. SeedsOK'
    BY <1>2, <1>4, SameSite DEF SeedsOK, Before
<1>10. stage \in {"workers", "failed"}
    BY <1>3 DEF EndOK, At
<1>11. EndOK'
    BY <1>2, <1>4, <1>5, <1>6, <1>10 DEF EndOK, At
<1> QED
    BY <1>2, <1>8, <1>9, <1>11

\* The workers start when there is a page for each: the first one always does.
LEMMA StartCovers == CrawlInv /\ CoverInv /\ StartWorkers => CoverInv'
<1> SUFFICES ASSUME CrawlInv, CoverInv, StartWorkers PROVE CoverInv'
    OBVIOUS
<1> USE DEF CoverInv
<1>1. /\ worker \in [Slots -> [pc : WorkerPcs, item : Items]] /\ call \in Asked
      /\ stage = "bootstrap" /\ \A v \in Slots : At(v, "off")
    BY DEF CrawlInv, CrawlTypeOK, WorkersOK, StartWorkers, Before
<1>2. /\ UNCHANGED <<call, todo, frontier, visited, inflight, crawled, budget, pages, tries>>
      /\ todo = <<>>
    BY DEF StartWorkers
<1>3. Seeds \subseteq visited \/ crawled >= budget
    BY <1>1, <1>2 DEF SeedsOK, Before, Range
<1>4. CASE frontier # {} /\ crawled < budget
    <2>1. /\ stage' = "workers"
          /\ worker' = [w \in Slots |-> IF w <= AtMost(WorkerCount, Cardinality(frontier))
                                        THEN [worker[w] EXCEPT !.pc = "open"] ELSE worker[w]]
        BY <1>4 DEF StartWorkers
    <2>2. \A w \in Slots : /\ worker'[w].pc \in {"off", "open"}
                           /\ w <= AtMost(WorkerCount, Cardinality(frontier)) => worker'[w].pc = "open"
        BY <1>1, <2>1 DEF At
    <2>3. 1 <= AtMost(WorkerCount, Cardinality(frontier))
        <3>1. Cardinality(frontier) \in Nat /\ Cardinality(frontier) # 0
            BY <1>4, FS_CardinalityType, FS_EmptySet
        <3>2. call.concurrency \in Nat /\ call.pages \in Nat
            BY <1>1, CrawlAssumption
        <3>3. WorkerCount \in Nat /\ 1 <= WorkerCount
            BY <3>2 DEF WorkerCount, AtLeast, AtMost
        <3> QED
            BY <3>1, <3>3 DEF AtMost
    <2>4. 1 \in Slots
        BY CrawlAssumption
    <2>5. Visits' \subseteq Visits
        BY <2>2 DEF Visits, Visitors, At
    <2>6. ReachOK' /\ LinksOK' /\ DepthOK'
        BY <1>1, <1>2, <2>1, <2>5, QuietReaches DEF Before
    <2>7. crawled \in Nat /\ budget \in Nat
        BY BudgetsOfTheCall DEF CrawlInv, CrawlTypeOK, BudgetOK
    <2>8. SeedsOK'
        BY <1>2, <1>3, <1>4, <2>1, <2>7, SameSite DEF SeedsOK, Before
    <2>9. EndOK'
        BY <2>1, <2>2, <2>3, <2>4 DEF EndOK, At
    <2> QED
        BY <1>2, <2>6, <2>8, <2>9
<1>5. CASE ~ (frontier # {} /\ crawled < budget)
    <2>1. stage' = "crawled" /\ worker' = worker
        BY <1>5 DEF StartWorkers
    <2>2. Visits' = Visits
        BY <2>1 DEF Visits, Visitors, At
    <2>3. ReachOK' /\ LinksOK' /\ DepthOK'
        BY <1>1, <1>2, <2>1, <2>2, QuietReaches DEF Before
    <2>4. crawled \in Nat /\ budget \in Nat
        BY BudgetsOfTheCall DEF CrawlInv, CrawlTypeOK, BudgetOK
    <2>5. SeedsOK'
        BY <1>2, <1>3, <2>1, SameSite DEF SeedsOK, Before
    <2>6. EndOK'
        BY <1>1, <1>2, <1>5, <2>1, <2>4 DEF EndOK, At
    <2> QED
        BY <1>2, <2>3, <2>5, <2>6
<1> QED
    BY <1>4, <1>5

\* A worker takes what the frontier holds; it was near, and no bootstrap URL of
\* the first visits.
LEMMA TakeCovers ==
    ASSUME CrawlInv, CoverInv, NEW w \in Slots, Take(w)
    PROVE  CoverInv'
<1> USE DEF CoverInv
<1>1. /\ worker \in [Slots -> [pc : WorkerPcs, item : Items]]
      /\ frontier \subseteq Items /\ tries \in [Urls -> Nat]
      /\ call \in Asked /\ crawled \in Nat /\ budget \in Nat
    BY BudgetsOfTheCall DEF CrawlInv, CrawlTypeOK, BudgetOK
<1>2. PICK item \in frontier :
          /\ frontier' = frontier \ {item}
          /\ visited' = visited \cup {item.url}
          /\ worker' = [worker EXCEPT ![w] = [pc |-> "visit", item |-> item]]
          /\ tries' = [tries EXCEPT ![item.url] = @ + 1]
    BY DEF Take, Candidates, Try
<1>3. /\ At(w, "look") /\ Takes
      /\ UNCHANGED <<stage, call, todo, crawled, budget, pages>>
    BY DEF Take
<1>4. Seeds' = Seeds /\ Leads' = Leads /\ Near' = Near
    BY <1>3, SameSite
<1>5. /\ worker'[w].pc = "visit" /\ worker'[w].item = item
      /\ \A v \in Slots \ {w} : worker'[v] = worker[v]
    BY <1>1, <1>2
<1>6. Visits' \subseteq Visits \cup {item}
    BY <1>5 DEF Visits, Visitors, At
<1>7. InHand' \subseteq InHand /\ item \in InHand /\ item \in Items
    BY <1>1, <1>2, <1>3, <1>6 DEF InHand
<1>8. Found' = Found
    BY <1>2 DEF Found, UrlsOf
<1>9. ReachOK'
    <2>1. item.url \in Near[call.depth]
        <3>1. call.depth \in Nat /\ item.depth \in Nat
            BY <1>1, <1>7, CrawlAssumption DEF Items
        <3>2. Near[item.depth] \subseteq Near[call.depth]
            BY <1>7, <3>1, NearIsCounted DEF ReachOK, CrawlInv
        <3> QED
            BY <1>7, <3>2 DEF ReachOK
    <2>2. item.url \in Urls /\ \A u \in Urls : tries'[u] >= tries[u] /\ tries'[u] \in Nat
        BY <1>1, <1>2, <1>7 DEF Items
    <2>3. tries'[item.url] > 0
        BY <1>1, <1>2, <2>2
    <2>4. \A u \in visited' : u \in Urls /\ tries'[u] > 0 /\ u \in Near[call.depth]
        BY <1>1, <1>2, <2>1, <2>2, <2>3 DEF ReachOK
    <2> QED
        BY <1>3, <1>4, <1>7, <2>4 DEF ReachOK
<1>10. LinksOK'
    BY <1>3, <1>4, <1>8 DEF LinksOK
<1>11. SeedsOK'
    BY <1>2, <1>3, <1>4 DEF SeedsOK
<1>12. stage \notin Before
    BY <1>3 DEF CrawlInv, WorkersOK, At
<1>13. DepthOK'
    BY <1>2, <1>3, <1>4, <1>6, <1>7, <1>12 DEF DepthOK
<1>14. EndOK'
    <2>1. stage \in {"workers", "failed"}
        BY <1>3 DEF EndOK, At
    <2>2. \A v \in Slots : ~ At(v, "done")
        <3>1. ~ (inflight = {} /\ (crawled >= budget \/ frontier = {}))
            BY <1>3 DEF Takes
        <3> QED
            BY <3>1 DEF EndOK
    <2>3. \A v \in Slots : ~ At(v, "done")' /\ (At(v, "off")' => At(v, "off"))
        BY <1>5, <2>2 DEF At
    <2>4. 1 \in Slots
        BY CrawlAssumption
    <2> QED
        BY <1>3, <2>1, <2>3, <2>4 DEF EndOK
<1>15. IsFiniteSet(frontier')
    BY <1>2, FS_Subset
<1> QED
    BY <1>9, <1>10, <1>11, <1>13, <1>14, <1>15

\* A page that could not be read leaves nothing.
LEMMA FailCovers ==
    ASSUME CrawlInv, CoverInv, NEW w \in Slots, Fail(w)
    PROVE  CoverInv'
<1> USE DEF CoverInv
<1>1. worker \in [Slots -> [pc : WorkerPcs, item : Items]]
    BY DEF CrawlInv, CrawlTypeOK
<1>2. /\ At(w, "visit") /\ Notify(w)
      /\ UNCHANGED <<stage, call, todo, visited, tries, crawled, pages, budget, frontier>>
    BY DEF Fail, AbsorbError
<1>3. \A v \in Slots : /\ worker'[v].item = worker[v].item
                       /\ worker'[v].pc = "look" \/ (worker'[v].pc = worker[v].pc /\ v # w)
    BY <1>1, <1>2 DEF Notify
<1>4. Visits' \subseteq Visits
    BY <1>3 DEF Visits, Visitors, At
<1>5. ReachOK' /\ LinksOK' /\ DepthOK'
    BY <1>2, <1>4, QuietReaches
<1>6. SeedsOK'
    BY <1>2, SameSite DEF SeedsOK
<1>7. inflight # {}
    BY <1>2 DEF CrawlInv, WorkersOK, Visitors
<1>8. EndOK'
    <2>1. stage \in {"workers", "failed"} /\ \A v \in Slots : ~ At(v, "done")
        BY <1>2, <1>7 DEF EndOK, At
    <2>2. 1 \in Slots
        BY CrawlAssumption
    <2> QED
        BY <1>2, <1>3, <2>1, <2>2 DEF EndOK, At
<1> QED
    BY <1>2, <1>5, <1>6, <1>8

-----------------------------------------------------------------------------
(* The steps that read a page *)

\* What a function makes of finitely many things is finite.
LEMMA FiniteImage ==
    ASSUME NEW S, IsFiniteSet(S), NEW f
    PROVE  IsFiniteSet({f[x] : x \in S})
<1> DEFINE T == {f[x] : x \in S}
           g == [x \in S |-> f[x]]
<1>1. g \in [S -> T] /\ \A t \in T : \E x \in S : g[x] = t
    OBVIOUS
<1>2. g \in Surjection(S, T)
    BY <1>1, Zenon DEF Surjection
<1> HIDE DEF T, g
<1>3. IsFiniteSet(T)
    BY <1>2, FS_Surjection, Zenon
<1> QED
    BY <1>3 DEF T

\* _absorb_result: all that it adds is one hop further and was nowhere, and it
\* leaves out no link that may be followed.
LEMMA AbsorbCovers ==
    ASSUME CrawlInv, CoverInv, UNCHANGED call, NEW item \in Items, Absorb(item),
           item.url \in Near[item.depth], item.depth <= call.depth,
           item.url \in visited', visited \subseteq visited', inflight \subseteq visited
    PROVE  /\ Seeds' = Seeds /\ Leads' = Leads
           /\ \A n \in Nat : Near[n] \subseteq Near'[n]
           /\ frontier' = frontier \cup Discovered(item) /\ pages' = pages \cup {item}
           /\ \A i \in Discovered(item) :
                 /\ i \in Items /\ i.depth = item.depth + 1 /\ i.depth <= call.depth
                 /\ i.url \in Near'[i.depth] /\ i.url \notin visited
           /\ ~ Raises(item) /\ item.depth < call.depth => Leads[item.url] \subseteq Found'
           /\ Found \subseteq Found'
           /\ IsFiniteSet(frontier')
<1> USE DEF CoverInv
<1>1. /\ call \in Asked /\ frontier \subseteq Items /\ call.depth \in Nat
      /\ call.links \in [Urls -> Seq(Urls)] /\ call.allowed \subseteq Urls
    BY CrawlAssumption DEF CrawlInv, CrawlTypeOK
<1>2. frontier' = frontier \cup Discovered(item) /\ pages' = pages \cup {item}
    BY DEF Absorb
<1>3. Seeds' = Seeds /\ Leads' = Leads
    BY SameSite
<1>4. /\ \A n \in Nat : Near[n] \subseteq Near'[n]
      /\ \A n \in Nat : item.url \in Near[n] => Leads[item.url] \subseteq Near'[n + 1]
    BY <1>2, PageBringsNearer DEF CrawlInv
<1>5. /\ item.url \in Urls /\ item.depth \in Nat
      /\ Leads[item.url] = Range(Site.links[item.url]) \cap call.allowed
    BY DEF Items, Leads
<1> DEFINE links == Site.links[item.url]
<1>6. links \in Seq(Urls) /\ Read(links) \subseteq Range(links) /\ IsFiniteSet(Read(links))
    <2>1. links \in Seq(Urls)
        BY <1>1, <1>5 DEF Site
    <2>2. DOMAIN links = 1..Len(links) /\ Len(links) \in Nat
        BY <2>1
    <2> HIDE DEF links
    <2>3. IsFiniteSet(DOMAIN links)
        BY <2>2, FS_Interval
    <2> DEFINE bad == {k \in DOMAIN links : links[k] \in call.unparsable}
               ks == {k \in DOMAIN links : \A b \in bad : k < b}
    <2>4. IsFiniteSet(ks)
        BY <2>3, FS_Subset
    <2>5. Read(links) = {links[k] : k \in ks}
        BY DEF Read
    <2> HIDE DEF ks
    <2>6. IsFiniteSet({links[k] : k \in ks})
        BY <2>4, FiniteImage
    <2>7. \A k \in ks : k \in DOMAIN links
        BY DEF ks
    <2> QED
        BY <2>1, <2>5, <2>6, <2>7 DEF Range
<1>7. CASE ~ Follows(item)
    <2>1. Discovered(item) = {} /\ ~ (item.depth < call.depth)
        BY <1>7 DEF Discovered, Follows
    <2>2. frontier' = frontier
        BY <1>2, <2>1
    <2> QED
        BY <1>2, <1>3, <1>4, <2>1, <2>2 DEF Found, UrlsOf
<1>8. CASE Follows(item)
    <2> DEFINE new == {v \in Read(links) \ {item.url} : UrlAllowed(v) /\ v \notin KnownUrls}
               as == [u \in Urls |-> [url |-> u, depth |-> item.depth + 1]]
    <2>1. item.depth < call.depth /\ item.depth + 1 <= call.depth /\ item.depth + 1 \in Nat
        BY <1>1, <1>5, <1>8 DEF Follows
    <2>2. new \subseteq Read(links) /\ new \subseteq Leads[item.url] /\ new \subseteq Urls
          /\ new \cap visited = {}
        BY <1>1, <1>5, <1>6 DEF UrlAllowed, KnownUrls
    <2>3. Discovered(item) = {[url |-> u, depth |-> item.depth + 1] : u \in new}
        BY <1>8 DEF Discovered
    <2>4. \A u \in new : as[u] = [url |-> u, depth |-> item.depth + 1]
        BY <2>2
    <2>5. ~ Raises(item) => Read(links) = Range(links)
        <3>1. ~ Raises(item) => \A k \in DOMAIN links : links[k] \notin call.unparsable
            BY <1>8 DEF Raises, Range
        <3> HIDE DEF links
        <3> QED
            BY <3>1 DEF Read, Range
    <2> HIDE DEF links
    <2>6. \A u \in Leads[item.url] : ~ Raises(item) => u \in new \/ u \in Found \/ u \in visited'
        <3>1. Leads[item.url] = Range(links) \cap call.allowed
            BY <1>5 DEF links
        <3> QED
            BY <2>5, <3>1 DEF UrlAllowed, KnownUrls, Found, UrlsOf
    <2> HIDE DEF new
    <2>7. \A i \in Discovered(item) :
              /\ i \in Items /\ i.depth = item.depth + 1 /\ i.depth <= call.depth
              /\ i.url \in Near'[i.depth] /\ i.url \notin visited
        BY <1>4, <1>5, <2>1, <2>2, <2>3 DEF Items
    <2>8. UrlsOf(Discovered(item)) = new
        <3>1. \A i \in Discovered(item) : i.url \in new
            BY <2>3
        <3>2. ASSUME NEW u \in new
              PROVE  \E i \in Discovered(item) : i.url = u
            <4>1. [url |-> u, depth |-> item.depth + 1] \in Discovered(item)
                BY <2>3
            <4> QED
                BY <4>1
        <3> QED
            BY <3>1, <3>2 DEF UrlsOf
    <2>9. Found' = visited' \cup UrlsOf(frontier) \cup new
        <3>1. UrlsOf(frontier') = UrlsOf(frontier) \cup new
            BY <1>2, <2>8 DEF UrlsOf
        <3> QED
            BY <3>1 DEF Found, UrlsOf
    <2>10. Found \subseteq Found' /\ (~ Raises(item) => Leads[item.url] \subseteq Found')
        BY <2>6, <2>9 DEF Found
    <2>11. IsFiniteSet(Discovered(item))
        <3>1. IsFiniteSet(new)
            BY <1>6, <2>2, FS_Subset
        <3>2. Discovered(item) = {as[u] : u \in new}
            BY <2>3, <2>4
        <3> HIDE DEF as
        <3>3. IsFiniteSet({as[u] : u \in new})
            BY <3>1, FiniteImage
        <3> QED
            BY <3>2, <3>3
    <2>12. IsFiniteSet(frontier')
        BY <1>2, <2>11, FS_Union
    <2> QED
        BY <1>2, <1>3, <1>4, <2>7, <2>10, <2>12
<1> QED
    BY <1>7, <1>8

\* A bootstrap URL that is visited, read or not.
LEMMA BootstrapCovers ==
    ASSUME CrawlInv, CoverInv, NEW ok \in BOOLEAN, VisitBootstrap(ok)
    PROVE  CoverInv'
<1> USE DEF CoverInv
<1>1. /\ todo \in Seq(Bootstrapped) /\ todo # <<>> /\ call \in Asked
      /\ tries \in [Urls -> Nat] /\ crawled \in Nat /\ budget \in Nat
      /\ frontier \subseteq Items /\ pages \subseteq Items
      /\ stage = "bootstrap" /\ \A v \in Slots : At(v, "off")
    BY BudgetsOfTheCall
    DEF CrawlInv, CrawlTypeOK, BudgetOK, WorkersOK, VisitBootstrap, Booting, Before
<1> DEFINE u == Boot.url
<1>2. /\ u = Head(todo) /\ crawled < budget /\ u \in call.allowed
      /\ visited' = visited \cup {u} /\ todo' = Tail(todo)
      /\ tries' = [tries EXCEPT ![u] = @ + 1]
      /\ stage' \in {"bootstrap", "failed"}
      /\ UNCHANGED <<call, worker, inflight>>
    BY <1>1 DEF VisitBootstrap, Boot, UrlAllowed, Try
<1>3. u \in Seeds /\ u \in Urls /\ Boot \in Items /\ Boot.depth = 0
    <2>1. Head(todo) \in Bootstrapped
        BY <1>1
    <2>2. call.allowed \subseteq Urls
        BY <1>1, CrawlAssumption
    <2> QED
        BY <1>2, <2>1, <2>2 DEF Seeds, Boot, Items
<1>4. Visits = {} /\ Visits' = {}
    BY <1>1, <1>2 DEF Visits, Visitors, At
<1>5. /\ call.depth \in Nat /\ Near[0] = Seeds
      /\ \A n \in Nat : Seeds \subseteq Near[n]
    <2>1. call.depth \in Nat
        BY <1>1, CrawlAssumption
    <2>2. Near[0] = Seeds /\ \A n \in Nat : Near[0] \subseteq Near[n]
        BY NearIsCounted DEF CrawlInv
    <2> QED
        BY <2>1, <2>2
<1>6. Seeds' = Seeds /\ Leads' = Leads
    BY <1>2, SameSite
<1>7. \A v \in visited' : v \in Urls /\ tries'[v] > 0 /\ v \in Near[call.depth]
    <2>1. \A v \in Urls : tries'[v] >= tries[v] /\ tries'[v] \in Nat
        BY <1>1, <1>2, <1>3
    <2>2. tries'[u] > 0
        BY <1>1, <1>2, <1>3
    <2>3. u \in Near[call.depth]
        BY <1>3, <1>5
    <2> HIDE DEF u
    <2> QED
        BY <1>1, <1>2, <1>3, <2>1, <2>2, <2>3 DEF ReachOK
<1>8. SeedsOK'
    <2>1. Range(todo) = {u} \cup Range(Tail(todo))
        BY <1>1, <1>2, HeadAndRest
    <2>2. Seeds \subseteq visited \cup Range(todo)
        BY <1>1, <1>2 DEF SeedsOK, Before
    <2> HIDE DEF u
    <2> QED
        BY <1>2, <1>6, <2>1, <2>2 DEF SeedsOK, Before
<1>9. EndOK'
    BY <1>1, <1>2 DEF EndOK, At
<1>10. CASE ok
    <2>1. Absorb(Boot) /\ (Raises(Boot) => stage' = "failed")
        BY <1>10 DEF VisitBootstrap
    <2>2. inflight \subseteq visited
        BY DEF CrawlInv, FrontierOK
    <2>3. /\ \A n \in Nat : Near[n] \subseteq Near'[n]
          /\ frontier' = frontier \cup Discovered(Boot) /\ pages' = pages \cup {Boot}
          /\ \A i \in Discovered(Boot) :
                 /\ i \in Items /\ i.depth = Boot.depth + 1 /\ i.depth <= call.depth
                 /\ i.url \in Near'[i.depth] /\ i.url \notin visited
          /\ ~ Raises(Boot) /\ Boot.depth < call.depth => Leads[u] \subseteq Found'
          /\ Found \subseteq Found'
          /\ IsFiniteSet(frontier')
        BY <1>2, <1>3, <1>5, <2>1, <2>2, AbsorbCovers
    <2>4. \A i \in InHand' : i \in InHand \/ i \in Discovered(Boot) \/ i = Boot
        BY <1>4, <2>3 DEF InHand
    <2> HIDE DEF u
    <2>5. ReachOK'
        <3>1. \A i \in InHand : i \in Items
            BY <1>1, <1>4 DEF InHand
        <3>2. \A i \in InHand' : i.depth <= call.depth /\ i.url \in Near'[i.depth]
            <4>1. \A i \in InHand : i.depth <= call.depth /\ i.url \in Near'[i.depth]
                BY <2>3, <3>1 DEF ReachOK, Items
            <4>2. Boot.depth <= call.depth /\ Boot.url \in Near'[Boot.depth]
                BY <1>3, <1>5, <2>3 DEF u
            <4> QED
                BY <2>3, <2>4, <4>1, <4>2
        <3>3. \A v \in visited' : v \in Near'[call.depth]
            BY <1>5, <1>7, <2>3
        <3> QED
            BY <1>2, <1>7, <3>2, <3>3 DEF ReachOK
    <2>6. LinksOK'
        <3>1. \A p \in pages : p.depth < call.depth => Leads[p.url] \subseteq Found
            BY <1>1 DEF LinksOK, Before
        <3> QED
            BY <1>2, <1>6, <2>1, <2>3, <3>1 DEF LinksOK, Before, u
    <2>7. DepthOK'
        BY <1>1, <1>2, <1>3, <1>4, <2>3 DEF DepthOK, Before
    <2> QED
        BY <1>8, <1>9, <2>3, <2>5, <2>6, <2>7
<1>11. CASE ~ ok
    <2>1. UNCHANGED <<crawled, pages, budget, frontier>>
        BY <1>11 DEF VisitBootstrap, AbsorbError
    <2>2. Near' = Near
        BY <1>2, <2>1, SameSite
    <2>3. InHand' = InHand
        BY <1>4, <2>1 DEF InHand
    <2> HIDE DEF u
    <2>4. Found \subseteq Found'
        BY <1>2, <2>1 DEF Found, UrlsOf
    <2>5. ReachOK'
        BY <1>2, <1>7, <2>2, <2>3 DEF ReachOK
    <2>6. LinksOK'
        BY <1>1, <1>2, <1>6, <2>1, <2>4 DEF LinksOK, Before
    <2>7. DepthOK'
        BY <1>1, <1>2, <1>4, <2>1 DEF DepthOK, Before
    <2> QED
        BY <1>8, <1>9, <2>1, <2>5, <2>6, <2>7
<1> QED
    BY <1>10, <1>11

\* A page that could be read by a worker.
LEMMA SucceedCovers ==
    ASSUME CrawlInv, CoverInv, NEW w \in Slots, Succeed(w)
    PROVE  CoverInv'
<1> USE DEF CoverInv
<1> DEFINE item == worker[w].item
<1>1. /\ worker \in [Slots -> [pc : WorkerPcs, item : Items]]
      /\ frontier \subseteq Items /\ pages \subseteq Items
      /\ call \in Asked /\ call.depth \in Nat
    BY CrawlAssumption DEF CrawlInv, CrawlTypeOK
<1>2. /\ At(w, "visit") /\ inflight' = inflight \ {item.url} /\ Absorb(item)
      /\ UNCHANGED <<call, todo, visited, tries>>
    BY DEF Succeed
<1>3. \/ ~ Raises(item) /\ Notify(w) /\ stage' = stage
      \/ Raises(item) /\ Goto(w, "broken") /\ (stage = "workers" => stage' = "failed")
                      /\ (stage # "workers" => stage' = stage)
    BY DEF Succeed, GatherRaises
<1>4. /\ w \in Visitors /\ item \in Visits /\ item \in Items
      /\ Visits \subseteq Items /\ item \in InHand
    BY <1>1, <1>2 DEF Visits, Visitors, InHand
<1>5. /\ inflight # {} /\ item.url \in visited /\ inflight \subseteq visited
      /\ stage \notin Before
    BY <1>2, <1>4 DEF CrawlInv, WorkersOK, FrontierOK, At
<1>6. /\ \A v \in Slots : /\ worker'[v].item = worker[v].item
                          /\ worker'[v].pc \in {"look", "broken"}
                             \/ (worker'[v].pc = worker[v].pc /\ v # w)
    BY <1>1, <1>3 DEF Notify, Goto
<1>7. Visits' \subseteq Visits
    BY <1>6 DEF Visits, Visitors, At
<1>8. stage \in {"workers", "failed"} /\ \A v \in Slots : ~ At(v, "done")
    BY <1>2, <1>5 DEF EndOK, At
<1>9. item.depth <= call.depth /\ item.url \in Near[item.depth] /\ item.depth >= 1
    BY <1>4 DEF ReachOK, DepthOK
<1>10. stage' \in {"workers", "failed"} /\ (stage' = "workers" => stage = "workers" /\ ~ Raises(item))
    BY <1>3, <1>8
<1> HIDE DEF item
<1>11. /\ Seeds' = Seeds /\ Leads' = Leads
       /\ \A n \in Nat : Near[n] \subseteq Near'[n]
       /\ frontier' = frontier \cup Discovered(item) /\ pages' = pages \cup {item}
       /\ \A i \in Discovered(item) :
             /\ i \in Items /\ i.depth = item.depth + 1 /\ i.depth <= call.depth
             /\ i.url \in Near'[i.depth] /\ i.url \notin visited
       /\ ~ Raises(item) /\ item.depth < call.depth => Leads[item.url] \subseteq Found'
       /\ Found \subseteq Found'
       /\ IsFiniteSet(frontier')
    BY <1>2, <1>4, <1>5, <1>9, AbsorbCovers
<1>12. /\ \A i \in InHand' : i \in InHand \/ i \in Discovered(item)
       /\ InHand \subseteq Items
    BY <1>1, <1>4, <1>7, <1>11 DEF InHand
<1>13. ReachOK'
    <2>1. \A i \in InHand : i.depth <= call.depth /\ i.url \in Near'[i.depth]
        BY <1>11, <1>12 DEF ReachOK, Items
    <2>2. \A i \in InHand' : i.depth <= call.depth /\ i.url \in Near'[i.depth]
        BY <1>11, <1>12, <2>1
    <2>3. \A u \in visited : u \in Near'[call.depth]
        BY <1>1, <1>11 DEF ReachOK
    <2> QED
        BY <1>2, <2>2, <2>3 DEF ReachOK
<1>14. LinksOK'
    <2>1. SUFFICES ASSUME stage' = "workers"
                   PROVE  \A p \in pages' : p.depth < call.depth => Leads[p.url] \subseteq Found'
        BY <1>2, <1>10, <1>11 DEF LinksOK, Before
    <2>2. \A p \in pages : p.depth < call.depth => Leads[p.url] \subseteq Found
        BY <1>10, <2>1 DEF LinksOK
    <2> QED
        BY <1>10, <1>11, <2>1, <2>2
<1>15. SeedsOK'
    BY <1>2, <1>10, <1>11 DEF SeedsOK, Before
<1>16. DepthOK'
    <2>1. \A i \in Discovered(item) : i.depth >= 1 /\ i.depth <= call.depth
        BY <1>4, <1>9, <1>11 DEF Items
    <2>2. \A i \in frontier' \cup Visits' : i.depth >= 1
        BY <1>7, <1>11, <2>1 DEF DepthOK
    <2>3. ASSUME stage' = "workers", NEW i \in InHand', i.depth >= 2
          PROVE  i.url \notin Seeds /\ \A p \in pages' : p.depth = 0 => i.url \notin Leads[p.url]
        <3>1. stage = "workers"
            BY <1>10, <2>3
        <3>2. \A p \in pages' : p.depth = 0 => p \in pages
            BY <1>4, <1>9, <1>11 DEF Items
        <3>3. CASE i \in InHand
            BY <2>3, <3>1, <3>2, <3>3 DEF DepthOK
        <3>4. CASE i \in Discovered(item)
            <4>1. i.url \notin visited /\ Seeds \subseteq visited
                BY <1>11, <3>1, <3>4 DEF SeedsOK
            <4>2. item.depth < call.depth /\ 0 < call.depth
                BY <1>1, <1>4, <1>9, <1>11, <3>4 DEF Items
            <4>3. i.url \notin UrlsOf(frontier)
                <5>1. UrlsOf(Discovered(item)) \cap KnownUrls = {}
                    BY <1>1, <1>4, DiscoveredIsNew
                <5> QED
                    BY <3>4, <5>1 DEF UrlsOf, KnownUrls
            <4>4. \A p \in pages : p.depth = 0 => Leads[p.url] \subseteq Found
                BY <3>1, <4>2 DEF LinksOK
            <4> QED
                BY <3>2, <4>1, <4>3, <4>4 DEF Found
        <3> QED
            BY <1>12, <3>3, <3>4
    <2> QED
        BY <1>5, <1>10, <1>11, <2>2, <2>3 DEF DepthOK, Before
<1>17. EndOK'
    <2>1. 1 \in Slots
        BY CrawlAssumption
    <2> QED
        BY <1>6, <1>8, <1>10, <2>1 DEF EndOK, At
<1> QED
    BY <1>11, <1>13, <1>14, <1>15, <1>16, <1>17

-----------------------------------------------------------------------------
(* The crawl is complete *)

LEMMA CoverInitHolds == Init => CoverInv
<1> SUFFICES ASSUME Init PROVE CoverInv
    OBVIOUS
<1> USE DEF Init, CrawlInit
<1>1. call \in Asked /\ call.seeds \in Seq(Urls)
    BY CrawlAssumption
<1>2. Visits = {} /\ \A w \in Slots : At(w, "off")
    BY DEF Visits, Visitors, At
<1>3. ReachOK /\ LinksOK /\ DepthOK
    BY <1>2 DEF ReachOK, LinksOK, DepthOK, InHand
<1>4. SeedsOK
    <2>1. \A s \in Seq(Urls), x \in Urls : Range(<<x>> \o s) = {x} \cup Range(s)
        <3> SUFFICES ASSUME NEW s \in Seq(Urls), NEW x \in Urls
                     PROVE  Range(<<x>> \o s) = {x} \cup Range(s)
            OBVIOUS
        <3>1. /\ <<x>> \o s \in Seq(Urls) /\ <<x>> \o s # <<>>
              /\ Head(<<x>> \o s) = x /\ Tail(<<x>> \o s) = s
            OBVIOUS
        <3> QED
            BY <3>1, HeadAndRest
    <2>2. call.start \in Urls
        BY <1>1, CrawlAssumption
    <2>3. Range(todo) = Bootstrapped
        BY <1>1, <2>1, <2>2 DEF Bootstrapped
    <2> QED
        BY <2>3 DEF SeedsOK, Seeds, Before
<1>5. EndOK
    BY <1>2 DEF EndOK, At
<1>6. IsFiniteSet(frontier)
    BY FS_EmptySet
<1> QED
    BY <1>3, <1>4, <1>5, <1>6 DEF CoverInv

LEMMA CoverStep ==
    ASSUME CrawlInv, CoverInv, [Next]_vars
    PROVE  CoverInv'
<1>1. CASE Crawling(SkipBootstrap \/ StartWorkers \/ Gathered \/ \E ok \in BOOLEAN : VisitBootstrap(ok))
    BY <1>1, SkipCovers, StartCovers, GatheredCovers, BootstrapCovers DEF Crawling
<1>2. CASE Crawling(\E w \in Slots : WorkerStep(w))
    BY <1>2, MoveCovers, TakeCovers, SucceedCovers, FailCovers DEF Crawling, WorkerStep
<1>3. CASE Crawling(Acquire \/ PatternRaises \/ BrowserDies)
    <2>1. /\ UNCHANGED <<call, todo, frontier, visited, inflight, crawled, budget, worker, pages, tries>>
          /\ stage' \in Before => stage \in Before
          /\ stage' \in {"workers", "crawled"} => stage' = stage
          /\ stage \in {"workers", "failed"} => stage' \in {stage, "failed"}
        BY <1>3 DEF Crawling, Acquire, PatternRaises, BrowserDies, Booting, crawl, Before
    <2> QED
        BY <2>1, StageCovers
<1>4. CASE PlanStep \/ OtherRecords \/ OtherSavesGraph \/ RecordingOnly(RecordNext)
    <2>1. UNCHANGED crawl
        BY <1>4 DEF PlanStep, OtherRecords, OtherSavesGraph, RecordingOnly, Validate, PageStructure,
           SaveInventory, RepoAnswers, RepoFallsBack, PlanHeuristic, PlanWithoutKey, LlmPlans,
           LlmFails, PlannerRaises, Planned, Gate, ReadPrevious, ReadRecorded, SaveGraph, LinkJourneys
    <2>2. /\ stage' \in Before => stage \in Before
          /\ stage' \in {"workers", "crawled"} => stage' = stage
          /\ stage \in {"workers", "failed"} => stage' \in {stage, "failed"}
        BY <1>4 DEF PlanStep, OtherRecords, OtherSavesGraph, RecordingOnly, Validate, PageStructure,
           SaveInventory, RepoAnswers, RepoFallsBack, PlanHeuristic, PlanWithoutKey, LlmPlans,
           LlmFails, PlannerRaises, Planned, Gate, ReadPrevious, ReadRecorded, SaveGraph, LinkJourneys,
           Is, Then, Before
    <2> QED
        BY <2>1, <2>2, StageCovers DEF crawl
<1>5. CASE UNCHANGED vars
    BY <1>5, StageCovers DEF vars, crawl
<1>6. Crawling(CrawlNext) =>
          \/ Crawling(SkipBootstrap \/ StartWorkers \/ Gathered \/ \E ok \in BOOLEAN : VisitBootstrap(ok))
          \/ Crawling(\E w \in Slots : WorkerStep(w))
          \/ Crawling(Acquire \/ PatternRaises \/ BrowserDies)
    BY DEF Crawling, CrawlNext, CallStep
<1> QED
    BY <1>1, <1>2, <1>3, <1>4, <1>5, <1>6 DEF Next

\* A crawl that ended with budget to spare has nothing left in its frontier:
\* one hop after the other, what it should have tried was visited.
LEMMA CoverEnds == CrawlInv /\ CoverInv => CrawlCovers
<1> SUFFICES ASSUME CrawlInv, CoverInv PROVE CrawlCovers
    OBVIOUS
<1> USE DEF CoverInv
<1>1. call \in Asked /\ call.depth \in Nat /\ tries \in [Urls -> Nat]
    BY CrawlAssumption DEF CrawlInv, CrawlTypeOK
<1>2. {u \in Urls : tries[u] > 0} \subseteq Hops(Seeds, Ways)[call.depth]
    <2>1. \A u \in Urls : tries[u] > 0 => u \in visited
        BY <1>1 DEF CrawlInv, TriesOK
    <2> QED
        BY <2>1 DEF ReachOK, Near
<1>3. ASSUME stage = "crawled", crawled < budget, call.depth <= 2
      PROVE  \A u \in Hops(Seeds \ ReadLate, Ways)[call.depth] : tries[u] > 0
    <2>1. crawled \in Nat /\ budget \in Nat /\ pages \subseteq Items
        BY BudgetsOfTheCall DEF CrawlInv, CrawlTypeOK, BudgetOK
    <2>2. frontier = {} /\ Seeds \subseteq visited
        BY <1>3, <2>1 DEF EndOK, SeedsOK
    <2>3. /\ \A p \in pages : p.depth < call.depth => Leads[p.url] \subseteq visited
          /\ \A p \in pages : p.depth >= 2 =>
                p.url \notin Seeds /\ \A q \in pages : q.depth = 0 => p.url \notin Leads[q.url]
        BY <1>3, <2>2 DEF LinksOK, DepthOK, InHand, Found, UrlsOf
    <2> DEFINE from == Seeds \ ReadLate
               h == Hops(from, Ways)
    <2>4. /\ h[0] = from
          /\ \A n \in Nat : h[n + 1] = h[n] \cup UNION {Ways[u] : u \in h[n]}
        <3>1. from \in SUBSET Urls /\ Ways \in [Urls -> SUBSET Urls]
            BY NearIsCounted DEF CrawlInv
        <3> HIDE DEF from
        <3>2. /\ h[0] = from
              /\ \A n \in Nat : /\ h[n] \subseteq Urls
                                /\ h[n + 1] = h[n] \cup UNION {Ways[u] : u \in h[n]}
            BY <3>1, HopsAreCounted, Zenon
        <3> QED
            BY <3>2
    <2>5. \A u \in from : \A v : v \in Ways[u] => \E p \in pages : p.url = u /\ p.depth = 0 /\ v \in Leads[u]
        <3> SUFFICES ASSUME NEW u \in from, NEW v \in Ways[u]
                     PROVE  \E p \in pages : p.url = u /\ p.depth = 0 /\ v \in Leads[u]
            OBVIOUS
        <3>1. u \in Urls /\ u \in Bootstrapped /\ u \notin ReadLate
            BY NearIsCounted DEF CrawlInv, Seeds
        <3>2. (\E p \in pages : p.url = u) /\ v \in Leads[u]
            BY <3>1 DEF Ways, Leads
        <3>3. PICK p \in pages : p.url = u
            BY <3>2
        <3>4. CASE p.depth > 0
            <4>1. \E q \in pages : q.depth = 0 /\ q.url = u
                BY <3>1, <3>3, <3>4 DEF ReadLate
            <4> QED
                BY <3>2, <4>1
        <3>5. CASE ~ (p.depth > 0)
            BY <2>1, <3>2, <3>3, <3>5 DEF Items
        <3> QED
            BY <3>4, <3>5
    <2>6. \A u \in Urls : \A v : v \in Ways[u] => \E p \in pages : p.url = u /\ v \in Leads[u]
        BY DEF Ways, Leads
    <2> HIDE DEF from, h
    <2>7. \A u \in h[0] : u \in visited /\ u \in Seeds
        BY <2>2, <2>4 DEF from
    <2>8. ASSUME call.depth >= 1
          PROVE  \A v \in h[1] : /\ v \in visited
                                 /\ v \in Seeds \/ \E p \in pages : p.depth = 0 /\ v \in Leads[p.url]
        <3>1. \A v \in h[1] : v \in h[0] \/ \E u \in from : v \in Ways[u]
            <4>1. h[0 + 1] = h[0] \cup UNION {Ways[u] : u \in h[0]}
                BY <2>4
            <4> QED
                BY <2>4, <4>1
        <3>2. \A u \in from : \A v \in Ways[u] :
                  v \in visited /\ \E p \in pages : p.depth = 0 /\ v \in Leads[p.url]
            BY <1>1, <2>3, <2>5, <2>8
        <3> QED
            BY <2>7, <3>1, <3>2
    <2>9. ASSUME call.depth = 2
          PROVE  \A v \in h[2] : v \in visited
        <3>1. \A v \in h[2] : v \in h[1] \/ \E u \in h[1] : v \in Ways[u]
            <4>1. h[1 + 1] = h[1] \cup UNION {Ways[u] : u \in h[1]}
                BY <2>4
            <4> QED
                BY <4>1
        <3>2. ASSUME NEW u \in h[1], NEW v \in Ways[u]
              PROVE  v \in visited
            <4>1. u \in visited /\ (u \in Seeds \/ \E p \in pages : p.depth = 0 /\ u \in Leads[p.url])
                BY <2>8, <2>9
            <4>2. u \in Urls
                BY <4>1 DEF ReachOK
            <4>3. PICK p \in pages : p.url = u /\ v \in Leads[u]
                BY <2>6, <4>2
            <4>4. p.depth < call.depth
                BY <2>1, <2>3, <2>9, <4>1, <4>3 DEF Items
            <4> QED
                BY <2>3, <4>3, <4>4
        <3> QED
            BY <2>8, <2>9, <3>1, <3>2
    <2>10. \A u \in h[call.depth] : u \in visited
        <3>1. call.depth \in {0, 1, 2}
            BY <1>1, <1>3
        <3> QED
            BY <2>7, <2>8, <2>9, <3>1
    <2> QED
        BY <2>10 DEF ReachOK, h, from
<1> QED
    BY <1>2, <1>3 DEF CrawlCovers

\* A crawl tries what its pages lead to within max_depth hops, and nothing else,
\* on every site, with any number of workers, whatever fails.
THEOREM CrawlIsComplete == Spec => []CrawlCovers
<1>1. Init => CrawlInv /\ CoverInv
    BY CrawlInitHolds, CoverInitHolds DEF Init
<1>2. CrawlInv /\ CoverInv /\ [Next]_vars => CrawlInv' /\ CoverInv'
    BY CrawlInvariant, CoverStep
<1>3. CrawlInv /\ CoverInv => CrawlCovers
    BY CoverEnds
<1> QED
    BY <1>1, <1>2, <1>3, PTL DEF Spec

-----------------------------------------------------------------------------
(* Lists of flows *)

\* A function on 1..n is a list of n elements.
LEMMA ListOf ==
    ASSUME NEW n \in Nat, NEW s, s = [k \in 1..n |-> s[k]]
    PROVE  s \in Seq(Range(s)) /\ Len(s) = n /\ DOMAIN s = 1..n
<1>1. DOMAIN s = 1..n
    OBVIOUS
<1>2. \A k \in 1..n : s[k] \in Range(s)
    BY <1>1 DEF Range
<1> HIDE DEF Range
<1>3. s \in [1..n -> Range(s)]
    BY <1>2, Zenon
<1>4. s \in Seq(Range(s))
    BY <1>3, SeqDef
<1>5. Len(s) = n
    BY <1>1, <1>4
<1> QED
    BY <1>1, <1>4, <1>5

\* No element that is picked is lost: the index an element gets is the number
\* of those up to it, and no two have the same.
LEMMA PickedIs ==
    ASSUME NEW s, NEW at \in SUBSET Nat, IsFiniteSet(at)
    PROVE  /\ Picked(s, at) \in Seq(Range(Picked(s, at)))
           /\ Len(Picked(s, at)) = Cardinality(at)
           /\ \A i \in at : \E k \in 1..Cardinality(at) : Picked(s, at)[k] = s[i]
<1> DEFINE upto(i) == {j \in at : j <= i}
           rank(i) == Cardinality(upto(i))
           n == Cardinality(at)
<1>1. n \in Nat
    BY FS_CardinalityType
<1>2. \A i \in at : IsFiniteSet(upto(i)) /\ rank(i) \in Nat /\ rank(i) <= n
    BY FS_Subset, FS_CardinalityType
<1>3. \A i \in at : rank(i) \in 1..n
    <2>1. \A i \in at : i \in upto(i)
        OBVIOUS
    <2>2. \A i \in at : rank(i) # 0
        BY <1>2, <2>1, FS_EmptySet
    <2> HIDE DEF upto
    <2> QED
        BY <1>1, <1>2, <2>2
<1>4. ASSUME NEW i \in at, NEW j \in at, i < j
      PROVE  rank(i) # rank(j)
    <2>1. j \in upto(j) /\ j \notin upto(i)
        BY <1>4
    <2>2. upto(i) \in SUBSET upto(j)
        <3>1. ASSUME NEW k \in upto(i)
              PROVE  k \in upto(j)
            <4>1. k \in at /\ k \in Nat /\ k <= i /\ i \in Nat /\ j \in Nat
                OBVIOUS
            <4>2. k <= j
                BY <1>4, <4>1
            <4> QED
                BY <4>1, <4>2
        <3> HIDE DEF upto
        <3> QED
            BY <3>1
    <2> HIDE DEF upto
    <2>3. upto(i) # upto(j)
        BY <2>1
    <2> QED
        BY <1>2, <2>2, <2>3, FS_Subset
<1>5. \A i, j \in at : rank(i) = rank(j) => i = j
    <2>1. \A i, j \in at : i < j \/ j < i \/ i = j
        OBVIOUS
    <2> HIDE DEF rank
    <2> QED
        BY <1>4, <2>1
<1>6. ASSUME NEW i \in at
      PROVE  Picked(s, at)[rank(i)] = s[i]
    <2> DEFINE c == CHOOSE j \in at : rank(j) = rank(i)
    <2>1. c \in at /\ rank(c) = rank(i)
        OBVIOUS
    <2>2. c = i
        BY <1>5, <2>1
    <2>3. Picked(s, at)[rank(i)] = s[c]
        BY <1>3 DEF Picked
    <2> QED
        BY <2>2, <2>3
<1>7. Picked(s, at) = [k \in 1..n |-> Picked(s, at)[k]]
    BY DEF Picked
<1> HIDE DEF n, rank
<1>8. Picked(s, at) \in Seq(Range(Picked(s, at))) /\ Len(Picked(s, at)) = n
    BY <1>1, <1>7, ListOf, Zenon
<1> QED
    BY <1>3, <1>6, <1>8 DEF n

\* _enrich_discovered_flows and _fallback_flows keep a flow of each name.
LEMMA DistinctKeeps ==
    ASSUME NEW S, NEW s \in Seq(S)
    PROVE  /\ Distinct(s) \in Seq(Range(Distinct(s)))
           /\ \A i \in DOMAIN s : s[i].name # "blank"
                 => \E k \in DOMAIN Distinct(s) : Distinct(s)[k].name = s[i].name
           /\ \A n \in 0..Len(s) :
                 (\A i \in 1..n : s[i].name # "blank" /\ \A j \in 1..(i - 1) : s[j].name # s[i].name)
                     => n <= Len(Distinct(s))
<1> DEFINE firsts == {i \in DOMAIN s : s[i].name \notin {"blank"} \cup {s[j].name : j \in 1..(i - 1)}}
<1>1. DOMAIN s = 1..Len(s) /\ Len(s) \in Nat
    OBVIOUS
<1>2. firsts \in SUBSET Nat /\ IsFiniteSet(firsts)
    <2>1. IsFiniteSet(1..Len(s))
        BY <1>1, FS_Interval
    <2>2. firsts \in SUBSET (1..Len(s))
        BY <1>1
    <2>3. 1..Len(s) \in SUBSET Nat
        OBVIOUS
    <2> HIDE DEF firsts
    <2> QED
        BY <2>1, <2>2, <2>3, FS_Subset
<1>3. Distinct(s) = Picked(s, firsts)
    BY DEF Distinct
<1>4. ASSUME NEW i \in DOMAIN s, s[i].name # "blank"
      PROVE  \E k \in firsts : s[k].name = s[i].name
    <2> DEFINE same == {k \in DOMAIN s : s[k].name = s[i].name}
    <2>1. PICK k \in same : \A j \in same : k <= j
        <3>1. same \in SUBSET Nat /\ i \in same
            BY <1>1
        <3> HIDE DEF same
        <3> QED
            BY <3>1, LeastExists
    <2>2. \A j \in 1..(k - 1) : j \in DOMAIN s /\ j < k
        BY <1>1
    <2>3. \A j \in 1..(k - 1) : s[j].name # s[i].name
        <3>1. \A j \in 1..(k - 1) : ~ (k <= j)
            BY <1>1, <2>2
        <3> QED
            BY <2>1, <2>2, <3>1
    <2>4. k \in firsts
        BY <1>4, <2>1, <2>3
    <2> QED
        BY <2>1, <2>4
<1>5. ASSUME NEW n \in 0..Len(s),
             \A i \in 1..n : s[i].name # "blank" /\ \A j \in 1..(i - 1) : s[j].name # s[i].name
      PROVE  n <= Cardinality(firsts)
    <2>1. 1..n \in SUBSET firsts
        BY <1>1, <1>5
    <2>2. Cardinality(1..n) = n
        BY FS_Interval
    <2> QED
        BY <1>2, <2>1, <2>2, FS_Subset
<1> HIDE DEF firsts
<1>6. /\ Distinct(s) \in Seq(Range(Distinct(s))) /\ Len(Distinct(s)) = Cardinality(firsts)
      /\ \A i \in firsts : \E k \in 1..Cardinality(firsts) : Distinct(s)[k] = s[i]
    BY <1>2, <1>3, PickedIs
<1>7. DOMAIN Distinct(s) = 1..Cardinality(firsts)
    BY <1>6
<1> QED
    BY <1>4, <1>5, <1>6, <1>7

\* The first n of a list, or all of it.
LEMMA FirstFewIs ==
    ASSUME NEW s, s \in Seq(Range(s)), NEW n \in Nat
    PROVE  /\ FirstFew(s, n) \in Seq(Range(FirstFew(s, n)))
           /\ Len(FirstFew(s, n)) \in Nat /\ Len(FirstFew(s, n)) <= n
           /\ Len(s) >= n => Len(FirstFew(s, n)) = n
           /\ Len(s) < n \/ Len(FirstFew(s, n)) < n => FirstFew(s, n) = s
<1> DEFINE few == FirstFew(s, n)
           most == AtMost(n, Len(s))
<1>1. Len(s) \in Nat
    OBVIOUS
<1>2. /\ most \in Nat /\ most <= Len(s) /\ most <= n
      /\ Len(s) >= n => most = n
      /\ Len(s) < n \/ most < n => most = Len(s)
    BY <1>1 DEF AtMost
<1> HIDE DEF most
<1>3. few = SubSeq(s, 1, most)
    BY DEF FirstFew, most
<1>4. few \in Seq(Range(s)) /\ Len(few) = most /\ few = [i \in 1..most |-> few[i]]
    BY <1>1, <1>2, <1>3
<1>5. SubSeq(s, 1, Len(s)) = s
    OBVIOUS
<1>6. most = Len(s) => few = s
    BY <1>3, <1>5
<1> HIDE DEF few
<1>7. few \in Seq(Range(few))
    BY <1>2, <1>4, ListOf, Zenon
<1>8. /\ Len(few) \in Nat /\ Len(few) <= n
      /\ Len(s) >= n => Len(few) = n
      /\ Len(s) < n \/ Len(few) < n => few = s
    BY <1>2, <1>4, <1>6
<1> QED
    BY <1>7, <1>8 DEF few

\* Two lists one after the other.
LEMMA JoinedAre ==
    ASSUME NEW s, NEW t, s \in Seq(Range(s)), t \in Seq(Range(t))
    PROVE  /\ s \o t \in Seq(Range(s \o t))
           /\ Len(s \o t) = Len(s) + Len(t)
           /\ \A i \in 1..Len(s) : i \in DOMAIN (s \o t) /\ (s \o t)[i] = s[i]
           /\ \A i \in 1..Len(t) : Len(s) + i \in DOMAIN (s \o t) /\ (s \o t)[Len(s) + i] = t[i]
<1> DEFINE all == Range(s) \cup Range(t)
           both == s \o t
<1>1. s \in Seq(all) /\ t \in Seq(all) /\ Len(s) \in Nat /\ Len(t) \in Nat
    <2> HIDE DEF Range
    <2> QED
        OBVIOUS
<1> HIDE DEF all
<1>2. both \in Seq(all)
    BY <1>1
<1>3. /\ Len(both) = Len(s) + Len(t) /\ DOMAIN both = 1..(Len(s) + Len(t))
      /\ \A i \in 1..Len(s) : both[i] = s[i]
      /\ \A i \in 1..Len(t) : both[Len(s) + i] = t[i]
    BY <1>1
<1> HIDE DEF both
<1>4. Len(both) \in Nat /\ both = [i \in 1..Len(both) |-> both[i]]
    BY <1>1, <1>2
<1>5. both \in Seq(Range(both))
    BY <1>4, ListOf, Zenon
<1>6. /\ \A i \in 1..Len(s) : i \in DOMAIN both
      /\ \A i \in 1..Len(t) : Len(s) + i \in DOMAIN both
    BY <1>1, <1>3
<1> QED
    BY <1>3, <1>5, <1>6 DEF both

\* One element more at the end.
LEMMA AppendedIs ==
    ASSUME NEW s, s \in Seq(Range(s)), NEW e
    PROVE  /\ Append(s, e) \in Seq(Range(Append(s, e)))
           /\ Len(Append(s, e)) = Len(s) + 1
           /\ \A i \in 1..Len(s) : Append(s, e)[i] = s[i]
           /\ Append(s, e)[Len(s) + 1] = e
           /\ Range(Append(s, e)) = Range(s) \cup {e}
<1> DEFINE t == Append(s, e)
<1>1. /\ Len(s) \in Nat /\ DOMAIN s = 1..Len(s) /\ DOMAIN t = 1..(Len(s) + 1)
      /\ \A i \in 1..Len(s) : t[i] = s[i]
      /\ t[Len(s) + 1] = e /\ Len(t) = Len(s) + 1 /\ t \in Seq(Range(s) \cup {e})
    <2>1. s \in Seq(Range(s) \cup {e})
        BY SMT
    <2> HIDE DEF t
    <2>2. t \in Seq(Range(s) \cup {e})
        BY <2>1 DEF t
    <2> QED
        BY <2>1, <2>2 DEF t
<1> HIDE DEF t
<1>2. t = [k \in 1..(Len(s) + 1) |-> t[k]]
    BY <1>1
<1>3. t \in Seq(Range(t))
    <2>1. Len(s) + 1 \in Nat
        BY <1>1
    <2> QED
        BY <1>2, <2>1, ListOf, Zenon
<1>4. Range(t) = Range(s) \cup {e}
    <2>1. \A i \in DOMAIN t : i \in DOMAIN s \/ i = Len(s) + 1
        BY <1>1
    <2>2. \A i \in DOMAIN s : i \in DOMAIN t /\ t[i] = s[i]
        BY <1>1
    <2>3. Len(s) + 1 \in DOMAIN t
        BY <1>1
    <2> QED
        BY <1>1, <2>1, <2>2, <2>3 DEF Range
<1> QED
    BY <1>1, <1>3, <1>4 DEF t

\* Some indices of a list, none lost.
LEMMA SomePicked ==
    ASSUME NEW s, s \in Seq(Range(s)), NEW at, at \in SUBSET DOMAIN s
    PROVE  /\ Picked(s, at) \in Seq(Range(Picked(s, at)))
           /\ \A i \in at : \E k \in DOMAIN Picked(s, at) : Picked(s, at)[k] = s[i]
<1>1. DOMAIN s = 1..Len(s) /\ Len(s) \in Nat
    OBVIOUS
<1>2. IsFiniteSet(1..Len(s))
    BY <1>1, FS_Interval
<1>3. IsFiniteSet(at)
    BY <1>1, <1>2, FS_Subset
<1>4. at \in SUBSET Nat
    <2>1. 1..Len(s) \in SUBSET Nat
        BY <1>1
    <2> QED
        BY <1>1, <2>1
<1> DEFINE few == Picked(s, at)
<1>5. /\ few \in Seq(Range(few)) /\ Len(few) = Cardinality(at)
      /\ \A i \in at : \E k \in 1..Cardinality(at) : few[k] = s[i]
    BY <1>3, <1>4, PickedIs
<1> HIDE DEF few
<1>6. DOMAIN few = 1..Cardinality(at)
    BY <1>5
<1> QED
    BY <1>5, <1>6 DEF few

-----------------------------------------------------------------------------
(* The plan *)

\* What a planned flow owes a storefront.
Sells(f) == f.crit = "revenue" \/ f.name = "checkout_purchase"

\* A list of flows stays one of the same names when they are classed.
LEMMA InferredIs ==
    ASSUME NEW s, s \in Seq(Range(s)), NEW inv, NEW goal
    PROVE  /\ Inferred(s, inv, goal) \in Seq(Range(Inferred(s, inv, goal)))
           /\ Len(Inferred(s, inv, goal)) = Len(s)
           /\ DOMAIN Inferred(s, inv, goal) = DOMAIN s
           /\ \A i \in DOMAIN s : Inferred(s, inv, goal)[i].name = s[i].name
<1> DEFINE t == Inferred(s, inv, goal)
<1>1. Len(s) \in Nat /\ DOMAIN s = 1..Len(s)
    OBVIOUS
<1>2. DOMAIN t = DOMAIN s /\ t = [i \in DOMAIN s |-> t[i]]
    BY DEF Inferred
<1>3. \A i \in DOMAIN s : t[i].name = s[i].name
    BY DEF Inferred, Says
<1> HIDE DEF t
<1>4. t = [i \in 1..Len(s) |-> t[i]]
    BY <1>1, <1>2, Zenon
<1>5. t \in Seq(Range(t)) /\ Len(t) = Len(s)
    BY <1>1, <1>4, ListOf, Zenon
<1> QED
    BY <1>2, <1>3, <1>5 DEF t

\* _inventory_section_fallback_flows answers a list.
LEMMA SectionsAreListed ==
    ASSUME NEW inv
    PROVE  SectionFlows(inv) \in Seq(Range(SectionFlows(inv)))
<1> DEFINE every == [k \in 1..Sections |->
                        Flow("explore_" \o ToString(k), "other", call.sectionWords[k], "fair")]
           at == inv.routes \cap 1..Sections
           few == Picked(every, at)
<1>1. every \in Seq(Range(every)) /\ DOMAIN every = 1..Sections
    <2>1. Sections \in Nat
        BY DiscoveryAssumption
    <2>2. every = [k \in 1..Sections |-> every[k]]
        OBVIOUS
    <2> HIDE DEF every
    <2> QED
        BY <2>1, <2>2, ListOf, Zenon
<1>2. at \in SUBSET DOMAIN every
    BY <1>1
<1>3. SectionFlows(inv) = FirstFew(few, 5)
    BY DEF SectionFlows
<1> HIDE DEF every, at
<1>4. few \in Seq(Range(few))
    BY <1>1, <1>2, SomePicked
<1> HIDE DEF few
<1> QED
    BY <1>3, <1>4, FirstFewIs

\* _fallback_flows answers three to eight flows, and unless the list is full a
\* storefront has its checkout among them.
LEMMA FallbackHas ==
    ASSUME NEW inv
    PROVE  /\ FallbackFlows(inv) \in Seq(Range(FallbackFlows(inv)))
           /\ Len(FallbackFlows(inv)) \in 3..8
           /\ Storefront(inv.tokens) /\ Len(FallbackFlows(inv)) < 8
                 => \E f \in Range(FallbackFlows(inv)) : Sells(f)
<1> DEFINE sections == SectionFlows(inv)
           sale == StorefrontFlows(inv)
           opening == GenericFlows \o sections
           whole == opening \o sale
           first == Distinct(whole)
           once == Inferred(first, inv, NoGoal)
           few == FirstFew(once, 8)
<1>1. sections \in Seq(Range(sections))
    BY SectionsAreListed
<1>2. /\ GenericFlows \in Seq(Range(GenericFlows)) /\ Len(GenericFlows) = 3
      /\ GenericFlows[1].name = "page_loads" /\ GenericFlows[2].name = "nav_links"
      /\ GenericFlows[3].name = "forms_work"
    <2>1. Len(GenericFlows) = 3 /\ GenericFlows = [k \in 1..3 |-> GenericFlows[k]]
        BY DEF GenericFlows
    <2>2. GenericFlows \in Seq(Range(GenericFlows))
        BY <2>1, ListOf, Zenon
    <2> QED
        BY <2>1, <2>2 DEF GenericFlows, Flow, Says
<1>3. /\ sale \in Seq(Range(sale))
      /\ Storefront(inv.tokens) => Len(sale) = 3 /\ sale[2].name = "checkout_purchase"
    <2>1. Len(sale) \in Nat /\ sale = [k \in 1..Len(sale) |-> sale[k]]
        BY DEF StorefrontFlows
    <2>2. sale \in Seq(Range(sale))
        <3> HIDE DEF sale
        <3> QED
            BY <2>1, ListOf, Zenon
    <2>3. Storefront(inv.tokens) => Len(sale) = 3 /\ sale[2].name = "checkout_purchase"
        BY DEF StorefrontFlows, Ready, Flow, Says
    <2> QED
        BY <2>2, <2>3
<1> HIDE DEF sections, sale
<1>4. /\ opening \in Seq(Range(opening))
      /\ Len(opening) = Len(GenericFlows) + Len(sections)
      /\ \A i \in 1..Len(GenericFlows) : i \in DOMAIN opening /\ opening[i] = GenericFlows[i]
    <2>1. opening = GenericFlows \o sections
        OBVIOUS
    <2> HIDE DEF opening
    <2>2. GenericFlows \in Seq(Range(GenericFlows)) /\ sections \in Seq(Range(sections))
        BY <1>1, <1>2
    <2> QED
        BY <2>1, <2>2, JoinedAre
<1> HIDE DEF opening
<1>5. /\ whole \in Seq(Range(whole))
      /\ Len(whole) = Len(opening) + Len(sale)
      /\ \A i \in 1..Len(opening) : i \in DOMAIN whole /\ whole[i] = opening[i]
      /\ \A i \in 1..Len(sale) : Len(opening) + i \in DOMAIN whole /\ whole[Len(opening) + i] = sale[i]
    <2>1. whole = opening \o sale
        OBVIOUS
    <2> HIDE DEF whole
    <2>2. opening \in Seq(Range(opening)) /\ sale \in Seq(Range(sale))
        BY <1>3, <1>4
    <2> QED
        BY <2>1, <2>2, JoinedAre
<1> HIDE DEF whole
<1>6. /\ once \in Seq(Range(once))
      /\ \A i \in DOMAIN whole : whole[i].name # "blank"
            => \E k \in DOMAIN once : once[k].name = whole[i].name
      /\ \A n \in 0..Len(whole) :
            (\A i \in 1..n : whole[i].name # "blank" /\ \A j \in 1..(i - 1) : whole[j].name # whole[i].name)
                => n <= Len(once)
    <2>1. /\ first \in Seq(Range(first))
          /\ \A i \in DOMAIN whole : whole[i].name # "blank"
                => \E k \in DOMAIN first : first[k].name = whole[i].name
          /\ \A n \in 0..Len(whole) :
                (\A i \in 1..n : whole[i].name # "blank" /\ \A j \in 1..(i - 1) : whole[j].name # whole[i].name)
                    => n <= Len(first)
        BY <1>5, DistinctKeeps
    <2> HIDE DEF first, once
    <2>2. /\ once \in Seq(Range(once)) /\ Len(once) = Len(first) /\ DOMAIN once = DOMAIN first
          /\ \A k \in DOMAIN first : once[k].name = first[k].name
        BY <2>1, InferredIs DEF once
    <2> QED
        BY <2>1, <2>2
<1> HIDE DEF first, once
<1>7. 3 <= Len(once)
    <2>1. 3 \in 0..Len(whole) /\ 3 <= Len(opening)
        <3>1. Len(opening) \in Nat /\ Len(sale) \in Nat /\ Len(sections) \in Nat
            BY <1>1, <1>3, <1>4
        <3> QED
            BY <1>2, <1>4, <1>5, <3>1
    <2>2. /\ whole[1].name = "page_loads" /\ whole[2].name = "nav_links"
          /\ whole[3].name = "forms_work"
        BY <1>2, <1>4, <1>5, <2>1
    <2>3. \A i \in 1..3 : whole[i].name # "blank" /\ \A j \in 1..(i - 1) : whole[j].name # whole[i].name
        <3>1. \A i \in 1..3 : i = 1 \/ i = 2 \/ i = 3
            OBVIOUS
        <3>2. \A i \in 1..3 : \A j \in 1..(i - 1) : (i = 2 /\ j = 1) \/ (i = 3 /\ j = 1) \/ (i = 3 /\ j = 2)
            OBVIOUS
        <3> QED
            BY <2>2, <3>1, <3>2
    <2> QED
        BY <1>6, <2>1, <2>3
<1>8. /\ few \in Seq(Range(few)) /\ Len(few) \in Nat /\ Len(few) <= 8
      /\ Len(once) >= 8 => Len(few) = 8
      /\ Len(once) < 8 \/ Len(few) < 8 => few = once
    <2>1. few = FirstFew(once, 8) /\ 8 \in Nat
        OBVIOUS
    <2> HIDE DEF few
    <2> QED
        BY <1>6, <2>1, FirstFewIs, Zenon
<1> HIDE DEF few
<1>9. Len(few) \in 3..8
    <2>1. Len(once) \in Nat /\ Len(few) \in Nat
        BY <1>6, <1>8
    <2>2. CASE Len(once) >= 8
        BY <1>8, <2>1, <2>2
    <2>3. CASE Len(once) < 8
        <3>1. few = once
            BY <1>8, <2>3
        <3>2. Len(few) = Len(once)
            BY <3>1
        <3>3. Len(once) \in 3..8
            <4>1. PICK n \in Nat : n = Len(once)
                BY <2>1
            <4>2. 3 <= n /\ n < 8
                BY <1>7, <2>3, <4>1, Zenon
            <4>3. n \in 3..8
                BY <4>2
            <4> QED
                BY <4>1, <4>3, Zenon
        <3> QED
            BY <3>2, <3>3, Zenon
    <2> QED
        BY <2>1, <2>2, <2>3
<1>10. ASSUME Storefront(inv.tokens), Len(few) < 8
       PROVE  \E f \in Range(few) : Sells(f)
    <2>1. 2 \in 1..Len(sale) /\ Len(opening) + 2 \in DOMAIN whole
        <3>1. Len(sale) = 3 /\ Len(opening) \in Nat
            BY <1>3, <1>4, <1>10
        <3>2. DOMAIN whole = 1..(Len(opening) + 3)
            BY <1>5, <3>1
        <3> QED
            BY <3>1, <3>2
    <2>2. whole[Len(opening) + 2].name = "checkout_purchase"
        BY <1>3, <1>5, <1>10, <2>1
    <2>3. PICK k \in DOMAIN once : once[k].name = "checkout_purchase"
        BY <1>6, <2>1, <2>2
    <2> QED
        BY <1>8, <1>10, <2>3 DEF Range, Sells
<1>11. FallbackFlows(inv) = few
    BY DEF FallbackFlows, few, once, first, whole, opening, sections, sale
<1> QED
    BY <1>8, <1>9, <1>10, <1>11

\* _heuristic_flows_from_inventory answers a list, ...
LEMMA HeuristicsAreListed ==
    ASSUME NEW inv
    PROVE  HeuristicFlows(inv) \in Seq(Range(HeuristicFlows(inv)))
<1> DEFINE hinted == Picked(HintFlows, {i \in DOMAIN HintFlows : HintFlows[i].name \in inv.hints})
           rest == IF inv.routes = {} THEN <<>> ELSE <<Ready("navigate_core_routes", "other")>>
<1>1. HintFlows \in Seq(Range(HintFlows))
    <2>1. HintFlows = [k \in 1..6 |-> HintFlows[k]]
        BY DEF HintFlows
    <2> QED
        BY <2>1, ListOf, Zenon
<1>2. hinted \in Seq(Range(hinted))
    BY <1>1, SomePicked
<1>3. rest \in Seq(Range(rest))
    <2>1. Len(rest) \in Nat /\ rest = [k \in 1..Len(rest) |-> rest[k]]
        OBVIOUS
    <2> HIDE DEF rest
    <2> QED
        BY <2>1, ListOf, Zenon
<1>4. HeuristicFlows(inv) = hinted \o rest
    BY DEF HeuristicFlows
<1> HIDE DEF hinted, rest
<1> QED
    BY <1>2, <1>3, <1>4, JoinedAre

\* ... and so do the items of an answer that are kept.
LEMMA ValidIsListed ==
    ASSUME NEW answer \in Plans
    PROVE  Valid(answer) \in Seq(Range(Valid(answer)))
<1>1. answer \in Seq(Range(answer))
    BY DiscoveryAssumption
<1> DEFINE at == {i \in DOMAIN answer : answer[i].name # "?"}
<1>2. at \in SUBSET DOMAIN answer
    OBVIOUS
<1>3. Valid(answer) = Picked(answer, at)
    BY DEF Valid
<1> HIDE DEF at
<1> QED
    BY <1>1, <1>2, <1>3, SomePicked

\* _enrich_discovered_flows: unless the list is full, a storefront has its
\* checkout or another revenue flow among them.
LEMMA EnrichedHas ==
    ASSUME NEW answer, answer \in Seq(Range(answer)), NEW inv
    PROVE  /\ Enriched(answer, inv) \in Seq(Range(Enriched(answer, inv)))
           /\ Len(Enriched(answer, inv)) \in Nat
           /\ Storefront(inv.tokens) /\ Len(Enriched(answer, inv)) < 8
                 => \E f \in Range(Enriched(answer, inv)) : Sells(f)
<1> DEFINE judged == Inferred(answer, inv, call.goal)
           own == Distinct(judged)
           extra == StorefrontFlows(inv)
           missing == {i \in DOMAIN extra : /\ extra[i].name \notin Names(own)
                                           /\ \A k \in DOMAIN own : own[k].crit # extra[i].crit}
           added == Picked(extra, missing)
           whole == own \o added
           few == FirstFew(whole, 8)
<1>1. judged \in Seq(Range(judged))
    BY InferredIs
<1>2. own \in Seq(Range(own))
    <2> HIDE DEF judged
    <2> QED
        BY <1>1, DistinctKeeps
<1>3. /\ extra \in Seq(Range(extra))
      /\ Storefront(inv.tokens)
            => 2 \in DOMAIN extra /\ extra[2].name = "checkout_purchase" /\ extra[2].crit = "revenue"
    <2>1. Len(extra) \in Nat /\ extra = [k \in 1..Len(extra) |-> extra[k]]
        BY DEF StorefrontFlows
    <2>2. extra \in Seq(Range(extra))
        <3> HIDE DEF extra
        <3> QED
            BY <2>1, ListOf, Zenon
    <2>3. Storefront(inv.tokens)
             => 2 \in DOMAIN extra /\ extra[2].name = "checkout_purchase" /\ extra[2].crit = "revenue"
        BY DEF StorefrontFlows, Ready, Flow, Says
    <2> QED
        BY <2>2, <2>3
<1>4. Enriched(answer, inv) = few
    BY DEF Enriched
<1> HIDE DEF own, extra
<1>5. missing \in SUBSET DOMAIN extra
    OBVIOUS
<1>6. /\ added \in Seq(Range(added))
      /\ \A i \in missing : \E k \in DOMAIN added : added[k] = extra[i]
    <2>1. added = Picked(extra, missing)
        OBVIOUS
    <2> HIDE DEF missing, added
    <2> QED
        BY <1>3, <1>5, <2>1, SomePicked
<1>7. Storefront(inv.tokens)
        => \/ \E k \in DOMAIN own : Sells(own[k])
           \/ \E k \in DOMAIN added : Sells(added[k])
    <2>1. ASSUME Storefront(inv.tokens), ~ \E k \in DOMAIN own : Sells(own[k])
          PROVE  2 \in missing
        BY <1>3, <2>1 DEF Sells, Names
    <2> HIDE DEF missing, added
    <2> QED
        BY <1>3, <1>6, <2>1 DEF Sells
<1> HIDE DEF added, missing
<1>8. /\ whole \in Seq(Range(whole))
      /\ \A i \in 1..Len(own) : i \in DOMAIN whole /\ whole[i] = own[i]
      /\ \A i \in 1..Len(added) : Len(own) + i \in DOMAIN whole /\ whole[Len(own) + i] = added[i]
    BY <1>2, <1>6, JoinedAre
<1>9. DOMAIN own = 1..Len(own) /\ DOMAIN added = 1..Len(added)
    BY <1>2, <1>6
<1> HIDE DEF whole
<1>10. Storefront(inv.tokens) => \E k \in DOMAIN whole : Sells(whole[k])
    BY <1>7, <1>8, <1>9
<1>11. /\ few \in Seq(Range(few)) /\ Len(few) \in Nat
       /\ Len(few) < 8 => few = whole
    <2>1. 8 \in Nat
        OBVIOUS
    <2>2. few = FirstFew(whole, 8)
        OBVIOUS
    <2> HIDE DEF few
    <2> QED
        BY <1>8, <2>1, <2>2, FirstFewIs
<1> HIDE DEF few
<1>12. Storefront(inv.tokens) /\ Len(few) < 8 => \E f \in Range(few) : Sells(f)
    BY <1>10, <1>11 DEF Range
<1> QED
    BY <1>4, <1>11, <1>12

\* "Clamp to 3-8 flows": three to eight they are, and unless the list is full
\* none that came in is lost.
LEMMA ClampedIs ==
    ASSUME NEW s, s \in Seq(Range(s))
    PROVE  /\ Len(Clamped(s)) \in 3..8
           /\ Clamped(s) \in Seq(Range(Clamped(s)))
           /\ Len(Clamped(s)) < 8 => Len(s) < 8 /\ Range(s) \subseteq Range(Clamped(s))
<1> DEFINE few == FirstFew(s, 8)
           padding == FallbackFlows(Inventory)
           more(n) == FirstFew(padding, n)
<1>1. /\ few \in Seq(Range(few)) /\ Len(few) \in Nat /\ Len(few) <= 8
      /\ Len(s) >= 8 => Len(few) = 8
      /\ Len(s) < 8 => few = s
    <2>1. PICK n \in Nat : n = 8
        OBVIOUS
    <2>2. few = FirstFew(s, n)
        BY <2>1
    <2> HIDE DEF few
    <2>3. /\ few \in Seq(Range(few)) /\ Len(few) \in Nat /\ Len(few) <= n
          /\ Len(s) >= n => Len(few) = n
          /\ Len(s) < n \/ Len(few) < n => few = s
        BY <2>2, FirstFewIs
    <2> QED
        BY <2>1, <2>3, Zenon
<1>2. padding \in Seq(Range(padding)) /\ Len(padding) >= 3 /\ Len(padding) \in Nat
    <2>1. padding \in Seq(Range(padding)) /\ Len(padding) \in 3..8
        BY FallbackHas
    <2> HIDE DEF padding
    <2>2. \A k \in 3..8 : k >= 3 /\ k \in Nat
        OBVIOUS
    <2> QED
        BY <2>1, <2>2, Zenon
<1>3. Clamped(s) = IF Len(few) >= 3 THEN few ELSE few \o more(3 - Len(few))
    BY DEF Clamped
<1> HIDE DEF few, padding
<1>4. PICK m \in Nat : m = Len(s)
    OBVIOUS
<1>5. PICK n \in Nat : n = Len(few)
    BY <1>1
<1>6. n <= 8 /\ (m >= 8 => n = 8) /\ (m < 8 => few = s)
    BY <1>1, <1>4, <1>5, Zenon
<1>7. CASE n >= 3
    <2>1. Clamped(s) = few
        BY <1>3, <1>5, <1>7, Zenon
    <2>2. n \in 3..8 /\ (n < 8 => m < 8)
        BY <1>6, <1>7
    <2> QED
        BY <1>1, <1>4, <1>5, <1>6, <2>1, <2>2, Zenon
<1>8. CASE n < 3
    <2> DEFINE rest == more(3 - n)
    <2>1. PICK k \in Nat : k = Len(padding)
        BY <1>2
    <2>2. k >= 3
        BY <1>2, <2>1, Zenon
    <2>3. 3 - n \in Nat /\ k >= 3 - n /\ ~ (n >= 3) /\ n + (3 - n) = 3 /\ m < 8 /\ 3 \in 3..8
        BY <1>6, <1>8, <2>2
    <2>4. rest \in Seq(Range(rest)) /\ Len(rest) = 3 - n
        BY <1>2, <2>1, <2>3, FirstFewIs, Zenon
    <2>5. Clamped(s) = few \o rest
        BY <1>3, <1>5, <2>3, Zenon
    <2> HIDE DEF rest
    <2>6. /\ few \o rest \in Seq(Range(few \o rest))
          /\ Len(few \o rest) = Len(few) + Len(rest)
          /\ \A i \in 1..Len(few) : i \in DOMAIN (few \o rest) /\ (few \o rest)[i] = few[i]
        BY <1>1, <2>4, JoinedAre
    <2>7. Len(few \o rest) = 3
        BY <1>5, <2>3, <2>4, <2>6, Zenon
    <2>8. Range(few) \subseteq Range(few \o rest)
        <3>1. DOMAIN few = 1..Len(few)
            BY <1>1
        <3> QED
            BY <2>6, <3>1 DEF Range
    <2> QED
        BY <1>4, <1>6, <2>3, <2>5, <2>6, <2>7, <2>8, Zenon
<1>9. n >= 3 \/ n < 3
    OBVIOUS
<1> QED
    BY <1>7, <1>8, <1>9

-----------------------------------------------------------------------------
(* What a planner may answer *)

\* A list, on a storefront with a sale.
Offers(s) ==
    /\ s \in Seq(Range(s))
    /\ Storefront(Inventory.tokens) /\ Len(s) < 8 /\ ~Shallow(Inventory) => \E f \in Range(s) : Sells(f)

\* What the gate is given, and what is answered.
FlowsOK ==
    /\ Len(flows) \in 3..8
    /\ Storefront(Inventory.tokens) /\ Len(flows) < 8 /\ ~Shallow(Inventory)
          => \E f \in Range(flows) : Sells(f)

LEMMA AnswersOffer ==
    ASSUME NEW answer \in Plans
    PROVE  Offers(Enriched(Valid(answer), Inventory))
<1>1. Valid(answer) \in Seq(Range(Valid(answer)))
    BY ValidIsListed
<1> QED
    BY <1>1, EnrichedHas, Zenon DEF Offers

LEMMA FallbackOffers == Offers(FallbackFlows(Inventory))
<1>1. Len(FallbackFlows(Inventory)) \in Nat
    BY FallbackHas
<1> QED
    BY FallbackHas, Zenon DEF Offers

LEMMA HeuristicsOffer ==
    ASSUME Shallow(Inventory)
    PROVE  Offers(HeuristicFlows(Inventory))
    BY HeuristicsAreListed, Zenon DEF Offers

LEMMA ClampedOffers ==
    ASSUME NEW s, Offers(s)
    PROVE  /\ Len(Clamped(s)) \in 3..8
           /\ Clamped(s) \in Seq(Range(Clamped(s)))
           /\ Storefront(Inventory.tokens) /\ Len(Clamped(s)) < 8 /\ ~Shallow(Inventory)
                 => \E f \in Range(Clamped(s)) : Sells(f)
<1>1. s \in Seq(Range(s))
    BY DEF Offers
<1>2. /\ Len(Clamped(s)) \in 3..8
      /\ Clamped(s) \in Seq(Range(Clamped(s)))
      /\ Len(Clamped(s)) < 8 => Len(s) < 8 /\ Range(s) \subseteq Range(Clamped(s))
    BY <1>1, ClampedIs
<1> QED
    BY <1>2 DEF Offers

-----------------------------------------------------------------------------
(* What a discovery delivers *)

\* A recording of the application under a key.
RecordedAs(key, recordings) == \E r \in recordings : r.app = call.app /\ r.key = key
Generic == Names(flows) \subseteq Names(GenericFlows)

\* From the gate on the plan is what was promised.
Judged == {"graph", "known", "save", "link", "answered"}

\* The tables hold lists, and what was recorded before stays.
ListsOK ==
    /\ recorded \in Seq(Range(recorded)) /\ graphs \in Seq(Range(graphs))
    /\ before \subseteq Range(recorded)

GateOK ==
    /\ quality \in [fallback : BOOLEAN, passed : BOOLEAN]
    /\ quality.passed => stage \in Judged \cup {"failed"} /\ ~Generic
    /\ stage = "gate" => Planner

PlanOK == Planner /\ stage \in {"gate"} \cup Judged => FlowsOK

PreviousOK == previous \in Nat /\ previous <= Len(graphs)

\* list_flows_full answered after the call began.
KnownOK ==
    stage = "save" =>
        /\ known \subseteq Range(recorded)
        /\ \A r \in before : r.app = call.app => r \in known

\* A journey of a flow or recording, at least as critical where it matters.
Tells(told, f) == \E j \in told : j.key = f.key /\ (f.crit \in Critical => j.crit \in Critical)

\* A graph has the plan and the recordings, ...
HasAll(told) ==
    /\ \A f \in Range(flows) : Tells(told, f)
    /\ \A r \in before : r.app = call.app => Tells(told, r)

\* ... and its journeys are covered when they are recorded.
Honest(told, recordings) ==
    \A j \in told :
        /\ RecordedAs(j.key, before) => j.covered
        /\ j.covered => RecordedAs(j.key, recordings)

\* The graph this call saved, and what it says of the plan and the recordings.
GraphOK ==
    stage \in {"link", "answered"} /\ ReadsDb =>
        /\ mine \in DOMAIN graphs /\ previous < mine
        /\ HasAll(graphs[mine].journeys)
        /\ Honest(graphs[mine].journeys, Range(recorded))

JourneysOK == \A j \in journeys : j.flow # 0 => \E r \in Range(recorded) : r.id = j.flow

PlanInv == ListsOK /\ GateOK /\ PlanOK /\ PreviousOK /\ KnownOK /\ GraphOK /\ JourneysOK

\* The crawl does not go on while the call plans.
LEMMA CrawlIsOver ==
    ASSUME CoverInv, CrawlNext
    PROVE  /\ stage \in CrawlStages \cup {"failed"}
           /\ stage' \in CrawlStages \cup {"crawled", "failed"}
           /\ stage = "failed" => stage' = "failed"
<1>1. ASSUME NEW w \in Slots, WorkerStep(w)
      PROVE  /\ stage \in {"workers", "failed"} /\ stage' \in {"workers", "failed"}
             /\ stage = "failed" => stage' = "failed"
    <2>1. ~ (At(w, "off") \/ At(w, "done"))
        BY <1>1 DEF WorkerStep, OpenPage, Take, Return, Wait, Succeed, Fail, At
    <2>2. stage \in {"workers", "failed"}
        BY <2>1 DEF CoverInv, EndOK
    <2>3. stage' \in {stage, "failed"}
        BY <1>1, <2>2 DEF WorkerStep, OpenPage, Take, Return, Wait, Succeed, Fail, GatherRaises
    <2> QED
        BY <2>2, <2>3
<1>2. CASE CallStep \/ BrowserDies
    BY <1>2 DEF CallStep, BrowserDies, Acquire, SkipBootstrap, PatternRaises, VisitBootstrap,
                StartWorkers, Gathered, Booting, CrawlStages
<1> QED
    BY <1>1, <1>2 DEF CrawlNext, CrawlStages

LEMMA CrawlingPlans ==
    ASSUME CoverInv, PlanInv, Crawling(CrawlNext)
    PROVE  PlanInv'
<1>1. UNCHANGED <<call, plan, store, before>>
    BY DEF Crawling, CrawlNext, CallStep, WorkerStep, Acquire, SkipBootstrap, PatternRaises,
           VisitBootstrap, StartWorkers, Gathered, OpenPage, Take, Return, Wait, Succeed, Fail,
           BrowserDies, crawl
<1>2. /\ stage \in CrawlStages \cup {"failed"}
      /\ stage' \in CrawlStages \cup {"crawled", "failed"}
      /\ stage = "failed" => stage' = "failed"
    BY CrawlIsOver DEF Crawling
<1>3. ListsOK' /\ PreviousOK' /\ JourneysOK'
    BY <1>1 DEF PlanInv, ListsOK, PreviousOK, JourneysOK, plan, store, Range
<1>4. GateOK'
    <2>1. Generic' <=> Generic
        <3>1. GenericFlows' = GenericFlows
            BY <1>1 DEF GenericFlows, Flow, Says
        <3> QED
            BY <1>1, <3>1 DEF Generic, Names, plan
    <2> QED
        BY <1>1, <1>2, <2>1 DEF PlanInv, GateOK, Judged, CrawlStages, plan
<1>5. PlanOK' /\ KnownOK' /\ GraphOK'
    BY <1>2 DEF PlanOK, KnownOK, GraphOK, Judged, CrawlStages
<1> QED
    BY <1>3, <1>4, <1>5 DEF PlanInv

-----------------------------------------------------------------------------
(* The plan is made, and judged *)

\* A call that gets on without planning keeps what there is.
LEMMA GettingOnPlans ==
    ASSUME PlanInv, UNCHANGED <<call, plan, store, before>>,
           stage \notin Judged \cup {"failed"},
           stage' \notin {"gate", "save"}, stage' \in Judged => ~Planner,
           stage' \in {"link", "answered"} => ~ReadsDb
    PROVE  PlanInv'
<1>1. ListsOK' /\ PreviousOK' /\ JourneysOK'
    BY DEF PlanInv, ListsOK, PreviousOK, JourneysOK, plan, store, Range
<1>2. GateOK'
    BY DEF PlanInv, GateOK, plan
<1>3. PlanOK' /\ KnownOK' /\ GraphOK'
    BY DEF PlanOK, KnownOK, GraphOK, Planner, ReadsDb
<1> QED
    BY <1>1, <1>2, <1>3 DEF PlanInv

LEMMA EarlyStepsPlan ==
    ASSUME PlanInv, Validate \/ PageStructure \/ SaveInventory \/ RepoFallsBack
    PROVE  PlanInv'
<1>1. UNCHANGED <<call, plan, store, before>>
    BY DEF Validate, PageStructure, SaveInventory, RepoFallsBack, crawl
<1>2. stage \notin Judged \cup {"failed"} /\ stage' \notin {"gate", "save"}
    BY DEF Validate, PageStructure, SaveInventory, RepoFallsBack, Is, Then, Judged
<1>3. (stage' \in Judged => ~Planner) /\ (stage' \in {"link", "answered"} => ~ReadsDb)
    BY DEF Validate, PageStructure, SaveInventory, RepoFallsBack, Is, Then, Judged, Planner, ReadsDb
<1> QED
    BY <1>1, <1>2, <1>3, GettingOnPlans

\* What the planner is about depends on the crawl alone.
Buys == Storefront(Inventory.tokens) /\ ~Shallow(Inventory)

LEMMA SameBuys == UNCHANGED crawl => (Buys' <=> Buys)
<1> SUFFICES ASSUME UNCHANGED crawl PROVE Buys' <=> Buys
    OBVIOUS
<1>1. Inventory' = Inventory
    BY DEF Inventory, crawl
<1> QED
    BY <1>1 DEF Buys, Shallow, Storefront

FlowsBuy == Len(flows) \in 3..8 /\ (Buys /\ Len(flows) < 8 => \E f \in Range(flows) : Sells(f))

LEMMA FlowsBuyIsOK == FlowsBuy <=> FlowsOK
    BY DEF FlowsBuy, FlowsOK, Buys

LEMMA SameFlows ==
    ASSUME UNCHANGED <<crawl, flows>>
    PROVE  (FlowsOK' <=> FlowsOK) /\ (Generic' <=> Generic)
<1>1. FlowsBuy' <=> FlowsBuy
    BY SameBuys DEF FlowsBuy, Sells, Range
<1>2. Generic' <=> Generic
    <2>1. GenericFlows' = GenericFlows
        BY DEF GenericFlows, Flow, Says, crawl
    <2> QED
        BY <2>1 DEF Generic, Names
<1>3. FlowsBuy' <=> FlowsOK'
    BY DEF FlowsBuy, FlowsOK, Buys
<1> QED
    BY <1>1, <1>2, <1>3, FlowsBuyIsOK

LEMMA PlannedPlans ==
    ASSUME PlanInv, stage \in {"plan", "repo"}, NEW s, NEW fallback \in BOOLEAN,
           call.tool # "capture" => Offers(s), Planned(s, fallback)
    PROVE  PlanInv'
<1>1. UNCHANGED <<crawl, previous, known, mine, journeys, store, before>>
    BY DEF Planned
<1>2. ListsOK' /\ PreviousOK' /\ JourneysOK'
    BY <1>1 DEF PlanInv, ListsOK, PreviousOK, JourneysOK, store, Range
<1>3. stage' = (IF Planner THEN "gate" ELSE "graph") /\ (Planner' <=> Planner)
    BY <1>1 DEF Planned, Then, Planner, crawl
<1>4. GateOK'
    <2>1. ~ quality.passed
        BY DEF PlanInv, GateOK, Judged
    <2>2. /\ quality' \in [fallback : BOOLEAN, passed : BOOLEAN]
          /\ quality'.passed = quality.passed
        BY DEF PlanInv, GateOK, Planned
    <2> QED
        BY <1>3, <2>1, <2>2 DEF GateOK
<1>5. PlanOK'
    <2> SUFFICES ASSUME Planner PROVE FlowsOK'
        BY <1>3 DEF PlanOK
    <2>1. Offers(s) /\ flows' = Clamped(s)
        BY DEF Planned, Planner
    <2>2. Len(flows') \in 3..8 /\ (Buys /\ Len(flows') < 8 => \E f \in Range(flows') : Sells(f))
        BY <2>1, ClampedOffers DEF Buys
    <2>3. Buys' <=> Buys
        BY <1>1, SameBuys
    <2>4. FlowsBuy'
        BY <2>2, <2>3 DEF FlowsBuy, Sells, Range
    <2>5. FlowsBuy' <=> FlowsOK'
        BY DEF FlowsBuy, FlowsOK, Buys
    <2> QED
        BY <2>4, <2>5
<1>6. KnownOK' /\ GraphOK'
    BY <1>3 DEF KnownOK, GraphOK
<1> QED
    BY <1>2, <1>4, <1>5, <1>6 DEF PlanInv

LEMMA PlannersPlan ==
    ASSUME PlanInv, RepoAnswers \/ PlanHeuristic \/ PlanWithoutKey \/ LlmPlans \/ LlmFails \/ PlannerRaises
    PROVE  PlanInv'
<1>1. CASE RepoAnswers \/ LlmPlans
    <2>1. PICK answer \in Plans : Planned(Enriched(Valid(answer), Inventory), FALSE)
        BY <1>1 DEF RepoAnswers, LlmPlans
    <2>2. stage \in {"plan", "repo"} /\ Offers(Enriched(Valid(answer), Inventory))
        BY <1>1, AnswersOffer DEF RepoAnswers, LlmPlans, Is
    <2> QED
        BY <2>1, <2>2, PlannedPlans
<1>2. CASE PlanHeuristic
    <2>1. stage \in {"plan", "repo"} /\ Offers(HeuristicFlows(Inventory))
        BY <1>2, HeuristicsOffer DEF PlanHeuristic, Is
    <2> QED
        BY <1>2, <2>1, PlannedPlans DEF PlanHeuristic
<1>3. CASE PlanWithoutKey \/ LlmFails
    <2>1. PICK raised \in BOOLEAN : Planned(FallbackFlows(Inventory), raised)
        BY <1>3 DEF PlanWithoutKey, LlmFails
    <2>2. stage \in {"plan", "repo"} /\ Offers(FallbackFlows(Inventory))
        BY <1>3, FallbackOffers DEF PlanWithoutKey, LlmFails, Is
    <2> QED
        BY <2>1, <2>2, PlannedPlans
<1>4. CASE PlannerRaises
    <2>1. CASE call.tool = "capture"
        BY <1>4, <2>1, PlannedPlans DEF PlannerRaises
    <2>2. CASE call.tool # "capture"
        <3>1. UNCHANGED <<call, plan, store, before>> /\ stage' = "failed" /\ stage \in {"plan", "repo"}
            BY <1>4, <2>2 DEF PlannerRaises, Then, crawl
        <3> QED
            BY <3>1, GettingOnPlans DEF Judged
    <2> QED
        BY <2>1, <2>2
<1> QED
    BY <1>1, <1>2, <1>3, <1>4

LEMMA GatePlans == PlanInv /\ Gate => PlanInv'
<1> SUFFICES ASSUME PlanInv, Gate PROVE PlanInv'
    OBVIOUS
<1>1. UNCHANGED <<crawl, flows, previous, known, mine, journeys, store, before>>
    BY DEF Gate
<1>2. ListsOK' /\ PreviousOK' /\ JourneysOK'
    BY <1>1 DEF PlanInv, ListsOK, PreviousOK, JourneysOK, store, Range
<1>3. stage = "gate" /\ stage' \in {"failed", "graph"}
    BY DEF Gate, Is, Then
<1>4. (FlowsOK' <=> FlowsOK) /\ (Generic' <=> Generic)
    BY <1>1, SameFlows
<1>5. GateOK'
    <2>1. /\ quality' \in [fallback : BOOLEAN, passed : BOOLEAN]
          /\ quality'.passed => ~Generic
        <3> DEFINE good == {i \in DOMAIN flows : flows[i].conf = "fair"}
        <3>1. quality' = [quality EXCEPT !.passed = ~Generic /\ good # {}]
            BY DEF Gate, Generic
        <3> HIDE DEF good
        <3> QED
            BY <3>1 DEF PlanInv, GateOK
    <2> QED
        BY <1>3, <1>4, <2>1 DEF GateOK, Judged
<1>6. PlanOK'
    BY <1>1, <1>3, <1>4 DEF PlanInv, PlanOK, GateOK
<1>7. KnownOK' /\ GraphOK'
    BY <1>3 DEF KnownOK, GraphOK
<1> QED
    BY <1>2, <1>5, <1>6, <1>7 DEF PlanInv

-----------------------------------------------------------------------------
(* The graph *)

\* A judged plan is kept as it is.
LEMMA JudgedStays ==
    ASSUME PlanInv, UNCHANGED <<crawl, flows, quality>>, stage \in Judged, stage' \in Judged \cup {"failed"}
    PROVE  GateOK' /\ PlanOK'
<1>1. (FlowsOK' <=> FlowsOK) /\ (Generic' <=> Generic)
    BY SameFlows
<1>2. Planner' <=> Planner
    BY DEF Planner, crawl
<1>3. GateOK'
    BY <1>1, <1>2 DEF PlanInv, GateOK, Judged
<1>4. PlanOK'
    BY <1>1, <1>2 DEF PlanInv, PlanOK, Judged
<1> QED
    BY <1>3, <1>4

\* The latest graph of an application is one there is.
LEMMA LatestIsThere ==
    ASSUME ListsOK
    PROVE  LatestGraph \in Nat /\ LatestGraph <= Len(graphs)
<1> DEFINE own == {i \in DOMAIN graphs : graphs[i].app = call.app}
<1>1. DOMAIN graphs = 1..Len(graphs) /\ Len(graphs) \in Nat
    BY DEF ListsOK
<1>2. own \in SUBSET (1..Len(graphs))
    BY <1>1
<1>3. LatestGraph = IF own = {} THEN 0 ELSE CHOOSE i \in own : \A j \in own : j <= i
    BY DEF LatestGraph
<1> HIDE DEF own
<1>4. ASSUME own # {}
      PROVE  \E i \in own : \A j \in own : j <= i
    <2> DEFINE above == {n \in 1..Len(graphs) : \A j \in own : j <= n}
    <2>1. Len(graphs) \in above /\ above \in SUBSET Nat
        <3>1. PICK j \in own : TRUE
            BY <1>4
        <3>2. Len(graphs) \in 1..Len(graphs)
            BY <1>1, <1>2, <3>1
        <3> QED
            BY <1>1, <1>2, <3>2
    <2>2. PICK n \in above : \A m \in above : n <= m
        <3> HIDE DEF above
        <3> QED
            BY <2>1, LeastExists
    <2>3. n \in own
        <3> SUFFICES ASSUME n \notin own PROVE FALSE
            OBVIOUS
        <3>1. \A j \in own : j <= n - 1
            BY <1>2, <2>2
        <3>2. PICK j \in own : TRUE
            BY <1>4
        <3>3. n - 1 \in above
            BY <1>1, <1>2, <2>2, <3>1, <3>2
        <3> QED
            BY <1>1, <2>2, <3>3
    <2> QED
        BY <2>2, <2>3
<1>5. CASE own = {}
    BY <1>1, <1>3, <1>5
<1>6. CASE own # {}
    <2>1. LatestGraph \in own
        BY <1>3, <1>4, <1>6, Zenon
    <2> QED
        BY <1>1, <1>2, <2>1
<1> QED
    BY <1>5, <1>6

LEMMA ReadingPlans ==
    ASSUME PlanInv, ReadPrevious \/ ReadRecorded
    PROVE  PlanInv'
<1>1. /\ UNCHANGED <<crawl, flows, quality, mine, journeys, store, before>>
      /\ stage \in {"graph", "known"} /\ stage' \in {"known", "save"}
    BY DEF ReadPrevious, ReadRecorded, Is, Then
<1>2. ListsOK' /\ JourneysOK'
    BY <1>1 DEF PlanInv, ListsOK, JourneysOK, store, Range
<1>3. GateOK' /\ PlanOK'
    BY <1>1, JudgedStays DEF Judged
<1>4. PreviousOK'
    <2>1. LatestGraph \in Nat /\ LatestGraph <= Len(graphs)
        BY LatestIsThere DEF PlanInv
    <2> QED
        BY <1>1, <2>1 DEF PlanInv, PreviousOK, ReadPrevious, ReadRecorded, store
<1>5. KnownOK'
    BY <1>1 DEF PlanInv, ListsOK, KnownOK, ReadPrevious, ReadRecorded, Is, Then, store, crawl, Range
<1>6. GraphOK'
    BY <1>1 DEF GraphOK
<1> QED
    BY <1>2, <1>3, <1>4, <1>5, <1>6 DEF PlanInv

\* A journey of the new graph is covered when a recording it was built from is
\* of its key.
LEMMA JourneysAreCovered ==
    ASSUME NEW j \in JourneySummaries(flows, known)
    PROVE  j.covered <=> RecordedAs(j.key, known)
<1> DEFINE ofApp == {r \in known : r.app = call.app}
           all == {[key |-> f.key, crit |-> f.crit] : f \in Range(flows) \cup ofApp}
           crit(k) == (CHOOSE i \in all : i.key = k /\ \A o \in all : o.key = k => Rank(i.crit) <= Rank(o.crit)).crit
           covered(k) == \E r \in ofApp : r.key = k
<1>1. JourneySummaries(flows, known) =
          {[key |-> k, crit |-> crit(k), covered |-> covered(k)] : k \in {i.key : i \in all}}
    BY DEF JourneySummaries
<1> HIDE DEF all, crit, covered
<1>2. PICK k : j = [key |-> k, crit |-> crit(k), covered |-> covered(k)]
    BY <1>1
<1>3. j.key = k /\ j.covered = covered(k)
    BY <1>2
<1>4. covered(k) <=> RecordedAs(k, known)
    BY DEF covered, RecordedAs
<1> QED
    BY <1>3, <1>4

\* The classes that matter are the first two.
LEMMA RankIs ==
    ASSUME NEW crit
    PROVE  Rank(crit) \in Nat /\ (Rank(crit) <= 2 <=> crit \in Critical)
<1> DEFINE at == {i \in DOMAIN CriticalityOrder : CriticalityOrder[i] = crit}
<1>1. /\ at \subseteq 1..5 /\ at \in SUBSET Nat
      /\ \A i \in at : i <= 2 => crit \in Critical
      /\ crit \in Critical => \E i \in at : i <= 2
    <2>1. DOMAIN CriticalityOrder = 1..5
        BY DEF CriticalityOrder
    <2>2. CriticalityOrder[1] = "revenue" /\ CriticalityOrder[2] = "activation"
        BY DEF CriticalityOrder
    <2>3. \A i \in 1..5 : i <= 2 => i = 1 \/ i = 2
        OBVIOUS
    <2>4. 1 \in 1..5 /\ 2 \in 1..5 /\ 1 <= 2 /\ 2 <= 2 /\ 1..5 \in SUBSET Nat
        OBVIOUS
    <2> QED
        BY <2>1, <2>2, <2>3, <2>4 DEF Critical
<1>2. Rank(crit) = IF at = {} THEN 99 ELSE Min(at)
    BY DEF Rank
<1> HIDE DEF at
<1>3. CASE at = {}
    BY <1>1, <1>2, <1>3
<1>4. CASE at # {}
    <2>1. Min(at) \in at /\ \A i \in at : Min(at) <= i
        <3>1. \E x \in at : \A y \in at : x <= y
            BY <1>1, <1>4, LeastExists
        <3> QED
            BY <3>1 DEF Min
    <2> DEFINE least == Min(at)
    <2>2. Rank(crit) = least /\ least \in at /\ \A i \in at : least <= i
        BY <1>2, <1>4, <2>1
    <2> HIDE DEF least
    <2> QED
        BY <1>1, <2>2
<1> QED
    BY <1>3, <1>4

\* No flow planned and no recording of the application is left out of the
\* journeys, and the class of a journey is the most critical anybody gave it.
LEMMA JourneysAreTold ==
    ASSUME NEW f, f \in Range(flows) \/ (f \in known /\ f.app = call.app)
    PROVE  Tells(JourneySummaries(flows, known), f)
<1> DEFINE ofApp == {r \in known : r.app = call.app}
           all == {[key |-> x.key, crit |-> x.crit] : x \in Range(flows) \cup ofApp}
           own(k) == {o \in all : o.key = k}
           best(k) == CHOOSE i \in all : i.key = k /\ \A o \in all : o.key = k => Rank(i.crit) <= Rank(o.crit)
           covered(k) == \E r \in ofApp : r.key = k
           ranks == {Rank(o.crit) : o \in own(f.key)}
<1>1. JourneySummaries(flows, known) =
          {[key |-> k, crit |-> best(k).crit, covered |-> covered(k)] : k \in {i.key : i \in all}}
    BY DEF JourneySummaries
<1>2. /\ [key |-> f.key, crit |-> f.crit] \in own(f.key)
      /\ f.key \in {i.key : i \in all}
    <2>1. [key |-> f.key, crit |-> f.crit] \in all
        OBVIOUS
    <2> HIDE DEF all
    <2> QED
        BY <2>1
<1> HIDE DEF all, covered
<1>3. PICK i \in own(f.key) : \A o \in own(f.key) : Rank(i.crit) <= Rank(o.crit)
    <2>1. ranks \in SUBSET Nat /\ ranks # {}
        BY <1>2, RankIs
    <2>2. PICK x \in ranks : \A y \in ranks : x <= y
        <3> HIDE DEF ranks
        <3> QED
            BY <2>1, LeastExists
    <2> QED
        BY <2>2
<1>4. best(f.key) \in own(f.key) /\ \A o \in own(f.key) : Rank(best(f.key).crit) <= Rank(o.crit)
    <2>1. \E b \in all : b.key = f.key /\ \A o \in all : o.key = f.key => Rank(b.crit) <= Rank(o.crit)
        BY <1>3
    <2>2. /\ best(f.key) \in all /\ best(f.key).key = f.key
          /\ \A o \in all : o.key = f.key => Rank(best(f.key).crit) <= Rank(o.crit)
        BY <2>1, Zenon
    <2> HIDE DEF best
    <2> QED
        BY <2>2
<1> DEFINE b == best(f.key)
           j == [key |-> f.key, crit |-> b.crit, covered |-> covered(f.key)]
<1>5. j \in JourneySummaries(flows, known)
    BY <1>1, <1>2
<1>6. Rank(b.crit) <= Rank(f.crit)
    BY <1>2, <1>4
<1>7. f.crit \in Critical => b.crit \in Critical
    <2> HIDE DEF b
    <2>1. Rank(b.crit) \in Nat /\ (Rank(b.crit) <= 2 <=> b.crit \in Critical)
        BY RankIs
    <2>2. Rank(f.crit) \in Nat /\ (Rank(f.crit) <= 2 <=> f.crit \in Critical)
        BY RankIs
    <2> QED
        BY <1>6, <2>1, <2>2
<1> HIDE DEF b
<1>8. j.key = f.key /\ j.crit = b.crit
    OBVIOUS
<1> HIDE DEF j
<1> QED
    BY <1>5, <1>7, <1>8 DEF Tells

LEMMA SavingPlans == PlanInv /\ SaveGraph => PlanInv'
<1> SUFFICES ASSUME PlanInv, SaveGraph PROVE PlanInv'
    OBVIOUS
<1>1. /\ UNCHANGED <<crawl, flows, quality, previous, known, journeys, recorded, others, before>>
      /\ stage = "save" /\ stage' \in {"link", "answered", "failed"}
    BY DEF SaveGraph, Is, Then
<1>2. JourneysOK' /\ KnownOK'
    BY <1>1 DEF PlanInv, JourneysOK, KnownOK, Range
<1>3. GateOK' /\ PlanOK'
    BY <1>1, JudgedStays DEF Judged
<1>4. CASE UNCHANGED <<graphs, mine>> /\ stage' = "failed"
    BY <1>1, <1>2, <1>3, <1>4 DEF PlanInv, ListsOK, PreviousOK, GraphOK, Range
<1>5. CASE graphs' = Append(graphs, build_context_graph) /\ mine' = Len(graphs')
    <2> DEFINE g == build_context_graph
    <2>1. /\ graphs' \in Seq(Range(graphs')) /\ Len(graphs') = Len(graphs) + 1
          /\ graphs'[Len(graphs) + 1] = g
        <3>1. graphs \in Seq(Range(graphs))
            BY DEF PlanInv, ListsOK
        <3> HIDE DEF g
        <3> QED
            BY <1>5, <3>1, AppendedIs DEF g
    <2>2. g.journeys = JourneySummaries(flows, known)
        BY DEF build_context_graph
    <2> HIDE DEF g
    <2>3. Len(graphs) \in Nat /\ previous \in Nat /\ previous <= Len(graphs)
        BY DEF PlanInv, ListsOK, PreviousOK
    <2>4. PreviousOK' /\ ListsOK'
        BY <1>1, <2>1, <2>3 DEF PlanInv, ListsOK, PreviousOK, Range
    <2>5. mine' \in DOMAIN graphs' /\ previous' < mine' /\ graphs'[mine'] = g
        BY <1>1, <1>5, <2>1, <2>3
    <2>6. /\ known \subseteq Range(recorded)
          /\ \A r \in before : r.app = call.app => r \in known
        BY <1>1 DEF PlanInv, KnownOK
    <2>7. Honest(g.journeys, Range(recorded))
        <3>1. \A j \in g.journeys : j.covered <=> RecordedAs(j.key, known)
            BY <2>2, JourneysAreCovered
        <3> QED
            BY <2>6, <3>1 DEF Honest, RecordedAs
    <2>8. HasAll(g.journeys)
        BY <2>2, <2>6, JourneysAreTold DEF HasAll
    <2>9. GraphOK'
        BY <1>1, <2>5, <2>7, <2>8 DEF GraphOK, HasAll, Tells, Honest, RecordedAs, crawl, Range
    <2> QED
        BY <1>2, <1>3, <2>4, <2>9 DEF PlanInv
<1> QED
    BY <1>4, <1>5 DEF SaveGraph, Then

LEMMA LinkingPlans == PlanInv /\ LinkJourneys => PlanInv'
<1> SUFFICES ASSUME PlanInv, LinkJourneys PROVE PlanInv'
    OBVIOUS
<1>1. /\ UNCHANGED <<crawl, flows, quality, previous, known, mine, store, before>>
      /\ stage = "link" /\ stage' = "answered"
    BY DEF LinkJourneys, Is, Then
<1>2. ListsOK' /\ PreviousOK' /\ KnownOK'
    BY <1>1 DEF PlanInv, ListsOK, PreviousOK, KnownOK, store, Range
<1>3. GateOK' /\ PlanOK'
    BY <1>1, JudgedStays DEF Judged
<1>4. GraphOK'
    BY <1>1 DEF PlanInv, GraphOK, HasAll, Tells, Honest, ReadsDb, Planner, RecordedAs, store, crawl, Range
<1>5. JourneysOK'
    <2> DEFINE of(f) == {i \in DOMAIN recorded : recorded[i].name = f.name}
               id(f) == IF of(f) = {} THEN 0 ELSE recorded[Min(of(f))].id
    <2>1. journeys' = {[name |-> f.name, gated |-> f.crit \in Critical, flow |-> id(f)] : f \in Range(flows)}
        BY DEF LinkJourneys
    <2>2. ASSUME NEW f, of(f) # {}
          PROVE  \E r \in Range(recorded) : r.id = id(f)
        <3>1. DOMAIN recorded = 1..Len(recorded) /\ Len(recorded) \in Nat
            BY DEF PlanInv, ListsOK
        <3>2. of(f) \in SUBSET Nat
            BY <3>1
        <3>3. \E x \in of(f) : \A y \in of(f) : x <= y
            <4> HIDE DEF of
            <4> QED
                BY <2>2, <3>2, LeastExists
        <3>4. Min(of(f)) \in of(f)
            <4> HIDE DEF of
            <4> QED
                BY <3>3 DEF Min
        <3> DEFINE first == Min(of(f))
        <3>5. first \in DOMAIN recorded /\ id(f) = recorded[first].id
            BY <2>2, <3>4
        <3> HIDE DEF first, id
        <3> QED
            BY <3>5 DEF Range
    <2>3. ASSUME NEW f
          PROVE  id(f) # 0 => \E r \in Range(recorded) : r.id = id(f)
        <3>1. of(f) = {} => id(f) = 0
            OBVIOUS
        <3> HIDE DEF id, of
        <3> QED
            BY <2>2, <3>1
    <2> HIDE DEF id
    <2>4. \A j \in journeys' : \E f : j.flow = id(f)
        BY <2>1
    <2>5. \A j \in journeys' : j.flow # 0 => \E r \in Range(recorded) : r.id = j.flow
        BY <2>3, <2>4
    <2> QED
        BY <1>1, <2>5 DEF JourneysOK, store, Range
<1> QED
    BY <1>2, <1>3, <1>4, <1>5 DEF PlanInv

-----------------------------------------------------------------------------
(* The other calls *)

\* A table that nothing is taken from.
LEMMA TablesGrow ==
    ASSUME NEW s, s \in Seq(Range(s)), NEW t, t = s \/ \E e : t = Append(s, e)
    PROVE  /\ t \in Seq(Range(t)) /\ Range(s) \subseteq Range(t)
           /\ Len(s) \in Nat /\ Len(t) \in Nat /\ Len(s) <= Len(t)
           /\ \A i \in DOMAIN s : i \in DOMAIN t /\ t[i] = s[i]
<1>1. Len(s) \in Nat /\ DOMAIN s = 1..Len(s)
    OBVIOUS
<1>2. CASE t = s
    BY <1>1, <1>2
<1>3. CASE \E e : t = Append(s, e)
    <2>1. PICK e : t = Append(s, e)
        BY <1>3
    <2>2. /\ t \in Seq(Range(t)) /\ Len(t) = Len(s) + 1
          /\ \A i \in 1..Len(s) : t[i] = s[i]
          /\ Range(t) = Range(s) \cup {e}
        BY <2>1, AppendedIs
    <2>3. \A i \in DOMAIN s : i \in DOMAIN t
        BY <1>1, <2>2
    <2> QED
        BY <1>1, <2>2, <2>3
<1> QED
    BY <1>2, <1>3

\* Who only adds to the tables takes nothing from a plan.
LEMMA AddingPlans ==
    ASSUME PlanInv, UNCHANGED <<stage, crawl, plan, before>>,
           recorded' = recorded \/ \E e : recorded' = Append(recorded, e),
           graphs' = graphs \/ \E e : graphs' = Append(graphs, e)
    PROVE  PlanInv'
<1>1. /\ recorded' \in Seq(Range(recorded')) /\ Range(recorded) \subseteq Range(recorded')
      /\ graphs' \in Seq(Range(graphs')) /\ Len(graphs) \in Nat /\ Len(graphs') \in Nat
      /\ Len(graphs) <= Len(graphs')
      /\ \A i \in DOMAIN graphs : i \in DOMAIN graphs' /\ graphs'[i] = graphs[i]
    BY TablesGrow DEF PlanInv, ListsOK
<1>2. ListsOK'
    BY <1>1 DEF PlanInv, ListsOK, Range
<1>3. PreviousOK' /\ JourneysOK' /\ KnownOK'
    <2>1. PreviousOK'
        BY <1>1 DEF PlanInv, PreviousOK, plan
    <2>2. JourneysOK'
        BY <1>1 DEF PlanInv, JourneysOK, plan, Range
    <2>3. KnownOK'
        BY <1>1 DEF PlanInv, KnownOK, plan, crawl, Range
    <2> QED
        BY <2>1, <2>2, <2>3
<1>4. GateOK' /\ PlanOK'
    <2>1. (FlowsOK' <=> FlowsOK) /\ (Generic' <=> Generic)
        BY SameFlows DEF plan
    <2>2. Planner' <=> Planner
        BY DEF Planner, crawl
    <2> QED
        BY <2>1, <2>2 DEF PlanInv, GateOK, PlanOK, plan
<1>5. GraphOK'
    <2> SUFFICES ASSUME stage \in {"link", "answered"}, ReadsDb
                 PROVE  /\ mine \in DOMAIN graphs' /\ previous < mine
                        /\ HasAll(graphs'[mine].journeys)
                        /\ Honest(graphs'[mine].journeys, Range(recorded'))
        BY DEF GraphOK, HasAll, Tells, Honest, ReadsDb, Planner, RecordedAs, plan, crawl, Range
    <2>1. /\ mine \in DOMAIN graphs /\ previous < mine
          /\ HasAll(graphs[mine].journeys) /\ Honest(graphs[mine].journeys, Range(recorded))
        BY DEF PlanInv, GraphOK
    <2>2. \A k : RecordedAs(k, Range(recorded)) => RecordedAs(k, Range(recorded'))
        BY <1>1 DEF RecordedAs
    <2> QED
        BY <1>1, <2>1, <2>2 DEF Honest
<1> QED
    BY <1>2, <1>3, <1>4, <1>5 DEF PlanInv

LEMMA OthersPlan ==
    ASSUME PlanInv, OtherRecords \/ OtherSavesGraph \/ RecordingOnly(RecordNext)
    PROVE  PlanInv'
<1>1. CASE OtherRecords \/ OtherSavesGraph
    BY <1>1, AddingPlans DEF OtherRecords, OtherSavesGraph
<1>2. CASE RecordingOnly(RecordNext)
    <2>1. UNCHANGED <<stage, crawl, plan, graphs, before>>
        BY <1>2 DEF RecordingOnly
    <2>2. recorded' = recorded \/ \E e : recorded' = Append(recorded, e)
        BY <1>2 DEF RecordingOnly, RecordNext, RecordStep, PollStep, CancelRecording, Saved, SaveFlow,
              RefuseRecording, BeginRecording, RecordingRaises, LeaseEntryPage, SearchEntry,
              ReturnEntryPage, StartAgent, AgentActs, AgentEnds, Settled, MapAction, FinalPage,
              CloseSession, StartDevice, ConnectDevice, WalkDevice, QuitDevice, EndedByCancel, UnwoundByCancel,
              PollerGoesOn, PollerShoots, PollerStops
    <2> QED
        BY <2>1, <2>2, AddingPlans
<1> QED
    BY <1>1, <1>2

-----------------------------------------------------------------------------
(* Every discovery delivers *)

LEMMA PlanInitHolds == Init => PlanInv
<1> SUFFICES ASSUME Init PROVE PlanInv
    OBVIOUS
<1>1. call \in Asked
    BY DEF Init, CrawlInit
<1>2. ListsOK
    BY <1>1, DiscoveryAssumption DEF Init, ListsOK
<1>3. Len(graphs) \in Nat
    BY <1>2 DEF ListsOK
<1>4. GateOK /\ PlanOK /\ PreviousOK /\ KnownOK /\ GraphOK /\ JourneysOK
    BY <1>3 DEF Init, CrawlInit, GateOK, PlanOK, PreviousOK, KnownOK, GraphOK, JourneysOK, Judged
<1> QED
    BY <1>2, <1>4 DEF PlanInv

LEMMA PlanInvariant ==
    ASSUME CoverInv, PlanInv, [Next]_vars
    PROVE  PlanInv'
<1>1. CASE Crawling(CrawlNext)
    BY <1>1, CrawlingPlans
<1>2. CASE PlanStep
    BY <1>2, EarlyStepsPlan, PlannersPlan, GatePlans, ReadingPlans, SavingPlans, LinkingPlans DEF PlanStep
<1>3. CASE OtherRecords \/ OtherSavesGraph \/ RecordingOnly(RecordNext)
    BY <1>3, OthersPlan
<1>4. CASE UNCHANGED vars
    BY <1>4, AddingPlans DEF vars, store
<1> QED
    BY <1>1, <1>2, <1>3, <1>4 DEF Next

\* An answer delivers what it should: three to eight flows, more than generic
\* ones if they pass, on a storefront one that sells; and a graph with every
\* planned and every recorded journey, honest about which are recorded.
LEMMA PlanDelivers == PlanInv => DiscoveryDelivers
<1> SUFFICES ASSUME PlanInv, stage = "answered"
             PROVE  DiscoveryDelivers
    BY DEF DiscoveryDelivers, Answered
<1>1. ASSUME Planner
      PROVE  /\ Len(flows) \in 3..8
             /\ quality.passed => ~(Names(flows) \subseteq Names(GenericFlows))
             /\ Storefront(Inventory.tokens) /\ Len(flows) < 8 /\ ~Shallow(Inventory)
                   => \E f \in Range(flows) : f.crit = "revenue" \/ f.name = "checkout_purchase"
    BY <1>1 DEF PlanInv, PlanOK, GateOK, FlowsOK, Sells, Generic, Judged
<1> DEFINE told == graphs[mine].journeys
           done == Done(Range(recorded))
<1>2. ASSUME ReadsDb
      PROVE  /\ previous < mine
             /\ {f.key : f \in Range(flows)} \cup Done(before) \subseteq {j.key : j \in told}
             /\ \A j \in told : (j.key \in Done(before) => j.covered) /\ (j.covered => j.key \in done)
             /\ \A f \in Range(flows) : f.crit \in Critical /\ f.key \notin done
                   => f.key \in {j.key : j \in UncoveredCritical(graphs[mine])}
    <2>1. previous < mine /\ HasAll(told) /\ Honest(told, Range(recorded))
        BY <1>2 DEF PlanInv, GraphOK
    <2>2. \A k, rs : k \in Done(rs) <=> RecordedAs(k, rs)
        BY DEF Done, RecordedAs
    <2>3. UncoveredCritical(graphs[mine]) = {j \in told : j.crit \in Critical /\ ~j.covered}
        BY DEF UncoveredCritical
    <2> HIDE DEF told, done
    <2>4. \A j \in told : (j.key \in Done(before) => j.covered) /\ (j.covered => j.key \in done)
        BY <2>1, <2>2 DEF Honest, done
    <2>5. {f.key : f \in Range(flows)} \cup Done(before) \subseteq {j.key : j \in told}
        <3>1. \A f \in Range(flows) : \E j \in told : j.key = f.key
            BY <2>1 DEF HasAll, Tells
        <3>2. \A r \in {x \in before : x.app = call.app} : \E j \in told : j.key = r.key
            BY <2>1 DEF HasAll, Tells
        <3> QED
            BY <3>1, <3>2 DEF Done
    <2>6. ASSUME NEW f \in Range(flows), f.crit \in Critical, f.key \notin done
          PROVE  \E j \in UncoveredCritical(graphs[mine]) : j.key = f.key
        <3>1. PICK j \in told : j.key = f.key /\ j.crit \in Critical
            BY <2>1, <2>6 DEF HasAll, Tells
        <3> QED
            BY <2>3, <2>4, <2>6, <3>1
    <2> QED
        BY <2>1, <2>4, <2>5, <2>6
<1>3. \A j \in journeys : j.flow # 0 => \E r \in Range(recorded) : r.id = j.flow
    BY DEF PlanInv, JourneysOK
<1> QED
    BY <1>1, <1>2, <1>3, Zenon DEF DiscoveryDelivers

\* Whatever the pages hold, the LLM answers and the other calls of the server
\* record and save meanwhile, a discovery that answers delivers its plan and
\* its graph.
THEOREM DiscoveriesDeliver == Spec => []DiscoveryDelivers
<1>1. Init => CrawlInv /\ CoverInv /\ PlanInv
    BY CrawlInitHolds, CoverInitHolds, PlanInitHolds DEF Init
<1>2. CrawlInv /\ CoverInv /\ PlanInv /\ [Next]_vars => CrawlInv' /\ CoverInv' /\ PlanInv'
    BY CrawlInvariant, CoverStep, PlanInvariant
<1>3. PlanInv => DiscoveryDelivers
    BY PlanDelivers
<1> QED
    BY <1>1, <1>2, <1>3, PTL DEF Spec
============================================================================
