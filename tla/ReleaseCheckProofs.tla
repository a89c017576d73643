------------------------- MODULE ReleaseCheckProofs -------------------------
(***************************************************************************)
(* Proofs about ReleaseCheck: the writers of a release leave each other's  *)
(* columns alone, a brief is coherent with its release and its run, and a  *)
(* SHIP is earned by every flow of the check - for any releases, checks,   *)
(* flows, policies and outcomes.                                           *)
(***************************************************************************)
EXTENDS ReleaseCheck, FiniteSetTheorems, TLAPS

-----------------------------------------------------------------------------
(* The inductive invariant *)

\* How far a check is before its run exists, and while an evaluation writes
\* its run down.
Launching == {"idle", "refused", "replay", "targeted"}
Evaluating == {"created", "updated"}
CheckPcs == Launching \cup Evaluating \cup {"launched", "done"}

CheckTypeOK ==
    /\ DOMAIN row = Releases /\ \A rel \in Releases : DOMAIN row[rel] = DOMAIN NoRow
    /\ DOMAIN run = Checks /\ \A k \in Checks : DOMAIN run[k] = DOMAIN NoRun
    /\ DOMAIN chk = Checks
    /\ \A k \in Checks : DOMAIN chk[k] = DOMAIN Idle /\ chk[k].pc \in CheckPcs
    /\ DOMAIN rd = Checks
    /\ \A k \in Checks : DOMAIN rd[k] = DOMAIN Idle /\ rd[k].pc \in {"idle", "link", "write"}
    /\ set \in Settings

\* A run that nothing writes any more.
Settled(k) == run[k].task = "over" /\ chk[k].pc \notin Evaluating

\* A case as it is stored.
CaseOK(c) == c.crit \in Criticalities /\ (c.status = "pass" \/ Failed(c))

\* The flows of a completed run all have a case; that of an evaluation has no
\* flow.
Complete(k) ==
    \/ \A f \in FlowsOf[k] : \E c \in run[k].kept : c.flow = f
    \/ \E c \in run[k].kept : c.flow = None

RunOK(k) ==
    /\ chk[k].pc \in Launching => run[k] = NoRun
    /\ chk[k].pc \in Evaluating => run[k].task = "over" /\ run[k].saved = {}
    /\ chk[k].pc = "created" => run[k].status = "queued" /\ run[k].kept = {}
    /\ run[k].task = "live" => run[k].kept = {} /\ run[k].status \in {"queued", "running"}
    /\ IsFiniteSet(run[k].saved) /\ IsFiniteSet(run[k].kept)
    /\ \A c \in run[k].saved \cup run[k].kept : CaseOK(c)
    /\ run[k].saved = {} \/ run[k].kept = {} \/ run[k].saved = run[k].kept
    /\ run[k].status = "completed" =>
          run[k].task = "over" /\ Complete(k) /\ (run[k].saved = {} \/ run[k].saved = run[k].kept)
    /\ Settled(k) => run[k].kept = {} \/ run[k].kept = run[k].saved

\* What is about to be written about a run is about one that is settled.
ReadingOK(k) ==
    /\ chk[k].pc \notin {"idle"} => chk[k].rel \in Releases
    /\ rd[k].pc # "idle" => Settled(k)
    /\ rd[k].pc = "write" => rd[k].rel \in Releases

BlockedBy(cases) == \E c \in cases : Failed(c) /\ c.severity = "blocker"

\* A brief that is final is of a settled run.
BriefOK(rel) ==
    LET brief == row[rel].brief IN
    brief = NoBrief \/
        /\ brief.run \in Checks /\ brief.run = row[rel].run
        /\ brief.decision \in Decisions
        /\ brief.decision = "BLOCK" <=> brief.risk.value >= 70
        /\ brief.decision = "INVESTIGATE" => brief.risk.value \in 40..69
        /\ brief.final \/ (brief.decision = "INVESTIGATE" /\ brief.blockers = {})
        /\ brief.final => Settled(brief.run)
        /\ brief.blockers # {} => brief.decision = "BLOCK" /\ BlockedBy(run[brief.run].saved)
        /\ brief.decision = "SHIP" =>
              \A c \in run[brief.run].saved \cup run[brief.run].kept : Earned(brief.run, c)

\* A client that read a completed run read all that was kept of it.
AskedOK ==
    /\ asked.pc \in {"idle", "cases", "brief"}
    /\ asked.pc # "idle" => asked.run \in Checks
    /\ asked.pc = "idle" => asked = Silent
    /\ asked.pc = "brief" => asked.rel \in Releases
    /\ asked.seen.status = "completed" =>
          run[asked.run].status = "completed" /\ asked.seen.kept = run[asked.run].kept

ReleaseInv ==
    /\ CheckTypeOK
    /\ \A k \in Checks : RunOK(k) /\ ReadingOK(k)
    /\ \A rel \in Releases : BriefOK(rel)
    /\ AskedOK

-----------------------------------------------------------------------------
(* The rules *)

\* FirstOf picks the first rule that is met.
LEMMA FirstIs ==
    ASSUME NEW rules, DOMAIN rules \subseteq Int, NEW n \in DOMAIN rules, rules[n][1],
           \A m \in DOMAIN rules : m < n => ~ rules[m][1]
    PROVE  FirstOf(rules) = rules[n][2]
<1> DEFINE met == {m \in DOMAIN rules : rules[m][1]}
           first == CHOOSE m \in met : \A k \in met : m <= k
<1>1. n \in met
    BY Zenon
<1>2. \A m \in met : ~ (m < n)
    BY Zenon
<1>3. met \subseteq Int
    BY Zenon
<1>4. FirstOf(rules) = rules[first][2]
    BY Zenon DEF FirstOf
<1> HIDE DEF met
<1>5. first = n
    BY <1>1, <1>2, <1>3
<1> QED
    BY <1>4, <1>5, Zenon

LEMMA FirstOfThree ==
    ASSUME NEW p, NEW q, NEW r, r[1]
    PROVE  FirstOf(<<p, q, r>>)
               = IF p[1] THEN p[2] ELSE IF q[1] THEN q[2] ELSE r[2]
<1> DEFINE rules == <<p, q, r>>
<1>1. DOMAIN rules = 1..3
    OBVIOUS
<1>2. rules[1] = p /\ rules[2] = q /\ rules[3] = r
    OBVIOUS
<1>3. /\ DOMAIN rules \subseteq Int
      /\ 1 \in DOMAIN rules /\ 2 \in DOMAIN rules /\ 3 \in DOMAIN rules
      /\ \A m \in DOMAIN rules : m < 1 => FALSE
      /\ \A m \in DOMAIN rules : m < 2 => m = 1
      /\ \A m \in DOMAIN rules : m < 3 => m = 1 \/ m = 2
    BY <1>1
<1> HIDE DEF rules
<1>4. ASSUME p[1] PROVE FirstOf(rules) = p[2]
    BY <1>2, <1>3, <1>4, FirstIs, Zenon
<1>5. ASSUME ~ p[1], q[1] PROVE FirstOf(rules) = q[2]
    BY <1>2, <1>3, <1>5, FirstIs, Zenon
<1>6. ASSUME ~ p[1], ~ q[1] PROVE FirstOf(rules) = r[2]
    BY <1>2, <1>3, <1>6, FirstIs, Zenon
<1> QED
    BY <1>4, <1>5, <1>6, Zenon DEF rules

LEMMA FirstOfFour ==
    ASSUME NEW p, NEW q, NEW r, NEW s, s[1]
    PROVE  FirstOf(<<p, q, r, s>>)
               = IF p[1] THEN p[2] ELSE IF q[1] THEN q[2] ELSE IF r[1] THEN r[2] ELSE s[2]
<1> DEFINE rules == <<p, q, r, s>>
<1>1. DOMAIN rules = 1..4
    OBVIOUS
<1>2. rules[1] = p /\ rules[2] = q /\ rules[3] = r /\ rules[4] = s
    OBVIOUS
<1>3. /\ DOMAIN rules \subseteq Int
      /\ 1 \in DOMAIN rules /\ 2 \in DOMAIN rules /\ 3 \in DOMAIN rules /\ 4 \in DOMAIN rules
      /\ \A m \in DOMAIN rules : m < 1 => FALSE
      /\ \A m \in DOMAIN rules : m < 2 => m = 1
      /\ \A m \in DOMAIN rules : m < 3 => m = 1 \/ m = 2
      /\ \A m \in DOMAIN rules : m < 4 => m = 1 \/ m = 2 \/ m = 3
    BY <1>1
<1> HIDE DEF rules
<1>4. ASSUME p[1] PROVE FirstOf(rules) = p[2]
    BY <1>2, <1>3, <1>4, FirstIs, Zenon
<1>5. ASSUME ~ p[1], q[1] PROVE FirstOf(rules) = q[2]
    BY <1>2, <1>3, <1>5, FirstIs, Zenon
<1>6. ASSUME ~ p[1], ~ q[1], r[1] PROVE FirstOf(rules) = r[2]
    BY <1>2, <1>3, <1>6, FirstIs, Zenon
<1>7. ASSUME ~ p[1], ~ q[1], ~ r[1] PROVE FirstOf(rules) = s[2]
    BY <1>2, <1>3, <1>7, FirstIs, Zenon
<1> QED
    BY <1>4, <1>5, <1>6, <1>7, Zenon DEF rules

\* The risk of an assessment is none of the marks of a row without one.
LEMMA LevelIsAssessed == ASSUME NEW score PROVE Level(score) \notin {None, "registered"}
<1> DEFINE p == <<score >= 80, "blocker">>
           q == <<score >= 60, "high">>
           r == <<score >= 30, "medium">>
           s == <<TRUE, "low">>
<1>1. s[1] /\ p[2] = "blocker" /\ q[2] = "high" /\ r[2] = "medium" /\ s[2] = "low"
    BY Zenon
<1>2. Level(score) = FirstOf(<<p, q, r, s>>)
    BY Zenon DEF Level
<1> HIDE DEF p, q, r, s
<1>3. Level(score) \in {p[2], q[2], r[2], s[2]}
    BY <1>1, <1>2, FirstOfFour, Zenon
<1> QED
    BY <1>1, <1>3 DEF None

\* compute_release_recommendation: what blocks is not shipped, nor what is to
\* be investigated.
LEMMA RecommendationIs ==
    ASSUME NEW cases, NEW policy, NEW bucket, NEW flags
    PROVE  LET decision == compute_release_recommendation(cases, policy, bucket, flags) IN
           /\ decision \in Decisions
           /\ Blocks(cases, policy, bucket) => decision = "BLOCK"
           /\ decision = "SHIP" =>
                 ~ Blocks(cases, policy, bucket) /\ ~ Investigates(cases, policy, bucket)
<1> DEFINE blocks == Blocks(cases, policy, bucket)
           open == Investigates(cases, policy, bucket)
           raised == IF FlagRaises(cases, flags) THEN "BLOCK" ELSE "INVESTIGATE"
           p == <<blocks, "BLOCK">>
           q == <<open, raised>>
           r == <<TRUE, "SHIP">>
           decision == compute_release_recommendation(cases, policy, bucket, flags)
<1>1. /\ p[1] = blocks /\ q[1] = open /\ r[1]
      /\ p[2] = "BLOCK" /\ q[2] = raised /\ r[2] = "SHIP"
    BY Zenon
<1>2. decision = FirstOf(<<p, q, r>>)
    BY Zenon DEF compute_release_recommendation
<1>3. raised \in {"BLOCK", "INVESTIGATE"}
    BY Zenon
<1> HIDE DEF blocks, open, raised, p, q, r, decision
<1>4. decision = IF p[1] THEN p[2] ELSE IF q[1] THEN q[2] ELSE r[2]
    BY <1>1, <1>2, FirstOfThree, Zenon
<1>5. /\ blocks => decision = "BLOCK"
      /\ ~ blocks /\ open => decision = raised
      /\ ~ blocks /\ ~ open => decision = "SHIP"
    BY <1>1, <1>4, Zenon
<1>6. /\ decision \in Decisions
      /\ blocks => decision = "BLOCK"
      /\ decision = "SHIP" => ~ blocks /\ ~ open
    BY <1>3, <1>5 DEF Decisions
<1> QED
    BY <1>6, Zenon DEF blocks, open, decision

\* _risk_score_from_severity_counts: three bands, which are those of the
\* decision as long as a blocker blocks.
LEMMA RiskIsInBand ==
    ASSUME NEW counts, NEW decision \in Decisions,
           counts["blocker"] \in Nat, counts["high"] \in Nat, counts["medium"] \in Nat,
           counts["blocker"] > 0 => decision = "BLOCK"
    PROVE  /\ decision = "BLOCK" <=> Risk(counts, decision).value >= 70
           /\ decision = "INVESTIGATE" => Risk(counts, decision).value \in 40..69
<1> DEFINE b == counts["blocker"]
           h == counts["high"]
           m == counts["medium"]
           blocks == b > 0 \/ decision = "BLOCK"
           open == h > 0 \/ decision = "INVESTIGATE"
           worst == [value |-> AtMost(100, 70 + 10 * b + 3 * h), level |-> "blocker"]
           middle == [value |-> AtMost(69, 40 + 10 * h + 3 * m),
                      level |-> IF h > 0 THEN "high" ELSE "medium"]
           mild == [value |-> AtMost(39, 20 + 5 * m), level |-> "medium"]
           least == [value |-> 10, level |-> "low"]
           p == <<blocks, worst>>
           q == <<open, middle>>
           r == <<m > 0, mild>>
           s == <<TRUE, least>>
           risk == Risk(counts, decision)
<1>1. risk = FirstOf(<<p, q, r, s>>)
    BY Zenon DEF Risk
<1>2. /\ p[1] = blocks /\ q[1] = open /\ s[1]
      /\ p[2] = worst /\ q[2] = middle /\ r[2] = mild /\ s[2] = least
    BY Zenon
<1>3. worst.value >= 70
    BY DEF AtMost
<1>4. middle.value \in 40..69
    <2> DEFINE sum == 40 + 10 * h + 3 * m
    <2>1. sum \in Int /\ sum >= 40
        OBVIOUS
    <2>2. middle.value = AtMost(69, sum)
        OBVIOUS
    <2> HIDE DEF sum, middle
    <2> QED
        BY <2>1, <2>2 DEF AtMost
<1>5. ~ (mild.value >= 70) /\ ~ (least.value >= 70)
    BY DEF AtMost
<1>6. /\ blocks <=> decision = "BLOCK"
      /\ decision = "INVESTIGATE" => ~ blocks /\ open
    OBVIOUS
<1> HIDE DEF blocks, open, worst, middle, mild, least, p, q, r, s, risk
<1>7. risk = IF p[1] THEN p[2] ELSE IF q[1] THEN q[2] ELSE IF r[1] THEN r[2] ELSE s[2]
    BY <1>1, <1>2, FirstOfFour, Zenon
<1>8. /\ blocks => risk = worst
      /\ ~ blocks => risk \in {middle, mild, least}
      /\ ~ blocks /\ open => risk = middle
    BY <1>2, <1>7, Zenon
<1>9. ~ (middle.value >= 70)
    BY <1>4
<1>10. /\ decision = "BLOCK" <=> risk.value >= 70
       /\ decision = "INVESTIGATE" => risk.value \in 40..69
    BY <1>3, <1>4, <1>5, <1>6, <1>8, <1>9
<1> QED
    BY <1>10 DEF risk

-----------------------------------------------------------------------------
(* Reports and briefs *)

EarlyBucket(seen, cases) == classify_report_stability(cases, seen.status, None)

\* What a brief takes from a report.
LEMMA ReportIs ==
    ASSUME NEW seen, NEW cases, NEW stale, NEW policy, NEW flags
    PROVE  LET report == Report(seen, cases, stale, policy, flags) IN
           /\ report.decision =
                 compute_release_recommendation(cases, policy, EarlyBucket(seen, cases), flags)
           /\ report.counts["blocker"] = SeverityCount(cases, "blocker")
           /\ report.counts["high"] = SeverityCount(cases, "high")
           /\ report.counts["medium"] = SeverityCount(cases, "medium")
           /\ report.blockers = {c.flow : c \in {d \in cases : Failed(d) /\ d.severity = "blocker"}}
BY DEF Report, EarlyBucket, None

\* severity_counts: how many cases, none only if there is none.
LEMMA SeverityCounts ==
    ASSUME NEW cases, IsFiniteSet(cases), NEW severity
    PROVE  /\ SeverityCount(cases, severity) \in Nat
           /\ SeverityCount(cases, severity) > 0 =>
                 \E c \in cases : c.status = "fail" /\ c.severity = severity
<1> DEFINE some == {c \in cases : c.status = "fail" /\ c.severity = severity}
<1>1. some \in SUBSET cases
    OBVIOUS
<1>2. IsFiniteSet(some) /\ SeverityCount(cases, severity) = Cardinality(some)
    BY <1>1, FS_Subset DEF SeverityCount
<1>3. Cardinality(some) \in Nat /\ (Cardinality(some) = 0 <=> some = {})
    BY <1>2, FS_CardinalityType, FS_EmptySet
<1> QED
    BY <1>2, <1>3

\* A final brief has the risk of its decision, names a journey a blocker only
\* when that blocks, and ships only what the policy lets through.
LEMMA FinalBriefIs ==
    ASSUME NEW k, NEW seen, NEW cases, IsFiniteSet(cases), NEW stale, NEW policy, NEW flags
    PROVE  LET brief == Brief(k, Report(seen, cases, stale, policy, flags))
               bucket == EarlyBucket(seen, cases)
           IN  /\ brief.run = k /\ brief.final /\ brief.decision \in Decisions
               /\ brief.decision = "BLOCK" <=> brief.risk.value >= 70
               /\ brief.decision = "INVESTIGATE" => brief.risk.value \in 40..69
               /\ brief.blockers # {} => brief.decision = "BLOCK" /\ BlockedBy(cases)
               /\ brief.decision = "SHIP" =>
                     ~ Blocks(cases, policy, bucket) /\ ~ Investigates(cases, policy, bucket)
<1> DEFINE report == Report(seen, cases, stale, policy, flags)
           bucket == EarlyBucket(seen, cases)
           brief == Brief(k, report)
           decision == compute_release_recommendation(cases, policy, bucket, flags)
<1>1. /\ report.decision = decision
      /\ report.counts["blocker"] = SeverityCount(cases, "blocker")
      /\ report.counts["high"] = SeverityCount(cases, "high")
      /\ report.counts["medium"] = SeverityCount(cases, "medium")
      /\ report.blockers = {c.flow : c \in {d \in cases : Failed(d) /\ d.severity = "blocker"}}
    BY ReportIs
<1>2. /\ decision \in Decisions
      /\ Blocks(cases, policy, bucket) => decision = "BLOCK"
      /\ decision = "SHIP" =>
            ~ Blocks(cases, policy, bucket) /\ ~ Investigates(cases, policy, bucket)
    BY RecommendationIs
<1> HIDE DEF report, decision, bucket
<1>3. BlockedBy(cases) => Blocks(cases, policy, bucket)
    BY DEF BlockedBy, Blocks
<1>4. report.counts["blocker"] > 0 => BlockedBy(cases)
    BY <1>1, SeverityCounts DEF BlockedBy, Failed
<1>5. /\ report.counts["blocker"] \in Nat /\ report.counts["high"] \in Nat
      /\ report.counts["medium"] \in Nat
    BY <1>1, SeverityCounts
<1>6. /\ decision = "BLOCK" <=> Risk(report.counts, decision).value >= 70
      /\ decision = "INVESTIGATE" => Risk(report.counts, decision).value \in 40..69
    BY <1>2, <1>3, <1>4, <1>5, RiskIsInBand, Zenon
<1>7. /\ brief.run = k /\ brief.final /\ brief.decision = decision
      /\ brief.risk = Risk(report.counts, decision)
      /\ brief.blockers = report.blockers
    BY <1>1, Zenon DEF Brief
<1>8. report.blockers # {} => BlockedBy(cases)
    BY <1>1 DEF BlockedBy
<1> HIDE DEF brief
<1>9. /\ brief.run = k /\ brief.final /\ brief.decision \in Decisions
      /\ brief.decision = "BLOCK" <=> brief.risk.value >= 70
      /\ brief.decision = "INVESTIGATE" => brief.risk.value \in 40..69
      /\ brief.blockers # {} => brief.decision = "BLOCK" /\ BlockedBy(cases)
      /\ brief.decision = "SHIP" =>
            ~ Blocks(cases, policy, bucket) /\ ~ Investigates(cases, policy, bucket)
    BY <1>2, <1>3, <1>6, <1>7, <1>8
<1> QED
    BY <1>9 DEF brief, report, bucket

-----------------------------------------------------------------------------
(* What a policy lets through *)

\* A case that a recommendation to ship is made of passed as it should, or the
\* gate of its criticality lets it through.
LEMMA ShippedIsGated ==
    ASSUME NEW cases, NEW policy, NEW bucket,
           ~ Blocks(cases, policy, bucket), ~ Investigates(cases, policy, bucket),
           NEW c \in cases, CaseOK(c)
    PROVE  LET gate == policy.gates[c.crit]
               count == Cardinality({d \in cases : Failed(d) /\ d.crit = c.crit})
           IN  IF c.status = "pass" THEN ~ (c.crit \in GatingCriticalities /\ "fallback" \in c.drift)
               ELSE /\ Failed(c) /\ c.severity # "blocker" /\ gate.enabled
                    /\ gate.on \in {"BLOCK", "INVESTIGATE"} => ~ (count >= gate.min)
<1> DEFINE gate == policy.gates[c.crit]
           count == Cardinality({d \in cases : Failed(d) /\ d.crit = c.crit})
<1>1. ~ Fired(cases, policy, "BLOCK") /\ (Failed(c) => c.severity # "blocker")
    BY Zenon DEF Blocks
<1>2. /\ ~ Fired(cases, policy, "INVESTIGATE") /\ ~ Ungated(cases, policy) /\ ~ DriftedPass(cases)
    BY Zenon DEF Investigates
<1>3. c.crit \in Criticalities /\ (c.status = "pass" \/ Failed(c))
    BY DEF CaseOK
<1>4. Failed(c) => gate.enabled
    BY <1>2, Zenon DEF Ungated
<1>5. gate.enabled => /\ gate.on = "BLOCK" => ~ (count >= gate.min)
                      /\ gate.on = "INVESTIGATE" => ~ (count >= gate.min)
    BY <1>1, <1>2, <1>3, Zenon DEF Fired
<1>6. c.status = "pass" => ~ (c.crit \in GatingCriticalities /\ "fallback" \in c.drift)
    BY <1>2, Zenon DEF DriftedPass
<1> HIDE DEF gate, count
<1>7. /\ c.status = "pass" => ~ (c.crit \in GatingCriticalities /\ "fallback" \in c.drift)
      /\ c.status # "pass" => /\ Failed(c) /\ c.severity # "blocker" /\ gate.enabled
                              /\ gate.on \in {"BLOCK", "INVESTIGATE"} => ~ (count >= gate.min)
    BY <1>1, <1>3, <1>4, <1>5, <1>6
<1> QED
    BY <1>7, Zenon DEF gate, count

\* The number of failures of a criticality is a number, and not zero when one
\* of its cases failed.
LEMMA FailureCounts ==
    ASSUME NEW cases, IsFiniteSet(cases), NEW crit
    PROVE  LET count == Cardinality({d \in cases : Failed(d) /\ d.crit = crit}) IN
           /\ count \in Nat
           /\ \A c \in cases : Failed(c) /\ c.crit = crit => count >= 1
<1> DEFINE failures == {d \in cases : Failed(d) /\ d.crit = crit}
<1>1. failures \in SUBSET cases
    OBVIOUS
<1>2. IsFiniteSet(failures)
    BY <1>1, FS_Subset
<1>3. Cardinality(failures) \in Nat /\ (Cardinality(failures) = 0 <=> failures = {})
    BY <1>2, FS_CardinalityType, FS_EmptySet
<1>4. \A c \in cases : Failed(c) /\ c.crit = crit => failures # {}
    BY Zenon
<1> HIDE DEF failures
<1>5. Cardinality(failures) \in Nat
      /\ \A c \in cases : Failed(c) /\ c.crit = crit => Cardinality(failures) >= 1
    BY <1>3, <1>4
<1> QED
    BY <1>5 DEF failures

\* The policy that is stored lets through what it says it lets through.
LEMMA ShippedIsEarned ==
    ASSUME NEW k \in Checks, set \in Settings, NEW cases, cases = run[k].saved \cup run[k].kept,
           IsFiniteSet(cases), \A c \in cases : CaseOK(c), NEW bucket,
           ~ Blocks(cases, set.policy, bucket), ~ Investigates(cases, set.policy, bucket)
    PROVE  \A c \in cases : Earned(k, c)
<1> SUFFICES ASSUME NEW c \in cases PROVE Earned(k, c)
    OBVIOUS
<1> DEFINE gate == set.policy.gates[c.crit]
           count == Cardinality({d \in cases : Failed(d) /\ d.crit = c.crit})
<1>1. CaseOK(c)
    OBVIOUS
<1>2. /\ c.status = "pass" => ~ (c.crit \in GatingCriticalities /\ "fallback" \in c.drift)
      /\ c.status # "pass" => /\ c.severity # "blocker" /\ gate.enabled
                              /\ gate.on \in {"BLOCK", "INVESTIGATE"} => ~ (count >= gate.min)
    BY <1>1, ShippedIsGated, Zenon
<1>3. gate.on \in {"BLOCK", "INVESTIGATE", "IGNORE"} /\ gate.min \in Int
    BY <1>1, SettingsAssumption DEF CaseOK
<1>4. count \in Nat
    BY FailureCounts, Zenon
<1>5. Earned(k, c) <=> IF c.status = "pass"
                       THEN ~ (c.crit \in GatingCriticalities /\ "fallback" \in c.drift)
                       ELSE c.severity # "blocker" /\ gate.enabled /\ (gate.on = "IGNORE" \/ count < gate.min)
    BY Zenon DEF Earned, Excused
<1> HIDE DEF gate, count
<1> QED
    BY <1>2, <1>3, <1>4, <1>5

\* DEFAULT_RELEASE_POLICY: one failure fires an enabled gate.
LEMMA DefaultGates ==
    ASSUME NEW crit \in Criticalities, DEFAULT_RELEASE_POLICY.gates[crit].enabled
    PROVE  /\ DEFAULT_RELEASE_POLICY.gates[crit].on \in {"BLOCK", "INVESTIGATE"}
           /\ DEFAULT_RELEASE_POLICY.gates[crit].min = 1
<1> DEFINE p == <<crit \in GatingCriticalities, Gate("BLOCK", 1, TRUE)>>
           q == <<crit = "retention", Gate("INVESTIGATE", 1, TRUE)>>
           r == <<TRUE, Gate("INVESTIGATE", 1, FALSE)>>
<1>1. DEFAULT_RELEASE_POLICY.gates[crit] = FirstOf(<<p, q, r>>)
    BY Zenon DEF DEFAULT_RELEASE_POLICY
<1>2. /\ r[1] /\ p[2] = Gate("BLOCK", 1, TRUE) /\ q[2] = Gate("INVESTIGATE", 1, TRUE)
      /\ r[2] = Gate("INVESTIGATE", 1, FALSE)
    BY Zenon
<1> HIDE DEF p, q, r
<1>3. DEFAULT_RELEASE_POLICY.gates[crit] \in {p[2], q[2], r[2]}
    BY <1>1, <1>2, FirstOfThree, Zenon
<1> QED
    BY <1>2, <1>3 DEF Gate

\* Under the built-in policy only cases that passed as they should are shipped,
\* and those are earned under any policy.
LEMMA DefaultShipIsEarned ==
    ASSUME NEW k \in Checks, NEW cases, IsFiniteSet(cases), \A c \in cases : CaseOK(c), NEW bucket,
           ~ Blocks(cases, DEFAULT_RELEASE_POLICY, bucket),
           ~ Investigates(cases, DEFAULT_RELEASE_POLICY, bucket)
    PROVE  \A c \in cases : Earned(k, c)
<1> SUFFICES ASSUME NEW c \in cases PROVE Earned(k, c)
    OBVIOUS
<1> DEFINE gate == DEFAULT_RELEASE_POLICY.gates[c.crit]
           count == Cardinality({d \in cases : Failed(d) /\ d.crit = c.crit})
<1>1. CaseOK(c) /\ c.crit \in Criticalities
    BY DEF CaseOK
<1>2. /\ c.status = "pass" => ~ (c.crit \in GatingCriticalities /\ "fallback" \in c.drift)
      /\ c.status # "pass" => /\ Failed(c) /\ gate.enabled
                              /\ gate.on \in {"BLOCK", "INVESTIGATE"} => ~ (count >= gate.min)
    BY <1>1, ShippedIsGated, Zenon
<1>3. gate.enabled => gate.on \in {"BLOCK", "INVESTIGATE"} /\ gate.min = 1
    BY <1>1, DefaultGates
<1>4. Failed(c) => count >= 1
    BY FailureCounts, Zenon
<1> HIDE DEF gate, count
<1>5. c.status = "pass"
    BY <1>2, <1>3, <1>4
<1> QED
    BY <1>2, <1>5, Zenon DEF Earned

-----------------------------------------------------------------------------
(* What a step leaves alone *)

\* A brief stays as it should be when its release and its run do.
LEMMA BriefStays ==
    ASSUME NEW rel \in Releases, BriefOK(rel), UNCHANGED set,
           row'[rel].brief = row[rel].brief, row'[rel].run = row[rel].run,
           \A k \in Checks : Settled(k) => run'[k] = run[k] /\ Settled(k)'
    PROVE  BriefOK(rel)'
<1> DEFINE brief == row[rel].brief
<1>1. CASE brief = NoBrief
    BY <1>1 DEF BriefOK
<1>2. CASE brief # NoBrief /\ ~ brief.final
    <2>1. brief.decision = "INVESTIGATE" /\ brief.blockers = {}
        BY <1>2 DEF BriefOK
    <2> QED
        BY <1>2, <2>1 DEF BriefOK
<1>3. CASE brief # NoBrief /\ brief.final
    <2>1. brief.run \in Checks /\ Settled(brief.run)
        BY <1>3 DEF BriefOK
    <2>2. run'[brief.run] = run[brief.run] /\ Settled(brief.run)' /\ brief' = brief
        BY <2>1
    <2>3. \A c : Earned(brief.run, c)' <=> Earned(brief.run, c)
        BY <2>2, Zenon DEF Earned, Excused
    <2> HIDE DEF brief
    <2>4. row'[rel].brief = brief /\ row[rel].brief = brief
        BY DEF brief
    <2> QED
        BY <1>3, <2>2, <2>3, <2>4 DEF BriefOK
<1> QED
    BY <1>1, <1>2, <1>3

\* So does what is known of a run nothing happens to.
LEMMA RunStays ==
    ASSUME NEW k \in Checks, RunOK(k), ReadingOK(k),
           run'[k] = run[k], chk'[k] = chk[k], rd'[k] = rd[k]
    PROVE  RunOK(k)' /\ ReadingOK(k)' /\ (Settled(k)' <=> Settled(k))
BY DEF RunOK, ReadingOK, Settled, Complete

\* And what a client has read.
LEMMA AskedStays ==
    ASSUME AskedOK, UNCHANGED asked,
           \A k \in Checks : run[k].status = "completed" =>
                                 run'[k].status = "completed" /\ run'[k].kept = run[k].kept
    PROVE  AskedOK'
<1>1. asked.pc = "idle" => asked.seen.status # "completed"
    BY DEF AskedOK, Silent, None
<1> QED
    BY <1>1 DEF AskedOK

\* A step of one check, which writes no release.
LEMMA OneCheckKeeps ==
    ASSUME ReleaseInv, NEW k \in Checks, UNCHANGED <<row, set, asked>>, CheckTypeOK',
           \A j \in Checks \ {k} : run'[j] = run[j] /\ chk'[j] = chk[j] /\ rd'[j] = rd[j],
           RunOK(k)', ReadingOK(k)',
           Settled(k) => run'[k] = run[k] /\ Settled(k)',
           run[k].status = "completed" => run'[k].status = "completed" /\ run'[k].kept = run[k].kept
    PROVE  ReleaseInv'
<1>1. \A j \in Checks \ {k} : RunOK(j)' /\ ReadingOK(j)' /\ (Settled(j)' <=> Settled(j))
    BY RunStays DEF ReleaseInv
<1>2. \A j \in Checks : RunOK(j)' /\ ReadingOK(j)'
    BY <1>1
<1>3. \A j \in Checks : Settled(j) => run'[j] = run[j] /\ Settled(j)'
    BY <1>1
<1>4. \A rel \in Releases : BriefOK(rel)'
    BY <1>3, BriefStays DEF ReleaseInv
<1>5. AskedOK'
    BY AskedStays DEF ReleaseInv
<1> QED
    BY <1>2, <1>4, <1>5 DEF ReleaseInv

\* A step that moves one check, its task or the reading of its run, and writes
\* neither the run nor a release.
LEMMA ControlKeeps ==
    ASSUME ReleaseInv, NEW k \in Checks, UNCHANGED <<row, run, set, asked>>,
           chk' = chk \/ /\ DOMAIN chk' = Checks /\ DOMAIN chk'[k] = DOMAIN Idle
                         /\ \A j \in Checks \ {k} : chk'[j] = chk[j]
                         /\ chk[k].pc \in Launching /\ chk'[k].pc \in Launching
                         /\ chk'[k].rel \in Releases,
           NEW next, next = Idle \/ (next.pc = "write" /\ next.rel \in Releases /\ DOMAIN next = DOMAIN Idle),
           rd' = rd \/ (rd[k].pc # "idle" /\ rd' = [rd EXCEPT ![k] = next])
    PROVE  ReleaseInv'
<1>1. CheckTypeOK /\ RunOK(k) /\ ReadingOK(k)
    BY DEF ReleaseInv
<1>2. DOMAIN chk = Checks /\ DOMAIN rd = Checks
    BY <1>1 DEF CheckTypeOK
<1>3. \A j \in Checks \ {k} : chk'[j] = chk[j] /\ rd'[j] = rd[j]
    BY <1>2
<1>4. chk'[k] = chk[k] \/ /\ DOMAIN chk'[k] = DOMAIN Idle
                          /\ chk[k].pc \in Launching /\ chk'[k].pc \in Launching
                          /\ chk'[k].rel \in Releases
    OBVIOUS
<1>5. rd'[k] = rd[k] \/ (rd[k].pc # "idle" /\ rd'[k] = next)
    BY <1>2
<1>6. CheckTypeOK'
    <2>1. DOMAIN chk' = Checks /\ DOMAIN rd' = Checks
        BY <1>2
    <2>2. DOMAIN chk'[k] = DOMAIN Idle /\ chk'[k].pc \in CheckPcs
        BY <1>1, <1>4 DEF CheckTypeOK, CheckPcs
    <2>3. DOMAIN rd'[k] = DOMAIN Idle /\ rd'[k].pc \in {"idle", "link", "write"}
        BY <1>1, <1>5 DEF CheckTypeOK, Idle
    <2> QED
        BY <1>1, <1>3, <2>1, <2>2, <2>3 DEF CheckTypeOK
<1>7. Launching \cap Evaluating = {} /\ (chk[k].pc \in Launching => run[k].task = "none")
    BY <1>1 DEF Launching, Evaluating, RunOK, NoRun
<1>8. Settled(k) => chk'[k] = chk[k]
    BY <1>4, <1>7 DEF Settled
<1>9. Settled(k) => Settled(k)'
    BY <1>8 DEF Settled
<1>10. RunOK(k)'
    <2>1. CASE chk'[k] = chk[k]
        BY <1>1, <2>1 DEF RunOK, Settled, Complete
    <2>2. CASE chk'[k] # chk[k]
        BY <1>1, <1>4, <1>7, <2>2 DEF RunOK, Settled, Complete, NoRun, Launching, Evaluating
    <2> QED
        BY <2>1, <2>2
<1>11. ReadingOK(k)'
    <2>1. chk'[k].pc \notin {"idle"} => chk'[k].rel \in Releases
        BY <1>1, <1>4 DEF ReadingOK
    <2>2. rd'[k].pc # "idle" => Settled(k)'
        BY <1>1, <1>5, <1>9 DEF ReadingOK, Idle
    <2>3. rd'[k].pc = "write" => rd'[k].rel \in Releases
        BY <1>1, <1>5 DEF ReadingOK, Idle
    <2> QED
        BY <2>1, <2>2, <2>3 DEF ReadingOK
<1> QED
    BY <1>3, <1>6, <1>9, <1>10, <1>11, OneCheckKeeps

-----------------------------------------------------------------------------
(* The steps of a check and of its run *)

\* The beginning of a check, a refusal, and the search for the release that
\* links a run.
LEMMA ChecksBegin ==
    ASSUME ReleaseInv, NEW k \in Checks,
           \/ LaunchRefused(k) \/ EvaluationRefused(k) \/ RefreshLink(k)
           \/ \E rel \in Releases : create_check(k, rel)
           \/ \E rel \in Releases, mode \in {"replay", "targeted"} : run_release_check(k, rel, mode)
    PROVE  ReleaseInv'
<1>1. CheckTypeOK /\ RunOK(k) /\ ReadingOK(k)
    BY DEF ReleaseInv
<1>2. UNCHANGED <<row, run, set, asked>>
    BY DEF LaunchRefused, EvaluationRefused, RefreshLink, create_check, run_release_check
<1>3. CASE RefreshLink(k)
    <2> DEFINE linked == {rel \in Releases : row[rel].run = k}
               next == IF linked = {} THEN Idle
                       ELSE [pc |-> "write", rel |-> CHOOSE rel \in linked : TRUE]
    <2>1. UNCHANGED chk /\ rd[k].pc # "idle" /\ rd' = [rd EXCEPT ![k] = next]
        BY <1>3 DEF RefreshLink
    <2>2. linked # {} => (CHOOSE rel \in linked : TRUE) \in Releases
        BY Zenon
    <2>3. next = Idle \/ (next.pc = "write" /\ next.rel \in Releases /\ DOMAIN next = DOMAIN Idle)
        BY <2>2 DEF Idle
    <2> HIDE DEF next
    <2> QED
        BY <1>2, <2>1, <2>3, ControlKeeps
<1>4. CASE LaunchRefused(k) \/ EvaluationRefused(k)
    <2>1. /\ chk[k].pc \in {"replay", "targeted"} /\ chk' = [chk EXCEPT ![k].pc = "refused"]
          /\ UNCHANGED rd
        BY <1>4 DEF LaunchRefused, EvaluationRefused, At, Goto
    <2>2. /\ DOMAIN chk' = Checks /\ DOMAIN chk'[k] = DOMAIN Idle
          /\ \A j \in Checks \ {k} : chk'[j] = chk[j]
          /\ chk'[k].pc = "refused" /\ chk'[k].rel = chk[k].rel
        BY <1>1, <2>1 DEF CheckTypeOK, Idle
    <2>3. chk[k].rel \in Releases /\ chk[k].pc \in Launching /\ "refused" \in Launching
        BY <1>1, <2>1 DEF ReadingOK, Launching
    <2> QED
        BY <1>2, <2>1, <2>2, <2>3, ControlKeeps
<1>5. ASSUME NEW rel \in Releases, NEW pc \in {"refused", "replay", "targeted"},
             chk[k].pc = "idle", chk' = [chk EXCEPT ![k] = [pc |-> pc, rel |-> rel]], UNCHANGED rd
      PROVE  ReleaseInv'
    <2>1. /\ DOMAIN chk' = Checks /\ DOMAIN chk'[k] = DOMAIN Idle
          /\ \A j \in Checks \ {k} : chk'[j] = chk[j]
          /\ chk'[k].pc = pc /\ chk'[k].rel = rel
        BY <1>1, <1>5 DEF CheckTypeOK, Idle
    <2>2. chk[k].pc \in Launching /\ pc \in Launching
        BY <1>5 DEF Launching
    <2> QED
        BY <1>2, <1>5, <2>1, <2>2, ControlKeeps
<1>6. CASE \E rel \in Releases : create_check(k, rel)
    BY <1>5, <1>6 DEF create_check, At
<1>7. CASE \E rel \in Releases, mode \in {"replay", "targeted"} : run_release_check(k, rel, mode)
    BY <1>5, <1>7 DEF run_release_check, At
<1> QED
    BY <1>3, <1>4, <1>6, <1>7

\* A case as _persist_case_progress stores it has the flow and the criticality
\* it was looked up with, and a status it came with.
LEMMA StoredCase ==
    ASSUME NEW f \in Flows, NEW c \in Outcomes[f]
    PROVE  LET found == [c EXCEPT !.flow = f, !.crit = CritOf[f]]
               stored == classify_case(IF c.platform = "mobile" THEN MobileCase(found) ELSE found)
           IN  CaseOK(stored) /\ stored.flow = f
<1> DEFINE found == [c EXCEPT !.flow = f, !.crit = CritOf[f]]
           mobile == MobileCase(found)
           given == IF c.platform = "mobile" THEN mobile ELSE found
           stored == classify_case(given)
           Same(a, b) == /\ a.flow = b.flow /\ a.crit = b.crit /\ a.status = b.status
                         /\ {"flow", "crit", "status"} \subseteq DOMAIN a
<1>1. /\ {"flow", "crit", "status"} \subseteq DOMAIN c /\ CritOf[f] \in Criticalities
      /\ c.status \in {"pass", "fail", "error", "blocked"}
    BY FlowsAssumption DEF BlankCase
<1>2. /\ found.flow = f /\ found.crit = CritOf[f] /\ found.status = c.status
      /\ {"flow", "crit", "status"} \subseteq DOMAIN found
    BY <1>1
<1> HIDE DEF found
<1>3. Same(mobile, found)
    BY <1>2 DEF MobileCase
<1> HIDE DEF mobile
<1>4. Same(given, found)
    BY <1>2, <1>3
<1> HIDE DEF given
<1>5. Same(stored, given)
    BY <1>4 DEF classify_case
<1> HIDE DEF stored
<1>6. CaseOK(stored) /\ stored.flow = f
    BY <1>1, <1>2, <1>4, <1>5 DEF CaseOK, Failed
<1> QED
    BY <1>6 DEF stored, given, mobile, found

\* The case of an evaluation.
LEMMA EvaluationCaseIs ==
    ASSUME NEW outcome
    PROVE  CaseOK(EvaluationCase(outcome)) /\ EvaluationCase(outcome).flow = None
<1> DEFINE c == EvaluationCase(outcome)
<1>1. /\ c.status = IF outcome \in {"pass", "error"} THEN outcome ELSE "fail"
      /\ c.crit = "other" /\ c.flow = None
    BY DEF EvaluationCase, BlankCase
<1> HIDE DEF c
<1>2. CaseOK(c)
    BY <1>1 DEF CaseOK, Failed, Criticalities
<1> QED
    BY <1>1, <1>2 DEF c

\* The launch of a replay: its run is new and nobody reads it.
LEMMA LaunchKeeps ==
    ASSUME ReleaseInv, NEW k \in Checks, Launch(k)
    PROVE  ReleaseInv'
<1>1. CheckTypeOK /\ RunOK(k) /\ ReadingOK(k)
    BY DEF ReleaseInv
<1>2. /\ chk[k].pc = "replay" /\ chk' = [chk EXCEPT ![k].pc = "launched"]
      /\ UNCHANGED <<row, rd, set, asked>>
    BY DEF Launch, At, Goto
<1>3. run[k] = NoRun /\ ~ Settled(k) /\ rd[k].pc = "idle" /\ chk[k].rel \in Releases
    BY <1>1, <1>2 DEF RunOK, ReadingOK, Settled, Launching, NoRun, CheckTypeOK
<1>4. /\ DOMAIN run' = Checks /\ \A j \in Checks \ {k} : run'[j] = run[j]
      /\ DOMAIN run'[k] = DOMAIN NoRun
      /\ run'[k].saved = {} /\ run'[k].kept = {}
      /\ \/ run'[k].status = "queued" /\ run'[k].task = "live"
         \/ run'[k].status = "waiting_auth" /\ run'[k].task = "none"
    BY <1>1 DEF Launch, CheckTypeOK, NoRun
<1>5. /\ DOMAIN chk' = Checks /\ DOMAIN chk'[k] = DOMAIN Idle
      /\ \A j \in Checks \ {k} : chk'[j] = chk[j]
      /\ chk'[k].pc = "launched" /\ chk'[k].rel = chk[k].rel
    BY <1>1, <1>2 DEF CheckTypeOK, Idle
<1>6. CheckTypeOK'
    BY <1>1, <1>2, <1>4, <1>5 DEF CheckTypeOK, CheckPcs
<1>7. RunOK(k)'
    BY <1>4, <1>5, FS_EmptySet DEF RunOK, Settled, Launching, Evaluating
<1>8. ReadingOK(k)'
    BY <1>2, <1>3, <1>5 DEF ReadingOK
<1> QED
    BY <1>2, <1>3, <1>4, <1>5, <1>6, <1>7, <1>8, OneCheckKeeps DEF NoRun, None

\* While a task has its run, nothing is kept of it and nobody reads it.
LEMMA LiveRun ==
    ASSUME ReleaseInv, NEW k \in Checks, run[k].task = "live"
    PROVE  /\ CheckTypeOK /\ RunOK(k) /\ ReadingOK(k)
           /\ chk[k].pc \notin Launching \cup Evaluating
           /\ rd[k].pc = "idle" /\ ~ Settled(k)
           /\ run[k].kept = {} /\ run[k].status # "completed"
<1>1. CheckTypeOK /\ RunOK(k) /\ ReadingOK(k)
    BY DEF ReleaseInv
<1>2. chk[k].pc \notin Launching \cup Evaluating
    BY <1>1 DEF RunOK, NoRun
<1>3. ~ Settled(k)
    BY DEF Settled
<1>4. rd[k].pc = "idle"
    BY <1>1, <1>3 DEF CheckTypeOK, ReadingOK
<1> QED
    BY <1>1, <1>2, <1>3, <1>4 DEF RunOK

\* The task starts, or stores another case.
LEMMA TaskRuns ==
    ASSUME ReleaseInv, NEW k \in Checks, TaskStart(k) \/ TaskCase(k)
    PROVE  ReleaseInv'
<1>1. run[k].task = "live" /\ UNCHANGED <<row, chk, rd, set, asked>>
    BY DEF TaskStart, TaskCase, Running
<1>2. /\ CheckTypeOK /\ RunOK(k) /\ ReadingOK(k)
      /\ chk[k].pc \notin Launching \cup Evaluating
      /\ rd[k].pc = "idle" /\ ~ Settled(k)
      /\ run[k].kept = {} /\ run[k].status # "completed"
    BY <1>1, LiveRun
<1>3. /\ run'[k].task = "live" /\ run'[k].status = "running" /\ run'[k].kept = {}
      /\ DOMAIN run' = Checks /\ DOMAIN run'[k] = DOMAIN NoRun
      /\ \A j \in Checks \ {k} : run'[j] = run[j]
      /\ run'[k].saved = run[k].saved \/ \E c : CaseOK(c) /\ run'[k].saved = run[k].saved \cup {c}
    <2>1. CASE TaskStart(k)
        BY <1>1, <1>2, <2>1 DEF TaskStart, CheckTypeOK, NoRun
    <2>2. CASE TaskCase(k)
        <3>1. run[k].status = "running"
            BY <2>2 DEF TaskCase, Running
        <3>2. PICK f \in FlowsOf[k] \ DoneFlows(k) : \E c \in Outcomes[f] :
                 LET found == [c EXCEPT !.flow = f, !.crit = CritOf[f]]
                 IN  run' = [run EXCEPT ![k].saved = @ \cup {classify_case(
                           IF c.platform = "mobile" THEN MobileCase(found) ELSE found)}]
            BY <2>2, Zenon DEF TaskCase
        <3>3. f \in Flows
            BY FlowsAssumption
        <3>4. PICK c \in Outcomes[f] :
                 LET found == [c EXCEPT !.flow = f, !.crit = CritOf[f]]
                 IN  run' = [run EXCEPT ![k].saved = @ \cup {classify_case(
                           IF c.platform = "mobile" THEN MobileCase(found) ELSE found)}]
            BY <3>2, Zenon
        <3> DEFINE found == [c EXCEPT !.flow = f, !.crit = CritOf[f]]
                   stored == classify_case(IF c.platform = "mobile" THEN MobileCase(found) ELSE found)
        <3>5. CaseOK(stored)
            BY <3>3, StoredCase, Zenon
        <3>6. run' = [run EXCEPT ![k].saved = @ \cup {stored}]
            BY <3>4, Zenon
        <3> HIDE DEF stored
        <3>7. /\ run'[k].task = "live" /\ run'[k].status = "running" /\ run'[k].kept = {}
              /\ DOMAIN run' = Checks /\ DOMAIN run'[k] = DOMAIN NoRun
              /\ \A j \in Checks \ {k} : run'[j] = run[j]
              /\ run'[k].saved = run[k].saved \cup {stored}
            BY <1>1, <1>2, <3>1, <3>6 DEF CheckTypeOK, NoRun
        <3> QED
            BY <3>5, <3>7
    <2> QED
        BY <2>1, <2>2
<1>4. CheckTypeOK'
    BY <1>1, <1>2, <1>3 DEF CheckTypeOK
<1>5. IsFiniteSet(run'[k].saved) /\ \A c \in run'[k].saved : CaseOK(c)
    <2>1. IsFiniteSet(run[k].saved) /\ \A c \in run[k].saved : CaseOK(c)
        BY <1>2 DEF RunOK
    <2>2. \A c : IsFiniteSet(run[k].saved \cup {c})
        BY <2>1, FS_AddElement
    <2> QED
        BY <1>3, <2>1, <2>2
<1>6. RunOK(k)'
    BY <1>1, <1>2, <1>3, <1>5, FS_EmptySet DEF RunOK, Settled, Launching, Evaluating
<1>7. ReadingOK(k)'
    BY <1>1, <1>2 DEF ReadingOK
<1> QED
    BY <1>1, <1>2, <1>3, <1>4, <1>6, <1>7, OneCheckKeeps

\* The task is over: what it stored is kept with the run, unless the run goes
\* back to the queue, and its brief is to be refreshed.
LEMMA TaskEnds ==
    ASSUME ReleaseInv, NEW k \in Checks, TaskCompletes(k) \/ TaskFails(k) \/ TaskCancelled(k)
    PROVE  ReleaseInv'
<1>1. run[k].task = "live" /\ UNCHANGED <<row, chk, set, asked>>
    BY DEF TaskCompletes, TaskFails, TaskCancelled, Running, Over
<1>2. /\ CheckTypeOK /\ RunOK(k) /\ ReadingOK(k)
      /\ chk[k].pc \notin Launching \cup Evaluating
      /\ rd[k].pc = "idle" /\ ~ Settled(k)
      /\ run[k].kept = {} /\ run[k].status # "completed"
    BY <1>1, LiveRun
<1>3. \/ TaskCompletes(k) /\ Over(k, "completed")
      \/ Over(k, "failed") \/ Over(k, "cancelled")
      \/ /\ run' = [run EXCEPT ![k].status = "queued", ![k].task = "over"]
         /\ ToRefresh(k)
    BY DEF TaskCompletes, TaskFails, TaskCancelled
<1>4. /\ DOMAIN run' = Checks /\ DOMAIN run'[k] = DOMAIN NoRun
      /\ \A j \in Checks \ {k} : run'[j] = run[j]
      /\ run'[k].task = "over" /\ run'[k].saved = run[k].saved
      /\ run'[k].status \in {"completed", "failed", "cancelled", "queued"}
      /\ run'[k].kept \in {{}, run[k].saved}
      /\ run'[k].status = "completed" => TaskCompletes(k) /\ run'[k].kept = run[k].saved
    BY <1>2, <1>3 DEF Over, CheckTypeOK, NoRun
<1>5. /\ DOMAIN rd' = Checks /\ DOMAIN rd'[k] = DOMAIN Idle /\ rd'[k].pc = "link"
      /\ \A j \in Checks \ {k} : rd'[j] = rd[j]
    BY <1>2, <1>3 DEF Over, ToRefresh, CheckTypeOK, Idle
<1>6. CheckTypeOK'
    BY <1>1, <1>2, <1>4, <1>5 DEF CheckTypeOK
<1>7. run'[k].status = "completed" => Complete(k)'
    <2> SUFFICES ASSUME run'[k].status = "completed" PROVE Complete(k)'
        OBVIOUS
    <2>1. FlowsOf[k] = {c.flow : c \in run[k].saved} /\ run'[k].kept = run[k].saved
        BY <1>4 DEF TaskCompletes, DoneFlows
    <2> QED
        BY <2>1 DEF Complete
<1>8. IsFiniteSet(run[k].saved) /\ \A c \in run[k].saved : CaseOK(c)
    BY <1>2 DEF RunOK
<1>9. RunOK(k)'
    BY <1>1, <1>2, <1>4, <1>7, <1>8, FS_EmptySet DEF RunOK, Settled, Launching, Evaluating
<1>10. ReadingOK(k)'
    BY <1>1, <1>2, <1>4, <1>5 DEF ReadingOK, Settled
<1> QED
    BY <1>1, <1>2, <1>4, <1>5, <1>6, <1>9, <1>10, OneCheckKeeps

\* A targeted evaluation writes its run down in three steps; nobody reads it
\* before the last of them.
LEMMA EvaluationWrites ==
    ASSUME ReleaseInv, NEW k \in Checks,
           CreateEvaluation(k) \/ UpdateEvaluation(k) \/ SaveEvaluationCase(k)
    PROVE  ReleaseInv'
<1>1. CheckTypeOK /\ RunOK(k) /\ ReadingOK(k)
    BY DEF ReleaseInv
<1>2. /\ UNCHANGED <<row, set, asked>>
      /\ \E pc \in {"created", "updated", "done"} : chk' = [chk EXCEPT ![k].pc = pc]
    BY DEF CreateEvaluation, UpdateEvaluation, SaveEvaluationCase, Goto
<1>3. ~ Settled(k) /\ chk[k].rel \in Releases /\ rd[k].pc = "idle"
    <2>1. chk[k].pc \in {"targeted", "created", "updated"}
        BY DEF CreateEvaluation, UpdateEvaluation, SaveEvaluationCase, At
    <2>2. ~ Settled(k)
        BY <1>1, <2>1 DEF RunOK, Settled, Launching, Evaluating, NoRun
    <2> QED
        BY <1>1, <2>1, <2>2 DEF ReadingOK, CheckTypeOK
<1>4. /\ DOMAIN chk' = Checks /\ DOMAIN chk'[k] = DOMAIN Idle
      /\ \A j \in Checks \ {k} : chk'[j] = chk[j]
      /\ chk'[k].rel = chk[k].rel /\ chk'[k].pc \in {"created", "updated", "done"}
    BY <1>1, <1>2 DEF CheckTypeOK, Idle
<1>5. CASE CreateEvaluation(k)
    <2>1. run[k] = NoRun /\ chk'[k].pc = "created" /\ UNCHANGED rd
        BY <1>1, <1>5 DEF CreateEvaluation, At, Goto, RunOK, Launching, CheckTypeOK, Idle
    <2>2. /\ DOMAIN run' = Checks /\ DOMAIN run'[k] = DOMAIN NoRun
          /\ \A j \in Checks \ {k} : run'[j] = run[j]
          /\ run'[k].status = "queued" /\ run'[k].task = "over"
          /\ run'[k].saved = {} /\ run'[k].kept = {}
        BY <1>1, <1>5, <2>1 DEF CreateEvaluation, CheckTypeOK, NoRun
    <2>3. CheckTypeOK'
        BY <1>1, <1>2, <1>4, <2>1, <2>2 DEF CheckTypeOK, CheckPcs, Evaluating
    <2>4. RunOK(k)'
        BY <2>1, <2>2, FS_EmptySet DEF RunOK, Settled, Launching, Evaluating
    <2>5. ReadingOK(k)'
        BY <1>3, <1>4, <2>1 DEF ReadingOK
    <2>6. run[k].status # "completed"
        BY <2>1 DEF NoRun, None
    <2> QED
        BY <1>2, <1>3, <1>4, <2>1, <2>2, <2>3, <2>4, <2>5, <2>6, OneCheckKeeps
<1>6. CASE UpdateEvaluation(k)
    <2>1. /\ chk[k].pc = "created" /\ chk'[k].pc = "updated" /\ UNCHANGED rd
          /\ run[k].task = "over" /\ run[k].saved = {} /\ run[k].status # "completed"
        BY <1>1, <1>6 DEF UpdateEvaluation, At, Goto, RunOK, Evaluating, CheckTypeOK, Idle
    <2>2. PICK outcome \in EvalOutcomes :
              run' = [run EXCEPT ![k].status = IF outcome = "error" THEN "failed" ELSE "completed",
                                 ![k].kept = {EvaluationCase(outcome)}]
        BY <1>6, Zenon DEF UpdateEvaluation
    <2> DEFINE c == EvaluationCase(outcome)
    <2>3. CaseOK(c) /\ c.flow = None
        BY EvaluationCaseIs
    <2> HIDE DEF c
    <2>4. run' = [run EXCEPT ![k].status = IF outcome = "error" THEN "failed" ELSE "completed",
                             ![k].kept = {c}]
        BY <2>2, Zenon DEF c
    <2>5. /\ DOMAIN run' = Checks /\ DOMAIN run'[k] = DOMAIN NoRun
          /\ \A j \in Checks \ {k} : run'[j] = run[j]
          /\ run'[k].task = "over" /\ run'[k].saved = {} /\ run'[k].kept = {c}
        BY <1>1, <2>1, <2>4 DEF CheckTypeOK, NoRun
    <2>6. CheckTypeOK'
        BY <1>1, <1>2, <1>4, <2>1, <2>5 DEF CheckTypeOK, CheckPcs, Evaluating
    <2>7. Complete(k)'
        BY <2>3, <2>5 DEF Complete
    <2>8. RunOK(k)'
        BY <2>1, <2>3, <2>5, <2>7, FS_EmptySet, FS_Singleton DEF RunOK, Settled, Launching, Evaluating
    <2>9. ReadingOK(k)'
        BY <1>3, <1>4, <2>1 DEF ReadingOK
    <2> QED
        BY <1>2, <1>3, <1>4, <2>1, <2>5, <2>6, <2>8, <2>9, OneCheckKeeps
<1>7. CASE SaveEvaluationCase(k)
    <2>1. /\ chk[k].pc = "updated" /\ chk'[k].pc = "done"
          /\ run[k].task = "over" /\ run[k].saved = {}
          /\ run' = [run EXCEPT ![k].saved = run[k].kept]
          /\ rd' = [rd EXCEPT ![k] = [pc |-> "write", rel |-> chk[k].rel]]
        BY <1>1, <1>7 DEF SaveEvaluationCase, At, Goto, RunOK, Evaluating, CheckTypeOK, Idle
    <2>2. /\ DOMAIN run' = Checks /\ DOMAIN run'[k] = DOMAIN NoRun
          /\ \A j \in Checks \ {k} : run'[j] = run[j]
          /\ run'[k].task = "over" /\ run'[k].saved = run[k].kept /\ run'[k].kept = run[k].kept
          /\ run'[k].status = run[k].status
        BY <1>1, <2>1 DEF CheckTypeOK, NoRun
    <2>3. /\ DOMAIN rd' = Checks /\ DOMAIN rd'[k] = DOMAIN Idle
          /\ \A j \in Checks \ {k} : rd'[j] = rd[j]
          /\ rd'[k].pc = "write" /\ rd'[k].rel = chk[k].rel
        BY <1>1, <2>1 DEF CheckTypeOK, Idle
    <2>4. CheckTypeOK'
        BY <1>1, <1>2, <1>4, <2>1, <2>2, <2>3 DEF CheckTypeOK, CheckPcs
    <2>5. RunOK(k)'
        BY <1>1, <2>1, <2>2 DEF RunOK, Settled, Launching, Evaluating, Complete
    <2>6. ReadingOK(k)'
        BY <1>3, <1>4, <2>1, <2>2, <2>3 DEF ReadingOK, Settled, Evaluating
    <2> QED
        BY <1>2, <1>3, <1>4, <2>2, <2>3, <2>4, <2>5, <2>6, OneCheckKeeps
<1> QED
    BY <1>5, <1>6, <1>7

-----------------------------------------------------------------------------
(* The writers of a release, and the clients *)

\* A step that writes no run: every release it touches has a good brief after.
LEMMA WriterKeeps ==
    ASSUME ReleaseInv, UNCHANGED <<run, set, asked>>, CheckTypeOK',
           \A k \in Checks : RunOK(k)' /\ ReadingOK(k)' /\ (Settled(k) => Settled(k)'),
           \A rel \in Releases :
               \/ row'[rel].brief = row[rel].brief /\ row'[rel].run = row[rel].run
               \/ BriefOK(rel)'
    PROVE  ReleaseInv'
<1>1. \A rel \in Releases : BriefOK(rel)'
    BY BriefStays DEF ReleaseInv
<1>2. AskedOK'
    BY AskedStays DEF ReleaseInv
<1> QED
    BY <1>1, <1>2 DEF ReleaseInv

\* Registrations and assessments leave the brief and its run alone.
LEMMA EditsKeep ==
    ASSUME ReleaseInv,
           \/ \E rel \in Releases, project \in ProjectGiven : register_release(rel, project)
           \/ \E rel \in Releases, k \in Checks, context \in ContextRisks :
                  assess_release_risk(rel, k, context)
    PROVE  ReleaseInv'
<1>1. UNCHANGED <<run, chk, rd, set, asked>>
    BY DEF register_release, assess_release_risk
<1>2. CheckTypeOK /\ \A k \in Checks : RunOK(k) /\ ReadingOK(k)
    BY DEF ReleaseInv
<1>3. /\ DOMAIN row' = Releases
      /\ \A rel \in Releases : /\ DOMAIN row'[rel] = DOMAIN NoRow
                               /\ row'[rel].brief = row[rel].brief /\ row'[rel].run = row[rel].run
    <2>1. CASE \E rel \in Releases, project \in ProjectGiven : register_release(rel, project)
        <3>1. PICK rel \in Releases, project \in ProjectGiven :
                  row' = [row EXCEPT ![rel] = upsert_release_registration(row[rel], project)]
            BY <2>1, Zenon DEF register_release, Write
        <3>2. \E snap, given : row' = [row EXCEPT ![rel] =
                  [row[rel] EXCEPT !.meta = TRUE, !.snap = snap, !.project = given]]
            BY <3>1, Zenon DEF upsert_release_registration
        <3> QED
            BY <1>2, <3>2 DEF CheckTypeOK, NoRow
    <2>2. CASE \E rel \in Releases, k \in Checks, context \in ContextRisks :
                  assess_release_risk(rel, k, context)
        <3>1. PICK rel \in Releases : \E level : row' = [row EXCEPT ![rel] = save_release_snapshot(row[rel], level)]
            BY <2>2, Zenon DEF assess_release_risk, Write
        <3> QED
            BY <1>2, <3>1 DEF save_release_snapshot, CheckTypeOK, NoRow
    <2> QED
        BY <2>1, <2>2
<1>4. CheckTypeOK'
    BY <1>1, <1>2, <1>3 DEF CheckTypeOK
<1>5. \A k \in Checks : RunOK(k)' /\ ReadingOK(k)' /\ (Settled(k)' <=> Settled(k))
    BY <1>1, <1>2, RunStays
<1> QED
    BY <1>1, <1>3, <1>4, <1>5, WriterKeeps

\* The release that is written a brief.
LEMMA BriefWritten ==
    ASSUME CheckTypeOK, NEW rel \in Releases, NEW brief,
           row' = [row EXCEPT ![rel] = save_release_brief(row[rel], brief)]
    PROVE  /\ DOMAIN row' = Releases /\ \A other \in Releases : DOMAIN row'[other] = DOMAIN NoRow
           /\ row'[rel].brief = brief /\ row'[rel].run = brief.run
           /\ \A other \in Releases \ {rel} : row'[other] = row[other]
BY DEF CheckTypeOK, save_release_brief, NoRow

\* The brief a launch ends with is not final.
LEMMA PreliminaryBriefKeeps ==
    ASSUME ReleaseInv, NEW k \in Checks, SavePreliminaryBrief(k)
    PROVE  ReleaseInv'
<1> DEFINE brief == PreliminaryBrief(k)
<1>1. CheckTypeOK /\ \A j \in Checks : RunOK(j) /\ ReadingOK(j)
    BY DEF ReleaseInv
<1>2. PICK rel \in Releases : rel = chk[k].rel
    BY <1>1 DEF ReadingOK, SavePreliminaryBrief, At
<1>3. /\ chk[k].pc = "launched" /\ chk' = [chk EXCEPT ![k].pc = "done"]
      /\ UNCHANGED <<run, rd, set, asked>>
      /\ row' = row \/ row' = [row EXCEPT ![rel] = save_release_brief(row[rel], brief)]
    BY <1>2 DEF SavePreliminaryBrief, At, Goto, Write
<1>4. /\ DOMAIN chk' = Checks /\ DOMAIN chk'[k] = DOMAIN Idle
      /\ \A j \in Checks \ {k} : chk'[j] = chk[j]
      /\ chk'[k].rel = rel /\ chk'[k].pc = "done"
    BY <1>1, <1>2, <1>3 DEF CheckTypeOK, Idle
<1>5. \/ row' = row
      \/ /\ DOMAIN row' = Releases /\ \A other \in Releases : DOMAIN row'[other] = DOMAIN NoRow
         /\ row'[rel].brief = brief /\ row'[rel].run = brief.run
         /\ \A other \in Releases \ {rel} : row'[other] = row[other]
    BY <1>1, <1>2, <1>3, BriefWritten, Zenon
<1>6. CheckTypeOK'
    BY <1>1, <1>3, <1>4, <1>5 DEF CheckTypeOK, CheckPcs
<1>7. \A j \in Checks : RunOK(j)' /\ ReadingOK(j)' /\ (Settled(j)' <=> Settled(j))
    <2>1. ASSUME NEW j \in Checks \ {k} PROVE RunOK(j)' /\ ReadingOK(j)' /\ (Settled(j)' <=> Settled(j))
        BY <1>1, <1>3, <1>4, RunStays
    <2>2. Settled(k)' <=> Settled(k)
        BY <1>3, <1>4 DEF Settled, Evaluating
    <2>3. RunOK(k)'
        BY <1>1, <1>3, <1>4, <2>2 DEF RunOK, Complete, Launching, Evaluating
    <2>4. ReadingOK(k)'
        BY <1>1, <1>2, <1>3, <1>4, <2>2 DEF ReadingOK
    <2> QED
        BY <2>1, <2>2, <2>3, <2>4
<1>8. brief.run = k /\ brief.decision = "INVESTIGATE" /\ brief.risk.value = 50 /\ brief.blockers = {}
      /\ ~ brief.final
    BY DEF PreliminaryBrief
<1> HIDE DEF brief
<1>9. row'[rel].brief = brief /\ row'[rel].run = brief.run => BriefOK(rel)'
    BY <1>8 DEF BriefOK, Decisions
<1>10. \A other \in Releases :
           \/ row'[other].brief = row[other].brief /\ row'[other].run = row[other].run
           \/ BriefOK(other)'
    BY <1>5, <1>9
<1> QED
    BY <1>3, <1>6, <1>7, <1>10, WriterKeeps

\* The cases a run that is settled has, wherever they are read.
LEMMA SettledCases ==
    ASSUME NEW k \in Checks, RunOK(k), Settled(k)
    PROVE  /\ CasesFor(run[k], k) = run[k].saved \cup run[k].kept
           /\ CasesFor(run[k], k) = run[k].saved
BY DEF CasesFor, RunOK

\* The brief of a run that is settled.
LEMMA FinalBriefKeeps ==
    ASSUME ReleaseInv, NEW k \in Checks, SaveBrief(k)
    PROVE  ReleaseInv'
<1> DEFINE brief == Brief(k, ReportOf(run[k], k))
           cases == CasesFor(run[k], k)
           bucket == EarlyBucket(run[k], cases)
<1>1. CheckTypeOK /\ \A j \in Checks : RunOK(j) /\ ReadingOK(j)
    BY DEF ReleaseInv
<1>2. PICK rel \in Releases : rel = rd[k].rel
    BY <1>1 DEF ReadingOK, SaveBrief
<1>3. /\ rd[k].pc = "write" /\ rd' = [rd EXCEPT ![k] = Idle]
      /\ UNCHANGED <<run, chk, set, asked>> /\ Settled(k)
      /\ row' = row \/ row' = [row EXCEPT ![rel] = save_release_brief(row[rel], brief)]
    <2>1. Settled(k)
        BY <1>1 DEF ReadingOK, SaveBrief
    <2> QED
        BY <1>2, <2>1, Zenon DEF SaveBrief, Write
<1>4. /\ DOMAIN rd' = Checks /\ rd'[k] = Idle
      /\ \A j \in Checks \ {k} : rd'[j] = rd[j]
    BY <1>1, <1>3 DEF CheckTypeOK
<1>5. cases = run[k].saved \cup run[k].kept /\ cases = run[k].saved
    BY <1>1, <1>2, <1>3, SettledCases
<1>6. IsFiniteSet(cases) /\ (\A c \in cases : CaseOK(c)) /\ set \in Settings
    BY <1>1, <1>5 DEF RunOK, CheckTypeOK
<1>7. brief = Brief(k, Report(run[k], cases, StaleFlows, set.policy, set.flags))
    BY DEF ReportOf
<1> HIDE DEF cases
<1>8. /\ brief.run = k /\ brief.final /\ brief.decision \in Decisions
      /\ brief.decision = "BLOCK" <=> brief.risk.value >= 70
      /\ brief.decision = "INVESTIGATE" => brief.risk.value \in 40..69
      /\ brief.blockers # {} => brief.decision = "BLOCK" /\ BlockedBy(cases)
      /\ brief.decision = "SHIP" =>
            ~ Blocks(cases, set.policy, bucket) /\ ~ Investigates(cases, set.policy, bucket)
    <2> DEFINE made == Brief(k, Report(run[k], cases, StaleFlows, set.policy, set.flags))
    <2>1. /\ made.run = k /\ made.final /\ made.decision \in Decisions
          /\ made.decision = "BLOCK" <=> made.risk.value >= 70
          /\ made.decision = "INVESTIGATE" => made.risk.value \in 40..69
          /\ made.blockers # {} => made.decision = "BLOCK" /\ BlockedBy(cases)
          /\ made.decision = "SHIP" =>
                ~ Blocks(cases, set.policy, bucket) /\ ~ Investigates(cases, set.policy, bucket)
        BY <1>6, FinalBriefIs, Zenon
    <2> HIDE DEF made, bucket, brief
    <2>2. brief = made
        BY <1>7, Zenon DEF made
    <2> QED
        BY <2>1, <2>2
<1> HIDE DEF bucket
<1>9. brief.decision = "SHIP" => \A c \in run[k].saved \cup run[k].kept : Earned(k, c)
    BY <1>5, <1>6, <1>8, ShippedIsEarned, Zenon
<1>10. \A c : Earned(k, c)' <=> Earned(k, c)
    <2>1. run'[k] = run[k] /\ set' = set
        BY <1>3
    <2> QED
        BY <2>1, Zenon DEF Earned, Excused
<1>11. \/ row' = row
       \/ /\ DOMAIN row' = Releases /\ \A other \in Releases : DOMAIN row'[other] = DOMAIN NoRow
          /\ row'[rel].brief = brief /\ row'[rel].run = brief.run
          /\ \A other \in Releases \ {rel} : row'[other] = row[other]
    BY <1>1, <1>2, <1>3, BriefWritten, Zenon
<1> HIDE DEF brief
<1>12. CheckTypeOK'
    BY <1>1, <1>3, <1>4, <1>11 DEF CheckTypeOK, Idle
<1>13. \A j \in Checks : RunOK(j)' /\ ReadingOK(j)' /\ (Settled(j)' <=> Settled(j))
    <2>1. ASSUME NEW j \in Checks \ {k} PROVE RunOK(j)' /\ ReadingOK(j)' /\ (Settled(j)' <=> Settled(j))
        BY <1>1, <1>3, <1>4, RunStays
    <2>2. (Settled(k)' <=> Settled(k)) /\ RunOK(k)'
        BY <1>1, <1>3 DEF Settled, RunOK, Complete
    <2>3. ReadingOK(k)'
        BY <1>1, <1>3, <1>4 DEF ReadingOK, Idle
    <2> QED
        BY <2>1, <2>2, <2>3
<1>14. row'[rel].brief = brief /\ row'[rel].run = brief.run => BriefOK(rel)'
    <2> SUFFICES ASSUME row'[rel].brief = brief, row'[rel].run = brief.run PROVE BriefOK(rel)'
        OBVIOUS
    <2>1. Settled(k)' /\ run'[k] = run[k]
        BY <1>2, <1>3, <1>13
    <2>2. brief.blockers # {} => BlockedBy(run'[k].saved)
        BY <1>5, <1>8, <2>1
    <2>3. brief.decision = "SHIP" => \A c \in run'[k].saved \cup run'[k].kept : Earned(k, c)'
        BY <1>9, <1>10, <2>1
    <2> QED
        BY <1>8, <2>1, <2>2, <2>3 DEF BriefOK
<1>15. \A other \in Releases :
           \/ row'[other].brief = row[other].brief /\ row'[other].run = row[other].run
           \/ BriefOK(other)'
    BY <1>11, <1>14
<1> QED
    BY <1>3, <1>12, <1>13, <1>15, WriterKeeps

\* A client reads the run it asks about, and goes when it is answered.
LEMMA ClientsKeep ==
    ASSUME ReleaseInv,
           \/ \E k \in AskedAbout : get_test_results(k)
           \/ \E k \in AskedAbout, rel \in Releases : get_check_status(k, rel)
           \/ Answer
    PROVE  ReleaseInv'
<1>1. UNCHANGED <<row, run, chk, rd, set>>
    BY DEF get_test_results, get_check_status, Ask, Answer
<1>2. CheckTypeOK /\ \A k \in Checks : RunOK(k) /\ ReadingOK(k)
    BY DEF ReleaseInv
<1>3. CheckTypeOK'
    BY <1>1, <1>2 DEF CheckTypeOK
<1>4. \A k \in Checks : RunOK(k)' /\ ReadingOK(k)' /\ (Settled(k)' <=> Settled(k))
    BY <1>1, <1>2, RunStays
<1>5. \A rel \in Releases : BriefOK(rel)'
    BY <1>1, <1>4, BriefStays DEF ReleaseInv
<1>6. ASSUME NEW pc \in {"cases", "brief"}, NEW k \in AskedAbout, NEW rel,
             pc = "brief" => rel \in Releases, Ask(pc, k, rel)
      PROVE  AskedOK'
    <2>1. /\ asked'.pc = pc /\ asked'.run = k /\ asked'.rel = rel
          /\ asked'.seen.status = run[k].status /\ asked'.seen.kept = run[k].kept
        BY <1>6 DEF Ask
    <2>2. k \in Checks /\ run' = run
        BY <1>1, FlowsAssumption
    <2> QED
        BY <1>6, <2>1, <2>2 DEF AskedOK
<1>7. Answer => AskedOK'
    BY DEF Answer, AskedOK, Silent, None
<1>8. AskedOK'
    BY <1>6, <1>7 DEF get_test_results, get_check_status
<1> QED
    BY <1>3, <1>4, <1>5, <1>8 DEF ReleaseInv

-----------------------------------------------------------------------------
(* The invariant *)

LEMMA InvInit == Init => ReleaseInv
<1> SUFFICES ASSUME Init PROVE ReleaseInv
    OBVIOUS
<1>1. /\ row = [rel \in Releases |-> NoRow] /\ run = [k \in Checks |-> NoRun]
      /\ chk = [k \in Checks |-> Idle] /\ rd = [k \in Checks |-> Idle]
      /\ set \in Settings /\ asked = Silent
    BY DEF Init, Idle
<1>2. CheckTypeOK
    BY <1>1 DEF CheckTypeOK, CheckPcs, Launching, Idle
<1>3. \A k \in Checks : RunOK(k) /\ ReadingOK(k)
    <2> SUFFICES ASSUME NEW k \in Checks PROVE RunOK(k) /\ ReadingOK(k)
        OBVIOUS
    <2>1. run[k] = NoRun /\ chk[k] = Idle /\ rd[k] = Idle
        BY <1>1
    <2> QED
        BY <2>1, FS_EmptySet DEF RunOK, ReadingOK, Settled, NoRun, Idle, None, Launching, Evaluating
<1>4. \A rel \in Releases : BriefOK(rel)
    BY <1>1 DEF BriefOK, NoRow
<1>5. AskedOK
    BY <1>1 DEF AskedOK, Silent, None
<1> QED
    BY <1>2, <1>3, <1>4, <1>5 DEF ReleaseInv

LEMMA InvNext == ReleaseInv /\ [Next]_vars => ReleaseInv'
<1> SUFFICES ASSUME ReleaseInv, [Next]_vars PROVE ReleaseInv'
    OBVIOUS
<1>1. CASE UNCHANGED vars
    <2>1. UNCHANGED <<row, run, chk, rd, set, asked>>
        BY <1>1 DEF vars
    <2>2. CheckTypeOK'
        BY <2>1 DEF ReleaseInv, CheckTypeOK
    <2>3. \A k \in Checks : RunOK(k)' /\ ReadingOK(k)' /\ (Settled(k)' <=> Settled(k))
        BY <2>1, RunStays DEF ReleaseInv
    <2> QED
        BY <2>1, <2>2, <2>3, WriterKeeps
<1>2. CASE \/ \E rel \in Releases, project \in ProjectGiven : register_release(rel, project)
           \/ \E rel \in Releases, k \in Checks, context \in ContextRisks :
                  assess_release_risk(rel, k, context)
    BY <1>2, EditsKeep
<1>3. CASE \/ \E k \in Checks, rel \in Releases : create_check(k, rel)
           \/ \E k \in Checks, rel \in Releases, mode \in {"replay", "targeted"} :
                  run_release_check(k, rel, mode)
    BY <1>3, ChecksBegin, Zenon
<1>4. ASSUME NEW k \in Checks, Check(k) PROVE ReleaseInv'
    BY <1>4, ChecksBegin, LaunchKeeps, PreliminaryBriefKeeps, EvaluationWrites, Zenon DEF Check
<1>5. ASSUME NEW k \in Checks, Task(k) PROVE ReleaseInv'
    BY <1>5, TaskRuns, TaskEnds, Zenon DEF Task
<1>6. ASSUME NEW k \in Checks, MakeBrief(k) PROVE ReleaseInv'
    BY <1>6, ChecksBegin, FinalBriefKeeps, Zenon DEF MakeBrief
<1>7. CASE \/ \E k \in AskedAbout : get_test_results(k)
           \/ \E k \in AskedAbout, rel \in Releases : get_check_status(k, rel)
           \/ Answer
    BY <1>7, ClientsKeep
<1> QED
    BY <1>1, <1>2, <1>3, <1>4, <1>5, <1>6, <1>7, Zenon DEF Next

\* The invariant holds of the specification.
THEOREM ReleasesInvariant == Spec => []ReleaseInv
<1> QED
    BY InvInit, InvNext, PTL DEF Spec

-----------------------------------------------------------------------------
(* What it gives *)

\* Every flow a completed run answers for has a case, so that a run all of
\* whose cases are earned is.
LEMMA EarnedThroughout ==
    ASSUME NEW k \in Checks, RunOK(k), run[k].status = "completed",
           \A c \in run[k].saved \cup run[k].kept : Earned(k, c)
    PROVE  AllEarned(k)
<1>1. Complete(k)
    BY DEF RunOK
<1>2. ASSUME NEW f \in Required(k) PROVE \E c \in run[k].kept : c.flow = f
    BY <1>1, <1>2 DEF Required, Complete
<1> QED
    BY <1>2, Zenon DEF AllEarned

\* What a client is told of a completed run.
LEMMA ToldIsEarned ==
    ASSUME ReleaseInv, asked.seen.status = "completed", "SHIP" \in Told
    PROVE  AllEarned(asked.run)
<1> DEFINE k == asked.run
           cases == CasesFor(asked.seen, k)
           bucket == EarlyBucket(asked.seen, cases)
<1>1. AskedOK /\ CheckTypeOK
    BY DEF ReleaseInv
<1>2. /\ k \in Checks /\ asked.pc \in {"cases", "brief"}
      /\ asked.pc = "brief" => asked.rel \in Releases
      /\ run[k].status = "completed" /\ asked.seen.kept = run[k].kept
    BY <1>1 DEF AskedOK, Silent, None
<1>3. RunOK(k)
    BY <1>2 DEF ReleaseInv
<1>4. cases = run[k].saved \cup run[k].kept
    BY <1>2, <1>3 DEF CasesFor, RunOK
<1>5. IsFiniteSet(cases) /\ (\A c \in cases : CaseOK(c)) /\ set \in Settings
    <2>1. IsFiniteSet(run[k].saved \cup run[k].kept)
        BY <1>3, FS_Union DEF RunOK
    <2>2. \A c \in run[k].saved \cup run[k].kept : CaseOK(c)
        BY <1>3 DEF RunOK
    <2> HIDE DEF cases
    <2> QED
        BY <1>1, <1>4, <2>1, <2>2 DEF CheckTypeOK
<1>6. CASE asked.pc = "cases"
    <2> DEFINE stored == compute_release_recommendation(cases, set.policy, bucket, set.flags)
               default == compute_release_recommendation(cases, DEFAULT_RELEASE_POLICY, None, set.flags)
    <2>1. Told = {Report(asked.seen, cases, StaleFlows, set.policy, set.flags).decision, default}
        BY <1>6, Zenon DEF Told, ReportOf
    <2>2. Report(asked.seen, cases, StaleFlows, set.policy, set.flags).decision = stored
        BY ReportIs
    <2>3. /\ stored = "SHIP" => /\ ~ Blocks(cases, set.policy, bucket)
                               /\ ~ Investigates(cases, set.policy, bucket)
          /\ default = "SHIP" => /\ ~ Blocks(cases, DEFAULT_RELEASE_POLICY, None)
                                /\ ~ Investigates(cases, DEFAULT_RELEASE_POLICY, None)
        BY RecommendationIs, Zenon
    <2>4. stored = "SHIP" \/ default = "SHIP"
        BY <2>1, <2>2, Zenon
    <2> HIDE DEF cases, bucket, stored, default, k
    <2>5. stored = "SHIP" => \A c \in cases : Earned(k, c)
        BY <1>2, <1>4, <1>5, <2>3, ShippedIsEarned, Zenon
    <2>6. default = "SHIP" => \A c \in cases : Earned(k, c)
        BY <1>2, <1>5, <2>3, DefaultShipIsEarned, Zenon
    <2>7. AllEarned(k)
        BY <1>2, <1>3, <1>4, <2>4, <2>5, <2>6, EarnedThroughout
    <2> QED
        BY <2>7 DEF k
<1>7. CASE asked.pc = "brief"
    <2> DEFINE brief == row[asked.rel].brief
    <2>1. brief.run = k /\ brief.decision = "SHIP" /\ brief # NoBrief
        BY <1>7 DEF Told, NoBrief, None
    <2>2. BriefOK(asked.rel)
        BY <1>2, <1>7 DEF ReleaseInv
    <2>3. \A c \in run[k].saved \cup run[k].kept : Earned(k, c)
        BY <2>1, <2>2 DEF BriefOK
    <2> QED
        BY <1>2, <1>3, <2>3, EarnedThroughout
<1> QED
    BY <1>2, <1>6, <1>7

\* A SHIP that a client is told of a completed run, or that the brief of one
\* shows, is earned by every flow of the check as the cases stand now.
THEOREM ShipsAreEarned == Spec => []ShipIsEarned
<1>1. ReleaseInv => ShipIsEarned
    <2> SUFFICES ASSUME ReleaseInv PROVE ShipIsEarned
        OBVIOUS
    <2>1. asked.seen.status = "completed" /\ "SHIP" \in Told => AllEarned(asked.run)
        BY ToldIsEarned
    <2>2. ASSUME NEW rel \in Releases, row[rel].brief # NoBrief, row[rel].brief.decision = "SHIP",
                 run[row[rel].brief.run].status = "completed"
          PROVE  AllEarned(row[rel].brief.run)
        <3> DEFINE k == row[rel].brief.run
        <3>1. BriefOK(rel)
            BY DEF ReleaseInv
        <3>2. k \in Checks /\ \A c \in run[k].saved \cup run[k].kept : Earned(k, c)
            BY <2>2, <3>1 DEF BriefOK
        <3>3. RunOK(k)
            BY <3>2 DEF ReleaseInv
        <3> HIDE DEF k
        <3>4. run[k].status = "completed"
            BY <2>2 DEF k
        <3>5. AllEarned(k)
            BY <3>2, <3>3, <3>4, EarnedThroughout
        <3> QED
            BY <3>5 DEF k
    <2> QED
        BY <2>1, <2>2, Zenon DEF ShipIsEarned
<1> QED
    BY <1>1, ReleasesInvariant, PTL

\* A blocker among the cases makes the triage of the release a blocker.
LEMMA BlockedIsTriaged ==
    ASSUME NEW cases, BlockedBy(cases)
    PROVE  Triage(cases).priority = "release_blocker"
<1> DEFINE failed == {c \in cases : Failed(c)}
           blockers == {c \in failed : c.severity = "blocker"}
           p == <<blockers # {} \/ \E c \in failed : c.crit \in GatingCriticalities, "release_blocker">>
           q == <<failed # {}, "important">>
           r == <<TRUE, "unknown">>
<1>1. p[1] /\ p[2] = "release_blocker" /\ r[1]
    BY Zenon DEF BlockedBy
<1>2. Triage(cases).priority = FirstOf(<<p, q, r>>)
    BY Zenon DEF Triage
<1> HIDE DEF p, q, r
<1> QED
    BY <1>1, <1>2, FirstOfThree, Zenon

\* However the writers of a release follow one another, its brief is of the run
\* it links, in the risk band of its decision, and the triage that follows it
\* to the cases finds the blockers it names.
THEOREM BriefsAreCoherent == Spec => []BriefIsCoherent
<1>1. ReleaseInv => BriefIsCoherent
    <2> SUFFICES ASSUME ReleaseInv, NEW rel \in Releases, row[rel].brief # NoBrief
                 PROVE  LET brief == row[rel].brief IN
                        /\ brief.run = row[rel].run
                        /\ brief.decision = "BLOCK" <=> brief.risk.value >= 70
                        /\ brief.decision = "INVESTIGATE" => brief.risk.value \in 40..69
                        /\ brief.blockers # {} =>
                              /\ brief.decision = "BLOCK"
                              /\ Triage(run[brief.run].saved).priority = "release_blocker"
        BY Zenon DEF BriefIsCoherent
    <2>1. BriefOK(rel)
        BY DEF ReleaseInv
    <2> QED
        BY <2>1, BlockedIsTriaged DEF BriefOK
<1> QED
    BY <1>1, ReleasesInvariant, PTL

-----------------------------------------------------------------------------
(* The columns of a row *)

Keeps(old, new) ==
    /\ old.project => new.project
    /\ old.snap \notin {None, "registered"} => new.snap \notin {None, "registered"}
    /\ old.brief # NoBrief => new.brief # NoBrief
    /\ new.brief # old.brief =>
          new.snap = old.snap /\ new.meta = old.meta /\ new.project = old.project

\* Each of the three writers keeps what is not its own.
LEMMA WritersKeep ==
    ASSUME NEW old, DOMAIN old = DOMAIN NoRow
    PROVE  /\ \A project : Keeps(old, upsert_release_registration(old, project))
           /\ \A score : Keeps(old, save_release_snapshot(old, Level(score)))
           /\ \A brief : brief # NoBrief => Keeps(old, save_release_brief(old, brief))
<1>1. ASSUME NEW project PROVE Keeps(old, upsert_release_registration(old, project))
    <2> DEFINE new == upsert_release_registration(old, project)
    <2>1. /\ new.brief = old.brief /\ new.snap = IF old.snap = None THEN "registered" ELSE old.snap
        BY DEF upsert_release_registration, NoRow
    <2>2. new.project = (old.project \/ project)
        BY Zenon DEF upsert_release_registration, NoRow
    <2> HIDE DEF new
    <2>3. old.project => new.project
        BY <2>2, Zenon
    <2>4. Keeps(old, new)
        BY <2>1, <2>3, Zenon DEF Keeps
    <2> QED
        BY <2>4 DEF new
<1>2. ASSUME NEW score PROVE Keeps(old, save_release_snapshot(old, Level(score)))
    <2>1. Level(score) \notin {None, "registered"}
        BY LevelIsAssessed
    <2> QED
        BY <2>1 DEF Keeps, save_release_snapshot, NoRow
<1>3. ASSUME NEW brief, brief # NoBrief PROVE Keeps(old, save_release_brief(old, brief))
    BY <1>3 DEF Keeps, save_release_brief, NoRow
<1> QED
    BY <1>1, <1>2, <1>3

\* The registration, the assessment and the brief each leave the columns of
\* the others as they are.
THEOREM WritersKeepColumns == Spec => NobodyClobbers
<1>1. ASSUME ReleaseInv, [Next]_vars PROVE \A rel \in Releases : Keeps(row[rel], row'[rel])
    <2> DEFINE Registered == \E rel \in Releases : \E project :
                   row' = [row EXCEPT ![rel] = upsert_release_registration(row[rel], project)]
               Assessed == \E rel \in Releases : \E score :
                   row' = [row EXCEPT ![rel] = save_release_snapshot(row[rel], Level(score))]
               Briefed == \E rel \in Releases : \E brief : brief # NoBrief
                   /\ row' = [row EXCEPT ![rel] = save_release_brief(row[rel], brief)]
    <2>1. DOMAIN row = Releases /\ \A rel \in Releases : DOMAIN row[rel] = DOMAIN NoRow
        BY <1>1 DEF ReleaseInv, CheckTypeOK
    <2>2. ASSUME NEW rel \in Releases, NEW project, register_release(rel, project) PROVE Registered
        BY <2>2, Zenon DEF register_release, Write
    <2>3. ASSUME NEW rel \in Releases, NEW k, NEW context, assess_release_risk(rel, k, context)
          PROVE  Assessed
        BY <2>3, Zenon DEF assess_release_risk, Write
    <2>4. ASSUME NEW k \in Checks, SavePreliminaryBrief(k) PROVE UNCHANGED row \/ Briefed
        <3>1. PreliminaryBrief(k) # NoBrief
            BY DEF PreliminaryBrief, NoBrief, None
        <3>2. chk[k].rel \in Releases
            BY <1>1, <2>4 DEF ReleaseInv, ReadingOK, SavePreliminaryBrief, At
        <3> QED
            BY <2>4, <3>1, <3>2, Zenon DEF SavePreliminaryBrief, Write
    <2>5. ASSUME NEW k \in Checks, SaveBrief(k) PROVE UNCHANGED row \/ Briefed
        <3>1. \A report : Brief(k, report).final # NoBrief.final
            BY DEF Brief, NoBrief
        <3>2. \A report : Brief(k, report) # NoBrief
            BY <3>1, Zenon
        <3>3. rd[k].rel \in Releases
            BY <1>1, <2>5 DEF ReleaseInv, ReadingOK, SaveBrief
        <3> QED
            BY <2>5, <3>2, <3>3, Zenon DEF SaveBrief, Write
    <2>6. UNCHANGED row \/ Registered \/ Assessed \/ Briefed
        <3> HIDE DEF Registered, Assessed, Briefed
        <3>1. ASSUME NEW k \in Checks, Check(k) PROVE UNCHANGED row \/ Briefed
            BY <2>4, <3>1 DEF Check, LaunchRefused, Launch, EvaluationRefused, CreateEvaluation,
                              UpdateEvaluation, SaveEvaluationCase
        <3>2. ASSUME NEW k \in Checks, Task(k) PROVE UNCHANGED row
            BY <3>2 DEF Task, TaskCancelled, TaskStart, TaskFails, TaskCase, TaskCompletes, Over
        <3>3. ASSUME NEW k \in Checks, MakeBrief(k) PROVE UNCHANGED row \/ Briefed
            BY <2>5, <3>3 DEF MakeBrief, RefreshLink
        <3>4. ASSUME NEW k, NEW rel, \/ create_check(k, rel)
                                     \/ \E mode : run_release_check(k, rel, mode)
                                     \/ get_test_results(k) \/ get_check_status(k, rel) \/ Answer
              PROVE  UNCHANGED row
            BY <3>4 DEF create_check, run_release_check, get_test_results, get_check_status, Ask, Answer
        <3>5. UNCHANGED vars => UNCHANGED row
            BY DEF vars
        <3> QED
            BY <1>1, <2>2, <2>3, <3>1, <3>2, <3>3, <3>4, <3>5, Zenon DEF Next
    <2>7. CASE UNCHANGED row
        BY <2>7 DEF Keeps
    <2>8. ASSUME NEW rel \in Releases, NEW new, row' = [row EXCEPT ![rel] = new], Keeps(row[rel], new)
          PROVE  \A other \in Releases : Keeps(row[other], row'[other])
        <3>1. row'[rel] = new /\ \A other \in Releases \ {rel} : row'[other] = row[other]
            BY <2>1, <2>8
        <3>2. \A other \in Releases \ {rel} : Keeps(row[other], row'[other])
            BY <3>1 DEF Keeps
        <3> QED
            BY <2>8, <3>1, <3>2
    <2>9. CASE Registered \/ Assessed \/ Briefed
        BY <2>1, <2>8, <2>9, WritersKeep, Zenon
    <2> QED
        BY <2>6, <2>7, <2>9, Zenon
<1>2. ReleaseInv /\ [Next]_vars =>
          [\A rel \in Releases :
              /\ row[rel].project => row'[rel].project
              /\ row[rel].snap \notin {None, "registered"} => row'[rel].snap \notin {None, "registered"}
              /\ row[rel].brief # NoBrief => row'[rel].brief # NoBrief
              /\ row'[rel].brief # row[rel].brief =>
                    /\ row'[rel].snap = row[rel].snap /\ row'[rel].meta = row[rel].meta
                    /\ row'[rel].project = row[rel].project]_vars
    BY <1>1, Zenon DEF Keeps
<1> QED
    BY <1>2, ReleasesInvariant, PTL DEF Spec, NobodyClobbers
============================================================================
