---------------------------- MODULE CaseVerdict ----------------------------
(***************************************************************************)
(* How the outcome of a replayed flow becomes a verdict: failure class and *)
(* severity of a case, its stability bucket, the bucket of the whole run,  *)
(* and the release recommendation under a policy.                          *)
(*                                                                         *)
(* The texts a case carries (reason codes, console and network errors, the *)
(* raw result) are the set of signals the code recognises in them.         *)
(***************************************************************************)
EXTENDS Integers, Sequences, FiniteSets

\* The verdict of the first rule whose condition holds.
FirstOf(rules) ==
    LET met == {n \in DOMAIN rules : rules[n][1]}
    IN  rules[CHOOSE n \in met : \A m \in met : n <= m][2]

None == "none"
GatingCriticalities == {"revenue", "activation"}
Criticalities == GatingCriticalities \cup {"retention", "support", "other"}
Decisions == {"SHIP", "INVESTIGATE", "BLOCK"}

\* A case before anything is known of it.
BlankCase == [flow |-> None, status |-> "pass", crit |-> "other", platform |-> "web", severity |-> None,
              class |-> None, signals |-> {}, heal |-> None, sure |-> TRUE,
              drift |-> {}, stale |-> FALSE, proof |-> TRUE]

Failed(c) == c.status \in {"fail", "error", "blocked"}
Has(c, signals) == c.signals \cap signals # {}

-----------------------------------------------------------------------------
(* A case *)

\* Codes and texts that stand for a fragile test.  "spa_timeout" is a timeout
\* with a goal inside the app, "early" a hybrid replay that failed by step 2.
FragilitySignals == {"locator", "repair_rejected", "detached", "spa_timeout", "early"}

classify_failure_class(c) ==
    FirstOf(<< <<c.status = "pass",                          None>>,
               <<Has(c, {"auth"}) \/ c.status = "blocked",   "auth_failure">>,
               <<Has(c, FragilitySignals),                   "test_fragility">>,
               <<TRUE,                                       "product_bug">> >>)

classify_failure_deterministic(c) ==
    LET gating == c.crit \in GatingCriticalities IN
    FirstOf(<< <<c.status = "pass",                               None>>,
               <<c.status = "blocked",                            "blocker">>,
               <<Has(c, {"assertion"}) /\ gating,                 "blocker">>,
               <<Has(c, {"assertion"}),                           "high">>,
               <<Has(c, {"auth", "server_error", "js_crash"}),    "blocker">>,
               <<gating \/ Has(c, {"critical_404"}),              "high">>,
               <<TRUE,                                            "medium">> >>)

\* classify_case.  A mobile case comes with its severity; the rules above
\* answer for every status, so the model that would be asked next never is.
classify_case(c) ==
    [c EXCEPT !.class = IF c.class = None THEN classify_failure_class(c) ELSE @,
              !.severity = IF c.platform = "mobile" THEN @
                           ELSE classify_failure_deterministic(c)]

\* classify_mobile_failure, and the case execute_mobile_flow makes of it.
classify_mobile_failure(c) ==
    FirstOf(<< <<Has(c, {"install"}),                  "install_failure">>,
               <<Has(c, {"crash"}) /\ Has(c, {"early"}), "startup_failure">>,
               <<Has(c, {"crash"}),                    "navigation_crash">>,
               <<Has(c, {"auth"}),                     "auth_failure">>,
               <<Has(c, {"network"}),                  "env_issue">>,
               <<TRUE,                                 "product_bug">> >>)

MobileCase(c) ==
    [c EXCEPT !.platform = "mobile",
              !.class = IF c.status = "pass" THEN None ELSE classify_mobile_failure(c),
              !.severity = FirstOf(<< <<c.status = "pass",    None>>,
                                      <<c.crit = "revenue",   "blocker">>,
                                      <<TRUE,                 "high">> >>)]

\* The one case of a targeted evaluation that ended in outcome.
EvaluationCase(outcome) ==
    [BlankCase EXCEPT
        !.status = IF outcome \in {"pass", "error"} THEN outcome ELSE "fail",
        !.severity = FirstOf(<< <<outcome = "pass",      None>>,
                                <<outcome = "blocked",   "blocker">>,
                                <<TRUE,                  "high">> >>),
        !.class = IF outcome = "error" THEN "env_issue" ELSE None]

-----------------------------------------------------------------------------
(* Stability buckets *)

BadAuth == {"expired_session", "redirected_to_auth", "missing_profile",
            "unresolved_storage_state", "validation_error"}

\* auth is the session_validation_status of the run, stale flows are known
\* only once the cases were annotated.
classify_case_stability(c, auth) ==
    LET env == c.class \in {"env_issue", "install_failure"}
        install == Has(c, {"install"})
        network == Has(c, {"network"})
    IN  FirstOf(<<
            <<auth \in BadAuth,                               "auth_session_failure">>,
            <<c.stale,                                        "stale_flow_drift">>,
            <<Has(c, {"repair_rejected"}) \/ c.heal = "propose_patch",
                                                              "selector_healing_failure">>,
            <<c.class = "test_fragility",                     "selector_healing_failure">>,
            <<c.class = "auth_failure",                       "auth_session_failure">>,
            <<c.class \in {"product_bug", "navigation_crash"}, "product_regression">>,
            <<c.class = "startup_failure" \/ install,         "install_or_upgrade_failure">>,
            <<network,                                        "network_transient_infra">>,
            <<env,                                            "environment_runtime_misconfig">>,
            <<"plan_drift" \in c.drift /\ Has(c, {"repaired"}), "selector_healing_failure">>,
            <<c.status \in {"fail", "error"},                 "product_regression">>,
            <<TRUE,                                           "unknown_unclassified">> >>)

\* The buckets in the order in which a run is called after one of them.
Ranking == <<"auth_session_failure", "install_or_upgrade_failure",
             "network_transient_infra", "environment_runtime_misconfig",
             "stale_flow_drift", "selector_healing_failure",
             "product_regression", "unknown_unclassified">>

Buckets == {Ranking[n] : n \in DOMAIN Ranking}
BlockingBuckets == {"auth_session_failure", "install_or_upgrade_failure", "unknown_unclassified"}

\* classify_report_stability on a set of cases.
classify_report_stability(cases, status, auth) ==
    LET failed == {c \in cases : Failed(c)}
        found == {classify_case_stability(c, auth) : c \in failed}
    IN  FirstOf(<< <<cases # {} /\ failed = {},    None>>,
                   <<status = "waiting_auth",      "auth_session_failure">>,
                   <<cases = {},                   "unknown_unclassified">> >>
                \o [n \in DOMAIN Ranking |-> <<Ranking[n] \in found, Ranking[n]>>])

\* build_stability_gate_summary: release_blocked_by_stability.
StabilityBlocks(cases, bucket, auth) ==
    LET buckets == {classify_case_stability(c, auth) : c \in {d \in cases : Failed(d)}}
    IN  (IF buckets = {} THEN {bucket} ELSE buckets) \cap BlockingBuckets # {}

-----------------------------------------------------------------------------
(* The release recommendation *)

Gate(decision, min, enabled) == [on |-> decision, min |-> min, enabled |-> enabled]

DEFAULT_RELEASE_POLICY ==
    [gates |-> [k \in Criticalities |->
         FirstOf(<< <<k \in GatingCriticalities,  Gate("BLOCK", 1, TRUE)>>,
                    <<k = "retention",            Gate("INVESTIGATE", 1, TRUE)>>,
                    <<TRUE,                       Gate("INVESTIGATE", 1, FALSE)>> >>)],
     any |-> FALSE, unknown |-> FALSE, install |-> TRUE]

\* Which failures of which criticality a policy answers with decision d.
Fired(cases, policy, d) ==
    \E k \in Criticalities :
        LET gate == policy.gates[k] IN
        /\ gate.enabled /\ gate.on = d
        /\ Cardinality({c \in cases : Failed(c) /\ c.crit = k}) >= gate.min

Ungated(cases, policy) == \E c \in cases : Failed(c) /\ ~ policy.gates[c.crit].enabled

DriftedPass(cases) ==
    \E c \in cases : c.status = "pass" /\ c.crit \in GatingCriticalities /\ "fallback" \in c.drift

\* The conditions that may only raise a decision, in whatever order.
Blocks(cases, policy, bucket) ==
    \/ Fired(cases, policy, "BLOCK")
    \/ \E c \in cases : Failed(c) /\ c.severity = "blocker"
    \/ policy.any /\ \E c \in cases : Failed(c)
    \/ policy.install /\ bucket = "install_or_upgrade_failure"
    \/ policy.unknown /\ bucket = "unknown_unclassified"

\* Mutated form: a criticality without an enabled gate is let through
InvestigatesGatedOnly(cases, policy, bucket) ==
    Fired(cases, policy, "INVESTIGATE") \/ DriftedPass(cases)

Investigates(cases, policy, bucket) ==
    \/ Fired(cases, policy, "INVESTIGATE")
    \/ Ungated(cases, policy)
    \/ DriftedPass(cases)
    \/ bucket = "auth_session_failure" /\ \E c \in cases : Failed(c)

\* The flags of the environment raise INVESTIGATE, and nothing else.
FlagRaises(cases, flags) ==
    \E c \in cases : Failed(c) /\ ("any" \in flags \/ c.crit \in flags)

compute_release_recommendation(cases, policy, bucket, flags) ==
    FirstOf(<< <<Blocks(cases, policy, bucket), "BLOCK">>,
               <<Investigates(cases, policy, bucket),
                 IF FlagRaises(cases, flags) THEN "BLOCK" ELSE "INVESTIGATE">>,
               <<TRUE, "SHIP">> >>)

\* Enough cases, all with evidence, in a run that is over.
Confidence(cases, status) ==
    LET terminal == status \in {"completed", "failed", "cancelled"}
        passed == {c \in cases : ~ Failed(c)}
        strong == /\ terminal /\ Cardinality(cases) >= 3 /\ passed # {}
                  /\ Cardinality({c \in cases : c.proof}) >= Cardinality(passed)
                  /\ \A c \in cases : Failed(c) => c.class # "test_fragility"
    IN  FirstOf(<< <<strong, "high">>, <<terminal, "medium">>, <<TRUE, "low">> >>)
============================================================================
