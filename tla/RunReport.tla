----------------------------- MODULE RunReport -----------------------------
(***************************************************************************)
(* What get_test_results answers about a run, and the release brief and    *)
(* the triage that are made of it.  A run is [status, auth], where auth is *)
(* the session_validation_status its events tell; texts are tokens.        *)
(***************************************************************************)
EXTENDS CaseVerdict

FinalStatuses == {"completed", "failed", "cancelled"}

\* is_terminal of explain_run_status.
Terminal(status) == status \in FinalStatuses \cup {"waiting_auth"}

\* explain_run_status: the action it recommends.
StatusAction(status, mode) ==
    FirstOf(<< <<status \in {"queued", "running"},  "poll">>,
               <<status = "failed",                 mode>>,
               <<TRUE,                              status>> >>)

\* _classify_failure_kind
FailureKind(c) ==
    FirstOf(<< <<c.class = "product_bug",     "product_regression">>,
               <<c.class = "test_fragility",  "automation_fragility">>,
               <<c.class = "auth_failure",    "auth_session_failure">>,
               <<c.class = "env_issue",       "environment_or_infra">>,
               <<TRUE,                        "unknown">> >>)

infer_top_failure_mode(status, auth, kinds) ==
    FirstOf(<< <<status = "waiting_auth",            "waiting_auth">>,
               <<auth \in BadAuth,                   "auth_session_failure">>,
               <<"environment_or_infra" \in kinds,   "environment_or_infra">>,
               <<"product_regression" \in kinds,     "product_regression">>,
               <<"automation_fragility" \in kinds,   "automation_fragility">>,
               <<TRUE,                               "unknown">> >>)

\* describe_failure_classification: how sure of the mode the report is.
ModeConfidence(mode, status, failed) ==
    FirstOf(<< <<mode \in {"waiting_auth", "auth_session_failure"},  "high">>,
               <<mode # "unknown",                                   "high">>,
               <<Terminal(status) /\ failed # {},                    "medium">>,
               <<TRUE,                                               "low">> >>)

\* _enrich_case: a healing somebody has to look at.
HealingReview(c) == c.heal = "propose_patch" \/ (c.heal = "auto_heal" /\ ~ c.sure)

\* build_drift_summary; a report on auth trouble without drift says auth_drift.
Drift(cases, mode) ==
    LET seen == UNION {c.drift : c \in cases}
    IN  IF mode \in {"waiting_auth", "auth_session_failure"} /\ seen = {}
        THEN {"auth_drift"} ELSE seen

\* build_replay_trust_summary: golden_path_ready.
Trusted(cases) == \A c \in cases : ~ HealingReview(c) /\ ~ c.stale

\* severity_counts has a case under its severity only if it failed; a case
\* that is blocked or in error is counted as an error.
SeverityCount(cases, severity) ==
    Cardinality({c \in cases : c.status = "fail" /\ c.severity = severity})

\* The journeys of build_coverage_summary.
Verified(cases) == {c.flow : c \in {d \in cases : d.status = "pass"}}
BlockedJourneys(cases) == {c.flow : c \in {d \in cases : Failed(d)}}

\* The action a report ends up recommending, after every rewrite of it.
NextAction(cases, status, mode, bucket) ==
    LET stale == \E c \in (IF \E d \in cases : Failed(d) THEN {d \in cases : Failed(d)}
                           ELSE cases) : c.stale
        fragile == mode = "automation_fragility"
    IN  FirstOf(<<
            <<stale /\ fragile,                                  "refresh the recording">>,
            <<~ stale /\ fragile /\ ~ \A c \in cases : ~ HealingReview(c),
                                                                 "review the healing">>,
            <<~ stale /\ bucket # None
                /\ status \in {"failed", "completed", "waiting_auth"}, bucket>>,
            <<TRUE,                                              StatusAction(status, mode)>> >>)

\* build_report and get_test_results.  The recommendation is computed from
\* the cases as they were stored; staleness and auth come in afterwards.
Report(run, cases, stale, policy, flags) ==
    LET annotated == {[c EXCEPT !.stale = c.flow \in stale] : c \in cases}
        early == classify_report_stability(cases, run.status, None)
        bucket == classify_report_stability(annotated, run.status, run.auth)
        kinds == {FailureKind(c) : c \in {d \in cases : Failed(d)}}
        mode == infer_top_failure_mode(run.status, run.auth, kinds)
    IN  [status |-> run.status,
         decision |-> compute_release_recommendation(cases, policy, early, flags),
         confidence |-> Confidence(cases, run.status),
         bucket |-> bucket,
         blocked |-> StabilityBlocks(annotated, bucket, run.auth),
         mode |-> mode,
         sure |-> ModeConfidence(mode, run.status, BlockedJourneys(cases)),
         drift |-> Drift(cases, mode),
         trusted |-> Trusted(annotated),
         verified |-> Verified(cases),
         failing |-> BlockedJourneys(cases),
         blockers |-> {c.flow : c \in {d \in cases : Failed(d) /\ d.severity = "blocker"}},
         counts |-> [s \in {"blocker", "high", "medium", None} |->
                        IF s = None THEN 0 ELSE SeverityCount(cases, s)],
         next |-> NextAction(annotated, run.status, mode, bucket)]

-----------------------------------------------------------------------------
(* The brief *)

AtMost(m, n) == IF n < m THEN n ELSE m

\* _risk_score_from_severity_counts
Risk(counts, decision) ==
    LET b == counts["blocker"]  h == counts["high"]  m == counts["medium"]
    IN  FirstOf(<<
            <<b > 0 \/ decision = "BLOCK",
              [value |-> AtMost(100, 70 + 10 * b + 3 * h), level |-> "blocker"]>>,
            <<h > 0 \/ decision = "INVESTIGATE",
              [value |-> AtMost(69, 40 + 10 * h + 3 * m),
               level |-> IF h > 0 THEN "high" ELSE "medium"]>>,
            <<m > 0, [value |-> AtMost(39, 20 + 5 * m), level |-> "medium"]>>,
            <<TRUE, [value |-> 10, level |-> "low"]>> >>)

\* _build_release_check_result, as much of it as _save_release_brief keeps.
Brief(run, report) ==
    [run |-> run, final |-> TRUE, decision |-> report.decision,
     risk |-> Risk(report.counts, report.decision), blockers |-> report.blockers]

NoBrief == [run |-> None, final |-> FALSE, decision |-> None,
            risk |-> [value |-> 0, level |-> "low"], blockers |-> {}]

PreliminaryBrief(run) ==
    [run |-> run, final |-> FALSE, decision |-> "INVESTIGATE",
     risk |-> [value |-> 50, level |-> "medium"], blockers |-> {}]

\* triage_release_blocker on the cases it found.
Triage(cases) ==
    LET failed == {c \in cases : Failed(c)}
        blockers == {c \in failed : c.severity = "blocker"}
    IN  [priority |-> FirstOf(<<
             <<blockers # {} \/ \E c \in failed : c.crit \in GatingCriticalities,
                                      "release_blocker">>,
             <<failed # {},           "important">>,
             <<TRUE,                  "unknown">> >>),
         cause |-> FirstOf(<< <<blockers # {}, {c.class : c \in blockers}>>,
                              <<TRUE,          {c.class : c \in failed}>> >>)]

\* assess_release_risk: what the candidate run adds, in percent of its weight.
Weight(crit) ==
    FirstOf(<< <<crit = "revenue", 10>>, <<crit = "activation", 8>>,
               <<crit = "retention", 7>>, <<crit = "support", 5>>, <<TRUE, 3>> >>)

SumWeights(cases) ==
    LET CountOf(k) == Cardinality({c \in cases : c.crit = k})
    IN  Weight("revenue") * CountOf("revenue") + Weight("activation") * CountOf("activation")
          + Weight("retention") * CountOf("retention") + Weight("support") * CountOf("support")
          + Weight("other") * CountOf("other")

RunRisk(cases) ==
    IF cases = {} THEN 0
    ELSE (60 * SumWeights({c \in cases : Failed(c)})) \div SumWeights(cases)
============================================================================
