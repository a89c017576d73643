--------------------------- MODULE MCReleaseCheck ---------------------------
(***************************************************************************)
(* Instances of ReleaseCheck: two checks of one release, the first of a    *)
(* revenue and a minor flow, the second of a mobile flow or targeted.      *)
(***************************************************************************)
EXTENDS ReleaseCheck

Pass == BlankCase
Fail(signals) == [BlankCase EXCEPT !.status = "fail", !.signals = signals]

MCFlowsOf == [k \in Checks |-> IF k = "k1" THEN {"pay", "faq"} ELSE IF k = "k2" THEN {"app"} ELSE {}]
MCModesOf == [k \in Checks |-> IF k = "k1" THEN {"replay"} ELSE {"replay", "targeted"}]
MCCritOf == [f \in Flows |-> CASE f = "pay" -> "revenue" [] f = "faq" -> "support" [] OTHER -> "activation"]

MCOutcomes ==
    [f \in Flows |->
        CASE f = "pay" -> {Pass, [Pass EXCEPT !.drift = {"fallback"}]}
          [] f = "faq" -> {Pass, Fail({"locator"})}
          [] OTHER -> {[Fail({"crash", "early"}) EXCEPT !.platform = "mobile"]}]

MCSettings == {[policy |-> DEFAULT_RELEASE_POLICY, flags |-> {}]}
============================================================================
