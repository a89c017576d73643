---------------------------- MODULE Recording ----------------------------
(***************************************************************************)
(* record_test_flow: an agent of browser-use walks through a goal, and     *)
(* what it did becomes the steps of a flow.  While it walks, a task of its *)
(* own takes a screenshot every few seconds; before, a leased page may     *)
(* look for a better URL to start from.                                    *)
(*                                                                         *)
(* One recording is followed.  An action is the code up to the next await  *)
(* that takes a while; a cancel may come at each of them.                  *)
(***************************************************************************)
EXTENDS Naturals, FiniteSets, SequencesExt

CONSTANTS
    Jobs,       \* the calls, see job
    Acts,       \* what the agent may do: [do, typed, index, xpath, hint]
    MaxActs,    \* bound: actions of the agent (50 steps in the code)
    MaxCancels  \* bound: cancels of the call

ASSUME RecordingAssumption == MaxActs \in Nat /\ MaxCancels \in Nat

VARIABLES
    job,        \* [kind, flow, auth, deep, pages, hasKey, public, shots]: kind
                \* "web", "mobile", "bad" or "none"; flow as it is recorded;
                \* auth: a profile is asked for; deep: the goal names an
                \* editor, a project, ...; pages: the session shows its pages
    rpc,        \* how far the call is
    refresh,    \* id of the recording it will be said to supersede, 0: none
    did,        \* history.model_actions()
    mapped,     \* how many of them the loop has seen
    steps,      \* [id, do, act, shot, selector]
    poller,     \* screenshot_task
    shots,      \* step_screenshots
    open,       \* what is open: the lease, the agent's browser, the device, and
                \* a context of the pool's
    outcome,    \* "fine", record_error ("error"), or a cancel on its way
    recorded,   \* the flows table, oldest first
    cancels,    \* bound
    left        \* history: what of open nobody will close, see Abandoned

recording == <<job, rpc, refresh, did, mapped, steps, poller, shots, open, outcome, cancels, left>>

-----------------------------------------------------------------------------
(* Steps *)

NoSelector == "none"
Brittle == {"index", "long"}

\* n steps more, numbered on from those there are.
Added(s, n, step) == s \o [i \in 1..n |-> [step EXCEPT !.id = Len(s) + i - 1]]

Plain(do) == [id |-> 0, do |-> do, act |-> 0, shot |-> 0, selector |-> NoSelector]
Navigate(s) == Added(s, 1, Plain("navigate"))
Assertions(s, n, shot) == Added(s, n, [Plain("assert") EXCEPT !.shot = shot])

\* The selector of a step.  found: the page the agent ended on has the element
\* of the xpath, with a test id.  A brittle one that stands in the way of the
\* attributes browser-use reported is only dropped after them.
Selector(a, found) ==
    LET looked == job.pages /\ a.do # "navigate"
        raw == IF a.index THEN "index" ELSE NoSelector
        live == IF ~looked THEN raw
                ELSE IF a.xpath = "none" THEN NoSelector
                ELSE IF found THEN "testid" ELSE a.xpath
        hinted == IF live = NoSelector /\ a.hint THEN "attribute" ELSE live
    IN IF hinted \in Brittle THEN NoSelector ELSE hinted

\* _map_action answers nothing for what a replay cannot do.
Replayable(a) == a.do # "skip"

\* Every action has the screenshot of its number, whenever that was taken.
ShotOf(i) == IF i <= Len(shots) THEN shots[i] ELSE 0

\* "Guarantee at least a navigation + assertion"
WithGoal(s) == IF Len(s) <= 1 THEN Assertions(s, 1, 0) ELSE s

\* Screenshots beyond the limit go, and with them that of the assertions,
\* which was never among those of the steps.
Capped(s) ==
    LET kept == {shots[i] : i \in {k \in DOMAIN shots : Len(shots) - k < job.shots.cap}}
    IN [i \in DOMAIN s |-> IF s[i].shot \in kept THEN s[i] ELSE [s[i] EXCEPT !.shot = 0]]

\* _ensure_assertion_steps: one, or up to three made of the words of the goal.
Ensured(s) ==
    IF \E i \in DOMAIN s : s[i].do = "assert" THEN {s} ELSE {Assertions(s, n, 0) : n \in 1..3}

-----------------------------------------------------------------------------
(* Before the agent *)

On(pc) == rpc = pc
Go(pc) == rpc' = pc

\* URL, names and goal are looked at; then the profile has to be there and to
\* be resolved (AuthSession).
RefuseRecording ==
    /\ On("asked")
    /\ job.kind = "bad" \/ job.auth
    /\ Go("refused")
    /\ UNCHANGED <<job, refresh, did, mapped, steps, poller, shots, open, outcome, recorded, cancels, left>>

SameName == {r \in Range(recorded) : r.app = job.flow.app /\ r.name = job.flow.name}

\* _find_refresh_candidate, any of them, long before the new one is saved.
BeginRecording ==
    /\ On("asked") /\ job.kind = "web"
    /\ refresh' \in IF SameName = {} THEN {0} ELSE {r.id : r \in SameName}
    /\ steps' = Navigate(<<>>)
    /\ Go(IF job.deep THEN "lease" ELSE "agent")
    /\ UNCHANGED <<job, did, mapped, poller, shots, open, outcome, recorded, cancels, left>>

\* make_agent_llm raises outside every handler.
RecordingRaises ==
    /\ On("asked") /\ job.kind = "web"
    /\ Go("raised")
    /\ UNCHANGED <<job, refresh, did, mapped, steps, poller, shots, open, outcome, recorded, cancels, left>>

\* What is made for a call that no longer waits for it, or whose close fails or
\* is cancelled: it stays open and nobody has it.
Abandoned(things) == open' = open \cup things /\ left' = left \cup things

\* The close of a thing, whose exception is swallowed.
Closed(thing) ==
    \/ open' = open \ {thing} /\ UNCHANGED left
    \/ Abandoned({thing} \cap open)

\* _resolve_spa_entry_url: without a page there is no hint, and no error; the
\* pool may have made a context that nobody has now.
LeaseEntryPage ==
    /\ On("lease")
    /\ \/ open' = open \cup {"lease"} /\ Go("search") /\ UNCHANGED left
       \/ (\E lost \in {{}, {"context"}} : Abandoned(lost)) /\ Go("agent")
    /\ UNCHANGED <<job, refresh, did, mapped, steps, poller, shots, outcome, recorded, cancels>>

\* A link, a data attribute or a click leads deeper, or nothing does.
SearchEntry ==
    /\ On("search")
    /\ steps' \in {steps, Navigate(steps)}
    /\ Go("unlease")
    /\ UNCHANGED <<job, refresh, did, mapped, poller, shots, open, outcome, recorded, cancels, left>>

ReturnEntryPage ==
    /\ On("unlease")
    /\ Closed("lease")
    /\ Go(IF outcome = "fine" THEN "agent" ELSE "cancelled")
    /\ UNCHANGED <<job, refresh, did, mapped, steps, poller, shots, outcome, recorded, cancels>>

-----------------------------------------------------------------------------
(* The agent, and the task that takes screenshots *)

StartAgent ==
    /\ On("agent")
    /\ \/ /\ open' = open \cup {"browser"}
          /\ poller' = IF job.shots.max > 0 THEN "sleep" ELSE "over"
          /\ Go("walk") /\ UNCHANGED outcome
       \/ Go("close") /\ outcome' = "error" /\ UNCHANGED <<open, poller>>
    /\ UNCHANGED <<job, refresh, did, mapped, steps, shots, recorded, cancels, left>>

AgentActs ==
    /\ On("walk") /\ Len(did) < MaxActs
    /\ \E a \in Acts : did' = Append(did, a)
    /\ UNCHANGED <<job, rpc, refresh, mapped, steps, poller, shots, open, outcome, recorded, cancels, left>>

PollerGoesOn ==
    /\ poller = "sleep" /\ job.pages
    /\ poller' = IF Len(shots) >= job.shots.max THEN "over" ELSE "shoot"
    /\ UNCHANGED <<job, rpc, refresh, did, mapped, steps, shots, open, outcome, recorded, cancels, left>>

\* A screenshot that fails is tried again after the next interval.
PollerShoots ==
    /\ poller = "shoot"
    /\ shots' \in {shots, Append(shots, Len(shots) + 1)}
    /\ poller' = "sleep"
    /\ UNCHANGED <<job, rpc, refresh, did, mapped, steps, open, outcome, recorded, cancels, left>>

\* Cancelled, wherever it is: a screenshot under way is not listed.
PollerStops ==
    /\ poller = "stopping"
    /\ poller' = "over"
    /\ UNCHANGED <<job, rpc, refresh, did, mapped, steps, shots, open, outcome, recorded, cancels, left>>

ToStop == poller' = IF poller = "over" THEN poller ELSE "stopping"

\* Mutated form: the task is left to its own limit.
AgentEndsAlone ==
    /\ On("walk")
    /\ outcome' \in {"fine", "error"}
    /\ Go(IF outcome' = "fine" THEN "map" ELSE "close")
    /\ UNCHANGED <<job, refresh, did, mapped, steps, poller, shots, open, recorded, cancels, left>>

\* agent.run returns, wherever it got to, or raises.
AgentEnds ==
    /\ On("walk")
    /\ outcome' \in {"fine", "error"}
    /\ ToStop
    /\ Go("settle")
    /\ UNCHANGED <<job, refresh, did, mapped, steps, shots, open, recorded, cancels, left>>

\* `await screenshot_task`
Settled ==
    /\ On("settle") /\ poller = "over"
    /\ Go(IF outcome = "fine" THEN "map" ELSE "close")
    /\ UNCHANGED <<job, refresh, did, mapped, steps, poller, shots, open, outcome, recorded, cancels, left>>

-----------------------------------------------------------------------------
(* From actions to steps *)

\* An action of an older browser-use is an object: the hints are those of the
\* last one that was not, and when there is none the recording fails.
MapAction ==
    /\ On("map") /\ mapped < Len(did)
    /\ mapped' = mapped + 1
    /\ LET hinted == {k \in 1..mapped' : ~did[k].typed}
           a == [did[mapped'] EXCEPT !.hint = hinted # {} /\ did[Max(hinted)].hint]
       IN
       IF ~Replayable(a) THEN UNCHANGED <<steps, outcome, rpc>>
       ELSE IF hinted = {} THEN outcome' = "error" /\ Go("close") /\ UNCHANGED steps
       ELSE /\ \E found \in BOOLEAN :
                  steps' = Added(steps, 1, [Plain(a.do) EXCEPT !.act = mapped', !.shot = ShotOf(mapped'),
                                                               !.selector = Selector(a, found)])
            /\ UNCHANGED <<outcome, rpc>>
    /\ UNCHANGED <<job, refresh, did, poller, shots, open, recorded, cancels, left>>

\* How many assertions there are in the end: of a public page by rule, without
\* a key the title, else up to three by the LLM; an error keeps those made
\* so far.
AssertionCounts ==
    IF ~job.pages THEN {0} ELSE IF ~job.public /\ ~job.hasKey THEN 0..1 ELSE 0..3

\* The final page, with a screenshot of its own (999).
FinalPage ==
    /\ On("map") /\ mapped = Len(did)
    /\ \E n \in AssertionCounts : steps' = Assertions(steps, n, 999)
    /\ Go("close")
    /\ UNCHANGED <<job, refresh, did, mapped, poller, shots, open, outcome, recorded, cancels, left>>

\* The session is closed whatever happened, and a close that fails is logged;
\* only then does record_flow raise, or complete the steps.
CloseSession ==
    /\ On("close")
    /\ Closed("browser")
    /\ Go(CASE outcome = "fine" -> "save" [] outcome = "error" -> "raised" [] OTHER -> "cancelled")
    /\ steps' \in IF outcome = "fine" THEN Ensured(Capped(WithGoal(steps))) ELSE {steps}
    /\ UNCHANGED <<job, refresh, did, mapped, poller, shots, outcome, recorded, cancels>>

Saved == recorded' = Append(recorded, [job.flow EXCEPT !.steps = steps])

\* save_flow, and the answer: what it supersedes is what was found before.
SaveFlow ==
    /\ On("save")
    /\ \/ Saved /\ Go("answered")
       \/ Go("raised") /\ UNCHANGED recorded
    /\ UNCHANGED <<job, refresh, did, mapped, steps, poller, shots, open, outcome, cancels, left>>

-----------------------------------------------------------------------------
(* A mobile flow *)

\* make_appium_driver has a thread of the executor create the session.
StartDevice ==
    /\ On("asked") /\ job.kind = "mobile"
    /\ Go("connect")
    /\ UNCHANGED <<job, refresh, did, mapped, steps, poller, shots, open, outcome, recorded, cancels, left>>

\* It is there, or could not be created, as without an Appium server.
ConnectDevice ==
    /\ On("connect")
    /\ \/ open' = open \cup {"device"} /\ Go("device")
       \/ Go("refused") /\ UNCHANGED open
    /\ UNCHANGED <<job, refresh, did, mapped, steps, poller, shots, outcome, recorded, cancels, left>>

\* _run_agent_loop calls make_message with arguments it does not have: the
\* first round leaves the loop, and the flow has no steps.  make_planning_llm may
\* raise before.
WalkDevice ==
    /\ On("device")
    /\ Go("logs")
    /\ outcome' \in {"fine", "error"}
    /\ UNCHANGED <<job, refresh, did, mapped, steps, poller, shots, open, recorded, cancels, left>>

\* The logs are captured, and the driver quits or fails to.
QuitDevice ==
    /\ On("logs")
    /\ Closed("device")
    /\ Go(CASE outcome = "fine" -> "save" [] outcome = "error" -> "refused" [] OTHER -> "cancelled")
    /\ UNCHANGED <<job, refresh, did, mapped, steps, poller, shots, outcome, recorded, cancels>>

-----------------------------------------------------------------------------
(* A cancel of the call *)

Closing == [unlease |-> "lease", close |-> "browser"]

\* At these a cancel is the end of the call.  What was under way is left to
\* itself: the pool may have made a context, the thread of the executor goes on
\* and may create the session of the device, the save may have come through,
\* what was to be closed may be closed or not, and a device quits after its logs.
EndedByCancel ==
    /\ rpc \in {"asked", "lease", "connect", "logs", "save"} \cup DOMAIN Closing
    /\ Go("cancelled")
    /\ CASE On("lease") -> \E lost \in {{}, {"context"}} : Abandoned(lost)
         [] On("connect") -> \E lost \in {{}, {"device"}} : Abandoned(lost)
         [] On("logs") -> Abandoned({"device"})
         [] rpc \in DOMAIN Closing -> Closed(Closing[rpc])
         [] OTHER -> UNCHANGED <<open, left>>
    /\ UNCHANGED recorded \/ (On("save") /\ Saved)
    /\ UNCHANGED poller

\* At these it goes through the finally blocks that are left.
UnwoundByCancel ==
    /\ rpc \in {"search", "walk", "map", "device"}
    /\ Go(CASE On("search") -> "unlease" [] On("walk") -> "settle"
            [] On("map") -> "close" [] On("device") -> "logs")
    /\ IF On("walk") THEN ToStop ELSE UNCHANGED poller
    /\ UNCHANGED <<open, left, recorded>>

\* One that comes while the screenshot task is awaited only reaches that task.
CancelRecording ==
    /\ cancels < MaxCancels
    /\ cancels' = cancels + 1
    /\ \/ (EndedByCancel \/ UnwoundByCancel) /\ outcome' = "cancelled"
       \/ On("settle") /\ UNCHANGED <<rpc, outcome, poller, open, left, recorded>>
    /\ UNCHANGED <<job, refresh, did, mapped, steps, shots>>

-----------------------------------------------------------------------------
RecordStep ==
    \/ RefuseRecording \/ BeginRecording \/ RecordingRaises
    \/ LeaseEntryPage \/ SearchEntry \/ ReturnEntryPage
    \/ StartAgent \/ AgentActs \/ AgentEnds \/ Settled
    \/ MapAction \/ FinalPage \/ CloseSession \/ SaveFlow
    \/ StartDevice \/ ConnectDevice \/ WalkDevice \/ QuitDevice

PollStep == PollerGoesOn \/ PollerShoots \/ PollerStops

RecordNext == RecordStep \/ PollStep \/ CancelRecording

RecordInit ==
    /\ job \in Jobs
    /\ rpc = (IF job.kind = "none" THEN "idle" ELSE "asked")
    /\ refresh = 0 /\ mapped = 0 /\ cancels = 0 /\ left = {}
    /\ did = <<>> /\ steps = <<>> /\ shots = <<>>
    /\ poller = "over" /\ open = {} /\ outcome = "fine"

-----------------------------------------------------------------------------
(* Properties *)

RecordingEnded == rpc \in {"refused", "answered", "raised", "cancelled"}

\* A flow a replay can follow: it opens the application first, then does what
\* the agent did, all of it and in that order, then asserts; its steps are
\* numbered without a gap; none is located by what only the recorder knows, and
\* its screenshots were taken, in that order, none of them twice.
Whole(s) ==
    /\ s # <<>> /\ s[1].do = "navigate"
    /\ \A i \in DOMAIN s : s[i].id = i - 1 /\ s[i].selector \notin Brittle
    /\ \E k \in 1..(Len(s) - 1) : \A i \in DOMAIN s : s[i].do = "assert" <=> i > k
    /\ SelectSeq([i \in DOMAIN s |-> s[i].act], LAMBDA n : n > 0)
           = SelectSeq([i \in DOMAIN did |-> i], LAMBDA n : Replayable(did[n]))
    /\ \A i, j \in DOMAIN s :
          s[i].shot > 0 => s[i].shot \in Range(shots) /\ (i < j /\ s[j].shot > 0 => s[i].shot < s[j].shot)

\* A recording comes to an end, wherever a page, the agent, a screenshot, the
\* LLM or the database fails, and wherever it is cancelled.  When it has, its
\* screenshot task is over, and a whole flow of the web application was recorded,
\* once, if the call is answered, and otherwise none, but by a cancel of the save.
\* What is left open then - a leased page, the browser, the device - had a close
\* that failed, which is swallowed and the flow saved all the same, or that was
\* cancelled; or it was still being made when the call stopped waiting for it: a
\* context of the pool's, a device session in a thread of the executor.
RecordingsAreWhole ==
    /\ [](RecordingEnded =>
             LET own == SelectSeq(recorded, LAMBDA r : r.id = job.flow.id) IN
             /\ poller = "over"
             /\ open \subseteq left
             /\ Len(own) <= 1
             /\ rpc = "answered" => own # <<>>
             /\ own # <<>> => rpc \in {"answered", "cancelled"}
             /\ own # <<>> /\ job.kind = "web" => Whole(own[1].steps))
    /\ (rpc = "asked") ~> RecordingEnded
============================================================================
