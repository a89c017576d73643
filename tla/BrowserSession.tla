--------------------------- MODULE BrowserSession ---------------------------
(***************************************************************************)
(* engine/browser_session_manager.py: the one browser the browser_* tools  *)
(* share, with its tabs, refs, event buffers, mocked routes and cookies.   *)
(*                                                                         *)
(* Only starting and closing take the lock.  Every other tool works on     *)
(* whatever session there is and waits for the browser in between: an      *)
(* action is what a tool does up to its next await.  An await on a context *)
(* returns before that context is closed, or raises.  Starting resolves a  *)
(* profile, so that AuthSession runs under the session's lock.             *)
(*                                                                         *)
(* Left out: what is written and never read (_profile_name, _offline), the *)
(* answer to dialogs, and the content of pages.                            *)
(***************************************************************************)
EXTENDS AuthSession, Sequences

CONSTANTS
    Agendas,        \* what clients may call in turn (calls), with which
                    \* credentials, from a warm start or not, and how many of
                    \* the events are already spent
    Routes,         \* what may be mocked, as [pattern |-> ..., reply |-> ...]
    Cookies,        \* cookie names
    Buffers,        \* the buffers of events: console and network
    MaxEvents,      \* _MAX_EVENTS
    MaxSessions,    \* bound: contexts made
    MaxTabs,        \* bound: tabs of a context
    MaxEmitted      \* bound: events

ASSUME BrowserAssumption ==
    /\ MaxEvents \in Nat \ {0} /\ MaxSessions \in Nat
    /\ MaxTabs \in Nat \ {0} /\ MaxEmitted \in Nat
    /\ \A a \in Agendas : a.emitted \in Nat

VARIABLES
    sess,       \* made: contexts so far; ctx: _context, open: the one open
                \* in the browser (0: none); tabs, tab: how many, _current_tab
    lock,       \* who holds _lock
    refs,       \* _refs: the context of the page they were read from, 0: none
    buf,        \* _console_events, _network_events: <<context, number>>
    mark,       \* _last_nav_console_idx, _last_nav_network_idx
    routes,     \* _active_routes
    mocked,     \* the routes the open context answers
    jar,        \* its cookies, with the context they were put in or read from
    tool,       \* what each client is at
    agenda,     \* what it may still call
    emitted,    \* the events so far
    since,      \* history: the events since the last navigation ...
    navigated,  \* ... which was in this context
    unmocked    \* history: routes the browser did not take

browser == <<sess, lock, refs, buf, mark, routes, mocked, jar, tool, agenda, emitted, since, navigated, unmocked>>
vars == <<auth, browser>>

Free == [name |-> None, pc |-> "free", arg |-> None, ctx |-> 0, profile |-> None, keep |-> {}]

Init ==
    /\ AuthInit
    /\ sess = [made |-> 0, ctx |-> 0, open |-> 0, tabs |-> 0, tab |-> 0]
    /\ lock = None /\ refs = 0
    /\ buf = [b \in Buffers |-> <<>>] /\ mark = [b \in Buffers |-> 0]
    /\ routes = {} /\ mocked = {} /\ jar = {}
    /\ tool = [c \in Clients |-> Free]
    /\ \E a \in Agendas :
          /\ agenda = a.calls /\ able = a.able /\ checks = a.checks /\ emitted = a.emitted
          /\ IF a.warm THEN WarmStart ELSE ColdStart
    /\ since = [b \in Buffers |-> <<>>] /\ navigated = 0
    /\ unmocked = {}

events == <<buf, mark, emitted, since, navigated>>
network == <<routes, mocked, unmocked>>

-----------------------------------------------------------------------------
(* Calls *)

\* Client c calls a tool that its agenda has next.
Takes(c, name) ==
    /\ At(c, "idle") /\ tool[c].pc = "free"
    /\ agenda[c] # <<>> /\ name \in Head(agenda[c])
    /\ agenda' = [agenda EXCEPT ![c] = Tail(@)]

Do(c, t) == tool' = [tool EXCEPT ![c] = t]
In(c, name, pc) == tool[c].name = name /\ tool[c].pc = pc
Await(c, pc) == Do(c, [tool[c] EXCEPT !.pc = pc, !.ctx = sess.ctx])
Done(c) == Do(c, Free)

\* What c waits for has come from the context it asked.
Returns(c, name, pc) == In(c, name, pc) /\ tool[c].ctx = sess.open

AtMost(a, b) == IF a < b THEN a ELSE b

\* _current_page: it raises without a page.
Current(s) == [s EXCEPT !.tab = AtMost(s.tab, s.tabs - 1)]

-----------------------------------------------------------------------------
(* ensure_started and close *)

Starters == {"navigate", "read_page_info", "tabs_new", "tabs_select", "tabs_close", "route_add",
             "cookie_list", "cookie_set", "cookie_delete", "cookie_clear"}

\* Only navigate may name a profile, and then the agenda has it as navigate_as.
Starts(c, entry, name, arg, profile) ==
    /\ Takes(c, entry)
    /\ Do(c, [Free EXCEPT !.name = name, !.pc = "ensure", !.arg = arg, !.profile = profile])
    /\ UNCHANGED <<auth, sess, lock, refs, events, network, jar>>

\* The first to find no session makes one, for the profile of its call.
EnsureStarted(c) ==
    /\ tool[c].pc = "ensure" /\ tool[c].name # "close"
    /\ lock = None /\ sess.ctx = 0
    /\ lock' = c
    /\ Do(c, [tool[c] EXCEPT !.pc = "start"])
    /\ Begin(c, "browser", tool[c].profile, TRUE)
    /\ UNCHANGED <<config, kind, file, accepted, cache, validated, login, writes, now, served>>
    /\ UNCHANGED <<sess, refs, events, network, jar, agenda>>

\* The browser is launched and gets a context, with the cookies of the file.
Launch(c) ==
    /\ tool[c].pc = "start" /\ At(c, "got") /\ sess.made < MaxSessions
    /\ LET n == sess.made + 1 IN
          /\ sess' = [sess EXCEPT !.made = n, !.ctx = n, !.open = n, !.tabs = 0]
          /\ jar' = IF call[c].path = None THEN {} ELSE {[name |-> k, ctx |-> n] : k \in Cookies}
    /\ mocked' = {}
    /\ Do(c, [tool[c] EXCEPT !.pc = "page"])
    /\ Step(c, Idle)
    /\ UNCHANGED <<config, kind, file, accepted, cache, validated, login, writes, now, served>>
    /\ UNCHANGED <<lock, refs, events, routes, unmocked, agenda>>

\* A failure leaves what there is: nothing the manager would use, or a context
\* without a page, which it will.
StartFails(c) ==
    /\ \/ tool[c].pc = "start" /\ At(c, "got")
       \/ tool[c].pc = "page" /\ lock = c
    /\ lock' = None
    /\ Done(c) /\ Step(c, Idle)
    /\ UNCHANGED <<config, kind, file, accepted, cache, validated, login, writes, now, served>>
    /\ UNCHANGED <<sess, refs, events, network, jar, agenda>>

\* The tool goes on, with the page it had made or the session it found, and
\* does not wait in between.
Ready(c, name) ==
    /\ tool[c].name = name
    /\ \/ tool[c].pc = "page" /\ sess.open = sess.ctx
       \/ tool[c].pc = "ensure" /\ lock = None /\ sess.ctx # 0

Session(c) == IF tool[c].pc = "page" THEN [sess EXCEPT !.tabs = 1, !.tab = 0] ELSE sess
Unlocked(c) == lock' = IF lock = c THEN None ELSE lock

close(c) ==
    /\ Takes(c, "close")
    /\ Do(c, [Free EXCEPT !.name = "close", !.pc = "ensure"])
    /\ UNCHANGED <<auth, sess, lock, refs, events, network, jar>>

CloseContext(c) ==
    /\ In(c, "close", "ensure") /\ lock = None
    /\ lock' = c
    /\ Await(c, "closing")
    /\ UNCHANGED <<auth, sess, refs, events, network, jar, agenda>>

\* context.close() is through ...
ContextClosed(c) ==
    /\ In(c, "close", "closing")
    /\ sess' = [sess EXCEPT !.open = 0]
    /\ Await(c, "closed")
    /\ UNCHANGED <<auth, lock, refs, events, network, jar, agenda>>

\* ... or it raises, or what follows does: the session stays, open or not.
CloseFails(c) ==
    /\ In(c, "close", "closing") \/ In(c, "close", "closed")
    /\ \E open \in {0, sess.open} : sess' = [sess EXCEPT !.open = open]
    /\ lock' = None
    /\ Done(c)
    /\ UNCHANGED <<auth, refs, events, network, jar, agenda>>

\* Mutated form: the refs of the last page stay.
ForgetButRefs ==
    /\ sess' = [sess EXCEPT !.ctx = 0, !.tabs = 0, !.tab = 0]
    /\ buf' = [b \in Buffers |-> <<>>]
    /\ routes' = {} /\ UNCHANGED refs

Forget ==
    /\ sess' = [sess EXCEPT !.ctx = 0, !.tabs = 0, !.tab = 0]
    /\ buf' = [b \in Buffers |-> <<>>]
    /\ routes' = {} /\ refs' = 0

\* The marks of the buffers stay as they are.
Closed(c) ==
    /\ In(c, "close", "closed")
    /\ Forget
    /\ unmocked' = {}
    /\ lock' = None
    /\ Done(c)
    /\ UNCHANGED <<auth, mark, emitted, since, navigated, mocked, jar, agenda>>

\* The browser dies: nobody is told, and only close makes room for another.
Dies ==
    /\ sess.open # 0
    /\ sess' = [sess EXCEPT !.open = 0]
    /\ UNCHANGED <<auth, lock, refs, events, network, jar, tool, agenda>>

-----------------------------------------------------------------------------
(* Events *)

\* Mutated form: the mark does not follow the events that are dropped.
TrimmedUnmarked(list, m) ==
    LET overflow == IF Len(list) > MaxEvents THEN Len(list) - MaxEvents ELSE 0
    IN  [list |-> SubSeq(list, overflow + 1, Len(list)), mark |-> m]

\* _trim_console_events and _trim_network_events, with the mark.
Trimmed(list, m) ==
    LET overflow == IF Len(list) > MaxEvents THEN Len(list) - MaxEvents ELSE 0
    IN  [list |-> SubSeq(list, overflow + 1, Len(list)),
         mark |-> IF m > overflow THEN m - overflow ELSE 0]

\* _on_console, _on_response, _on_request_failed: any page, at any time.
Emit(b) ==
    /\ sess.open # 0 /\ emitted < MaxEmitted
    /\ emitted' = emitted + 1
    /\ LET event == <<sess.open, emitted'>>
           t == Trimmed(Append(buf[b], event), mark[b])
       IN  /\ buf' = [buf EXCEPT ![b] = t.list]
           /\ mark' = [mark EXCEPT ![b] = t.mark]
           /\ since' = [since EXCEPT ![b] = Append(@, event)]
    /\ UNCHANGED <<auth, sess, lock, refs, network, jar, tool, agenda, navigated>>

\* What console_messages and network_requests answer.
Shown(b) == SubSeq(buf[b], mark[b] + 1, Len(buf[b]))

-----------------------------------------------------------------------------
(* Pages *)

\* The tool waits for a page it has, or raises for want of one.
OnPage(c, s, pc) ==
    IF s.tabs = 0 THEN sess' = s /\ Done(c)
    ELSE sess' = Current(s) /\ Await(c, pc)

Goto(c) ==
    /\ Ready(c, "navigate")
    /\ OnPage(c, Session(c), "goto")
    /\ Unlocked(c)
    /\ UNCHANGED <<auth, refs, events, network, jar, agenda>>

\* What the page said while it was loaded is before the mark.
navigate(c) ==
    /\ Returns(c, "navigate", "goto")
    /\ refs' = 0
    /\ mark' = [b \in Buffers |-> Len(buf[b])]
    /\ since' = [b \in Buffers |-> <<>>] /\ navigated' = sess.open
    /\ Done(c)
    /\ UNCHANGED <<auth, sess, lock, buf, emitted, network, jar, agenda>>

\* The tools that take the page there is: it acts, or reads, and waits.
PageTools == {"navigate_back", "snapshot", "page"}

OnCurrentPage(c, name) ==
    /\ Takes(c, name)
    /\ IF sess.ctx = 0 \/ sess.tabs = 0 THEN UNCHANGED <<sess, tool>>
       ELSE /\ sess' = Current(sess)
            /\ Do(c, [Free EXCEPT !.name = name, !.pc = "page", !.ctx = sess.ctx])
    /\ UNCHANGED <<auth, lock, refs, events, network, jar>>

navigate_back(c) ==
    /\ Returns(c, "navigate_back", "page")
    /\ refs' = 0
    /\ Done(c)
    /\ UNCHANGED <<auth, sess, lock, events, network, jar, agenda>>

\* Whatever became of the page since it was read.
snapshot(c) ==
    /\ Returns(c, "snapshot", "page")
    /\ refs' = tool[c].ctx
    /\ Done(c)
    /\ UNCHANGED <<auth, sess, lock, events, network, jar, agenda>>

\* click, type_text, hover, wait_for, take_screenshot, local storage, and what
\* only looks: the session is as it was.
PageTool(c) ==
    /\ \/ Returns(c, "page", "page")
       \/ Returns(c, "read_page_info", "look") \/ Returns(c, "cookie_list", "look")
    /\ Done(c)
    /\ UNCHANGED <<auth, sess, lock, refs, events, network, jar, agenda>>

\* An await raises, for a time limit or because there is no such page any
\* more; nothing that follows it is done.
Awaits == {"goto", "page", "look", "tab", "register", "read", "clear", "add", "restore"}

Raises(c) ==
    /\ tool[c].pc \in Awaits /\ lock # c
    /\ Done(c)
    /\ unmocked' = IF In(c, "route_add", "register") THEN unmocked \cup {tool[c].arg} ELSE unmocked
    /\ UNCHANGED <<auth, sess, lock, refs, events, routes, mocked, jar, agenda>>

-----------------------------------------------------------------------------
(* Tabs: the arg of a call is an index *)

NewTab(c) ==
    /\ Ready(c, "tabs_new") /\ Session(c).tabs < MaxTabs
    /\ sess' = Session(c)
    /\ Await(c, "tab")
    /\ Unlocked(c)
    /\ UNCHANGED <<auth, refs, events, network, jar, agenda>>

TabIsNew(c) ==
    /\ Returns(c, "tabs_new", "tab")
    /\ sess' = [sess EXCEPT !.tabs = @ + 1, !.tab = sess.tabs]
    /\ Done(c)
    /\ UNCHANGED <<auth, lock, refs, events, network, jar, agenda>>

\* The refs of the tab one comes from stay.
SelectTab(c) ==
    /\ Ready(c, "tabs_select")
    /\ LET s == Session(c) IN
           sess' = IF tool[c].arg < s.tabs THEN [s EXCEPT !.tab = tool[c].arg] ELSE s
    /\ Done(c) /\ Unlocked(c)
    /\ UNCHANGED <<auth, refs, events, network, jar, agenda>>

CloseTab(c) ==
    /\ Ready(c, "tabs_close")
    /\ sess' = Session(c)
    /\ IF tool[c].arg < Session(c).tabs THEN Await(c, "tab") ELSE Done(c)
    /\ Unlocked(c)
    /\ UNCHANGED <<auth, refs, events, network, jar, agenda>>

\* The number of the current tab is kept: it may be another page now.
TabIsClosed(c) ==
    /\ Returns(c, "tabs_close", "tab") /\ sess.tabs > 0
    /\ LET left == sess.tabs - 1 IN
           sess' = [sess EXCEPT !.tabs = left, !.tab = IF left = 0 THEN 0 ELSE AtMost(@, left - 1)]
    /\ Done(c)
    /\ UNCHANGED <<auth, lock, refs, events, network, jar, agenda>>

-----------------------------------------------------------------------------
(* Mocked routes: the arg of a call is a route, or the pattern removed *)

\* It is listed before the browser has it.
route_add(c) ==
    /\ Ready(c, "route_add")
    /\ sess' = Session(c)
    /\ IF tool[c].arg \in routes THEN Done(c) /\ UNCHANGED routes
       ELSE routes' = routes \cup {tool[c].arg} /\ Await(c, "register")
    /\ Unlocked(c)
    /\ UNCHANGED <<auth, refs, events, mocked, unmocked, jar, agenda>>

Registered(c) ==
    /\ Returns(c, "route_add", "register")
    /\ mocked' = mocked \cup {tool[c].arg}
    /\ Done(c)
    /\ UNCHANGED <<auth, sess, lock, refs, events, routes, unmocked, jar, agenda>>

OfPattern(p, set) == {r \in set : p \in {None, r.pattern}}

\* Without a pattern all are removed.
route_remove(c, p) ==
    /\ Takes(c, "route_remove")
    /\ IF sess.ctx = 0 \/ OfPattern(p, routes) = {} THEN UNCHANGED tool
       ELSE Do(c, [Free EXCEPT !.name = "route_remove", !.pc = "unroute", !.arg = p,
                               !.ctx = sess.ctx, !.keep = routes])
    /\ UNCHANGED <<auth, sess, lock, refs, events, network, jar>>

\* The patterns found at the start are unrouted, and an error is swallowed;
\* then the list is cleared of what it has by now.
Unrouted(c) ==
    LET p == tool[c].arg
        patterns == {r.pattern : r \in OfPattern(p, tool[c].keep)}
    IN  /\ In(c, "route_remove", "unroute")
        /\ \/ tool[c].ctx = sess.open /\ mocked' = {r \in mocked : r.pattern \notin patterns}
           \/ UNCHANGED mocked
        /\ routes' = routes \ OfPattern(p, routes)
        /\ Done(c)
        /\ UNCHANGED <<auth, sess, lock, refs, events, unmocked, jar, agenda>>

-----------------------------------------------------------------------------
(* Cookies: the arg of a call is a name *)

\* cookie_set needs a page for its domain, as read_page_info does; the others
\* need a context.
Asks(c, name, pc) ==
    /\ Ready(c, name)
    /\ IF name \in {"cookie_set", "read_page_info"} THEN OnPage(c, Session(c), pc) ELSE sess' = Session(c) /\ Await(c, pc)
    /\ Unlocked(c)
    /\ UNCHANGED <<auth, refs, events, network, jar, agenda>>

Put(c, cookies) ==
    /\ jar' = {k \in jar : k.name \notin {d.name : d \in cookies}} \cup cookies
    /\ Done(c)

AddCookies(c) ==
    /\ \/ Returns(c, "cookie_set", "add") /\ Put(c, {[name |-> tool[c].arg, ctx |-> tool[c].ctx]})
       \/ Returns(c, "cookie_delete", "add") /\ Put(c, tool[c].keep)
    /\ UNCHANGED <<auth, sess, lock, refs, events, network, agenda>>

\* cookie_delete keeps what it read, clears the jar and puts it back.
ReadCookies(c) ==
    /\ Returns(c, "cookie_delete", "read")
    /\ Do(c, [tool[c] EXCEPT !.pc = "clear", !.keep = {k \in jar : k.name # tool[c].arg}])
    /\ UNCHANGED <<auth, sess, lock, refs, events, network, jar, agenda>>

ClearCookies(c) ==
    /\ \/ Returns(c, "cookie_clear", "clear") \/ Returns(c, "cookie_delete", "clear")
       \/ Returns(c, "storage_state_restore", "clear")
    /\ jar' = {}
    /\ IF tool[c].name = "storage_state_restore" THEN Await(c, "restore")
       ELSE IF tool[c].keep # {} THEN Await(c, "add") ELSE Done(c)
    /\ UNCHANGED <<auth, sess, lock, refs, events, network, agenda>>

\* Cookies of a file, then its origins are visited on the current page, whose
\* refs stay; what fails there is passed over.
storage_state_restore(c) ==
    /\ Takes(c, "storage_state_restore")
    /\ IF sess.ctx = 0 THEN UNCHANGED tool
       ELSE Do(c, [Free EXCEPT !.name = "storage_state_restore", !.pc = "clear", !.ctx = sess.ctx])
    /\ UNCHANGED <<auth, sess, lock, refs, events, network, jar>>

Restored(c) ==
    /\ Returns(c, "storage_state_restore", "restore")
    /\ Put(c, {[name |-> k, ctx |-> tool[c].ctx] : k \in Cookies})
    /\ UNCHANGED <<auth, sess, lock, refs, events, network, agenda>>

-----------------------------------------------------------------------------
(* The tools that are about auth alone *)

AuthTool(c) ==
    /\ \E p \in Profiles :
          \/ Takes(c, "run") /\ Ask(c, "run", p)
          \/ Takes(c, "save") /\ Ask(c, "save", p)
          \/ Takes(c, "page_session") /\ Ask(c, "page", p)
          \/ Takes(c, "capture") /\ capture_auth_session(c, p)
    /\ UNCHANGED <<sess, lock, refs, events, network, jar, tool>>

AuthNext ==
    /\ Tick \/ SessionEnds \/ \E c \in Clients : AuthStep(c)
    /\ UNCHANGED browser

-----------------------------------------------------------------------------
(* Tools of other modules that share the session, as the calls they make. *)

perform_step == {"navigate", "read_page_info", "page"}
capture_artifact == {"snapshot", "page"}
navigate_to_journey == {"navigate", "navigate_as"}
storage_get == {"cookie_list", "page"}
storage_set == {"cookie_set", "cookie_delete", "cookie_clear", "page"}
storage_import == {"storage_state_restore"}
route_register == {"route_add"}
route_clear == {"route_remove"}

-----------------------------------------------------------------------------
Args(name) ==
    CASE name \in {"tabs_select", "tabs_close"} -> 0..MaxTabs
      [] name = "route_add" -> Routes
      [] name \in {"cookie_set", "cookie_delete"} -> Cookies
      [] OTHER -> {None}

ToolStep(c) ==
    \/ EnsureStarted(c) \/ Launch(c) \/ StartFails(c)
    \/ CloseContext(c) \/ ContextClosed(c) \/ CloseFails(c) \/ Closed(c)
    \/ Goto(c) \/ navigate(c) \/ navigate_back(c) \/ snapshot(c) \/ PageTool(c) \/ Raises(c)
    \/ NewTab(c) \/ TabIsNew(c) \/ SelectTab(c) \/ CloseTab(c) \/ TabIsClosed(c)
    \/ route_add(c) \/ Registered(c) \/ Unrouted(c)
    \/ Asks(c, "cookie_set", "add") \/ Asks(c, "cookie_delete", "read")
    \/ Asks(c, "cookie_clear", "clear")
    \/ Asks(c, "cookie_list", "look") \/ Asks(c, "read_page_info", "look")
    \/ AddCookies(c) \/ ReadCookies(c) \/ ClearCookies(c)
    \/ Restored(c)

Begins(c) ==
    \/ \E name \in Starters : \E arg \in Args(name) : Starts(c, name, name, arg, None)
    \/ \E p \in Profiles \ {AutoEnv} : Starts(c, "navigate_as", "navigate", None, p)
    \/ \E name \in PageTools : OnCurrentPage(c, name)
    \/ \E p \in {None} \cup {r.pattern : r \in Routes} : route_remove(c, p)
    \/ close(c) \/ storage_state_restore(c) \/ AuthTool(c)

Next ==
    \/ \E c \in Clients : Begins(c) \/ ToolStep(c)
    \/ \E b \in Buffers : Emit(b)
    \/ Dies \/ AuthNext

Spec == Init /\ [][Next]_vars

-----------------------------------------------------------------------------
(* Properties *)

Registering(r) == \E c \in Clients : In(c, "route_add", "register") /\ tool[c].arg = r

\* Tools wait for the browser without the lock while another one closes the
\* session and a third starts the next one, for another profile.  Nothing a
\* tool has read or listed gets from one session into another: refs, events,
\* cookies and routes are of the session there is, and a route of the list is
\* answered by it, is on its way or was not taken.
SessionsDoNotMix ==
    /\ refs \in {0, sess.ctx}
    /\ \A b \in Buffers : \A i \in DOMAIN buf[b] : buf[b][i][1] = sess.ctx
    /\ sess.open # 0 => sess.open = sess.ctx /\ \A k \in jar : k.ctx = sess.ctx
    /\ sess.ctx = 0 => routes = {} /\ sess.tab = 0
    /\ sess.open # 0 => \A r \in routes : r \in mocked \cup unmocked \/ Registering(r)

\* Once a page was opened in it, a session shows what came in since the last
\* time one was, in order and without a gap, as far as the buffer goes back:
\* whoever closes, starts, navigates, or fills the buffer meanwhile.
ShownSinceNavigation ==
    sess.ctx # 0 /\ navigated = sess.ctx =>
        \A b \in Buffers :
            Shown(b) = SubSeq(since[b], Len(since[b]) - AtMost(MaxEvents, Len(since[b])) + 1, Len(since[b]))
=============================================================================
