------------------------ MODULE BrowserSessionProofs ------------------------
(***************************************************************************)
(* Proofs about BrowserSession, for any clients, whatever they call in     *)
(* turn, and every bound: what is remembered of a session is of the one    *)
(* there is, and what AuthSession promises its callers.                    *)
(***************************************************************************)
EXTENDS BrowserSession, AuthSessionProofs

-----------------------------------------------------------------------------
(* The inductive invariant *)

Fields == {"name", "pc", "arg", "ctx", "profile", "keep"}

\* Who holds the lock, and who waits for a context it asked.
Holds(t) == t.pc \in {"start", "closing", "closed"} \/ (t.pc = "page" /\ t.name \notin PageTools)
Waits(t) == t.pc \in Awaits /\ ~ Holds(t)

\* A session is started where there is none and closed where there is one, by
\* whoever holds the lock; a context that is waited for was one; the tab that
\* is selected has a number, and the cookies a tool is to put back are of the
\* context it asked.
ToolOK(c) ==
    LET t == tool[c] IN
    /\ DOMAIN t = Fields /\ t.ctx \in Nat /\ t.profile \in Profiles \cup {None}
    /\ Holds(t) => lock = c
    /\ t.pc = "start" => sess.ctx = 0
    /\ t.pc \in {"ensure", "start"} => t.name \notin PageTools
    /\ t.pc = "page" /\ Holds(t) => sess.ctx # 0
    /\ t.pc = "closed" => sess.open = 0
    /\ Waits(t) => t.ctx # 0
    /\ t.name = "tabs_select" => t.arg \in Nat
    /\ t.name = "cookie_delete" /\ t.pc \in {"clear", "add"} =>
         \A k \in t.keep : k.ctx = t.ctx

ToolsOK == DOMAIN tool = Clients /\ \A c \in Clients : ToolOK(c)

Sessions == [made : Nat, ctx : Nat, open : Nat, tabs : Nat, tab : Nat]

\* What the browser has open is the session there is, and without one there is
\* nothing to remember.
SessionOK ==
    /\ sess \in Sessions
    /\ sess.ctx <= sess.made /\ sess.open \in {0, sess.ctx}
    /\ refs \in {0, sess.ctx}
    /\ sess.ctx = 0 => routes = {} /\ sess.tab = 0

\* The buffers have events of this session only.
EventsOK ==
    /\ buf \in [Buffers -> Seq(Nat \X Nat)]
    /\ \A b \in Buffers : Len(buf[b]) <= MaxEvents
    /\ \A b \in Buffers : \A i \in 1 .. Len(buf[b]) : buf[b][i][1] = sess.ctx
    /\ sess.ctx = 0 => \A b \in Buffers : buf[b] = <<>>
    /\ emitted \in Nat

CookiesOK == sess.open # 0 => \A k \in jar : k.ctx = sess.ctx

RoutesOK == sess.open # 0 => \A r \in routes : r \in mocked \cup unmocked \/ Registering(r)

SessionInv == ToolsOK /\ SessionOK /\ EventsOK /\ CookiesOK /\ RoutesOK

LEMMA FreeFields ==
    /\ DOMAIN Free = Fields /\ Free.ctx = 0 /\ Free.profile = None /\ Free.pc = "free"
    /\ Free.name = None /\ Free.keep = {}
  BY DEF Free, Fields

\* A server starts without a session.
LEMMA InitHolds == Init => AuthInv /\ SessionInv
<1> SUFFICES ASSUME Init PROVE AuthInv /\ SessionInv
  OBVIOUS
<1>1. AuthInv
  <2>1. AuthInit /\ (ColdStart \/ WarmStart)
    BY DEF Init
  <2> QED
    BY <2>1, AuthInitHolds
<1>2. ToolsOK
  BY FreeFields DEF Init, ToolsOK, ToolOK, Holds, Waits, Awaits, None
<1>3. SessionOK
  BY DEF Init, SessionOK, Sessions
<1>4. EventsOK
  BY BrowserAssumption DEF Init, EventsOK
<1>5. CookiesOK /\ RoutesOK
  BY DEF Init, CookiesOK, RoutesOK
<1> QED
  BY <1>1, <1>2, <1>3, <1>4, <1>5 DEF SessionInv

-----------------------------------------------------------------------------
(* Steps that leave the session as it is *)

\* Only tabs come and go, if there is a session.
SameSession ==
    /\ sess' \in Sessions
    /\ sess'.made = sess.made /\ sess'.ctx = sess.ctx /\ sess'.open = sess.open
    /\ sess'.tab # sess.tab => sess.ctx # 0

\* What was on its way into the browser is there, was not taken, or still is.
RoutesMove ==
    \A r \in routes' : r \in routes /\ (r \in mocked => r \in mocked') /\ (r \in unmocked => r \in unmocked')
                       /\ (Registering(r) => Registering(r)' \/ r \in mocked' \cup unmocked')

LEMMA SameKeeps ==
    ASSUME SessionInv, SameSession, ToolsOK', refs' \in {0, refs, sess.ctx},
           RoutesMove, sess.open # 0 => \A k \in jar' : k.ctx = sess.ctx,
           UNCHANGED <<buf, emitted>>
    PROVE  SessionInv'
<1>1. SessionOK'
  BY DEF SessionInv, SessionOK, SameSession, RoutesMove
<1>2. EventsOK'
  BY DEF SessionInv, EventsOK, SameSession
<1>3. CookiesOK'
  BY DEF SessionInv, CookiesOK, SameSession
<1>4. RoutesOK'
  BY DEF SessionInv, RoutesOK, SameSession, RoutesMove
<1> QED
  BY <1>1, <1>2, <1>3, <1>4 DEF SessionInv

\* One client moves, and takes or releases the lock or leaves it.
ToolMoves(c, t) ==
    /\ tool' = [tool EXCEPT ![c] = t]
    /\ \/ lock' = lock
       \/ lock = None /\ lock' = c
       \/ lock = c /\ lock' = None

LEMMA OthersKeep ==
    ASSUME ToolsOK, NEW c \in Clients, NEW t, ToolMoves(c, t), ToolOK(c)',
           sess'.ctx = sess.ctx, sess'.open \in {0, sess.open}
    PROVE  ToolsOK'
<1>1. DOMAIN tool' = Clients
  BY DEF ToolsOK, ToolMoves
<1>2. ASSUME NEW d \in Clients, d # c PROVE ToolOK(d)'
  <2>1. tool'[d] = tool[d] /\ ToolOK(d) /\ (lock = d => lock' = d)
    BY <1>2, AuthAssumption DEF ToolsOK, ToolMoves
  <2> QED
    BY <2>1 DEF ToolOK, Holds, Waits
<1> QED
  BY <1>1, <1>2 DEF ToolsOK

\* Routes on their way stay so while their client does something else.
LEMMA RegisteringStays ==
    ASSUME ToolsOK, NEW c \in Clients, NEW t, ToolMoves(c, t),
           tool[c].name # "route_add" \/ tool[c].pc # "register", NEW r, Registering(r)
    PROVE  Registering(r)'
  BY DEF ToolsOK, ToolMoves, Registering, In

\* A step of this kind: the tool that moves has only its own part to keep.
LEMMA ToolStepKeeps ==
    ASSUME SessionInv, NEW c \in Clients, NEW t, ToolMoves(c, t), ToolOK(c)', SameSession,
           tool[c].name # "route_add" \/ tool[c].pc # "register",
           refs' \in {0, refs, sess.ctx}, UNCHANGED <<buf, emitted, jar, network>>
    PROVE  SessionInv'
<1>1. ToolsOK'
  BY OthersKeep DEF SessionInv, SameSession
<1>2. RoutesMove
  BY RegisteringStays DEF RoutesMove, SessionInv, network
<1> QED
  BY <1>1, <1>2, SameKeeps DEF SessionInv, CookiesOK

LEMMA FreeOK == ASSUME NEW c, tool'[c] = Free PROVE ToolOK(c)'
  BY FreeFields DEF ToolOK, Holds, Waits, Awaits, None

\* The records of the tabs.
LEMMA SessionOf ==
    ASSUME SessionOK, NEW c
    PROVE  /\ Session(c) \in Sessions /\ Session(c).made = sess.made
           /\ Session(c).ctx = sess.ctx /\ Session(c).open = sess.open
  BY DEF SessionOK, Sessions, Session

LEMMA CurrentOf ==
    ASSUME NEW s \in Sessions, s.tabs # 0
    PROVE  /\ Current(s) \in Sessions /\ Current(s).made = s.made
           /\ Current(s).ctx = s.ctx /\ Current(s).open = s.open
<1>1. AtMost(s.tab, s.tabs - 1) \in Nat
  BY DEF Sessions, AtMost
<1> QED
  BY <1>1 DEF Sessions, Current

LEMMA Unchanging == ASSUME SessionInv, sess' = sess PROVE SameSession
  BY DEF SessionInv, SessionOK, SameSession

\* The next calls, and what they ask before there is a session to work on.
LEMMA CallsKeep ==
    ASSUME SessionInv, NEW c \in Clients,
           \/ \E name \in Starters : \E arg \in Args(name) : Starts(c, name, name, arg, None)
           \/ \E p \in Profiles \ {AutoEnv} : Starts(c, "navigate_as", "navigate", None, p)
           \/ close(c) \/ EnsureStarted(c) \/ CloseContext(c) \/ StartFails(c)
    PROVE  SessionInv'
<1> USE DEF ToolOK, Holds, Waits, Awaits, PageTools, Fields, Do, Done, Await, ToolMoves
<1>0. ToolOK(c) /\ DOMAIN tool = Clients
  BY DEF SessionInv, ToolsOK
<1>1. ASSUME NEW name, NEW entry, NEW arg, NEW profile \in Profiles \cup {None},
             name \in Starters, name = "tabs_select" => arg \in Nat,
             Starts(c, entry, name, arg, profile)
      PROVE  SessionInv'
  <2> DEFINE t == [Free EXCEPT !.name = name, !.pc = "ensure", !.arg = arg, !.profile = profile]
  <2>1. ToolMoves(c, t) /\ tool[c].pc = "free"
    BY <1>1 DEF Starts, Takes
  <2>2. tool'[c] = t
    BY <1>0, <2>1
  <2>3. DOMAIN t = Fields /\ t.ctx = 0 /\ t.profile = profile /\ t.pc = "ensure" /\ t.name = name
        /\ t.arg = arg
    BY FreeFields
  <2>4. ToolOK(c)'
    BY <1>1, <2>2, <2>3 DEF Starters
  <2> QED
    BY <1>1, <2>1, <2>4, Unchanging, ToolStepKeeps DEF Starts, events
<1>2. CASE close(c)
  <2> DEFINE t == [Free EXCEPT !.name = "close", !.pc = "ensure"]
  <2>1. ToolMoves(c, t) /\ ToolOK(c)' /\ tool[c].pc # "register"
    BY <1>0, <1>2, FreeFields DEF close, Takes
  <2> QED
    BY <1>2, <2>1, Unchanging, ToolStepKeeps DEF close, events
<1>3. CASE EnsureStarted(c)
  <2>1. PICK t : ToolMoves(c, t) /\ ToolOK(c)' /\ tool[c].pc # "register"
    BY <1>0, <1>3, FreeFields DEF EnsureStarted
  <2> QED
    BY <1>3, <2>1, Unchanging, ToolStepKeeps DEF EnsureStarted, events
<1>4. CASE CloseContext(c)
  <2>1. PICK t : ToolMoves(c, t) /\ ToolOK(c)' /\ tool[c].pc # "register"
    BY <1>0, <1>4, FreeFields DEF CloseContext, In, SessionInv, SessionOK, Sessions
  <2> QED
    BY <1>4, <2>1, Unchanging, ToolStepKeeps DEF CloseContext, events
<1>5. CASE StartFails(c)
  <2>1. ToolMoves(c, Free) /\ tool'[c] = Free /\ tool[c].pc # "register"
    BY <1>0, <1>5 DEF StartFails
  <2> QED
    BY <1>5, <2>1, FreeOK, Unchanging, ToolStepKeeps DEF StartFails, events
<1>6. \A arg \in Args("tabs_select") : arg \in Nat
  BY BrowserAssumption DEF Args
<1>7. "navigate" \in Starters /\ None \in Profiles \cup {None}
  BY DEF Starters
<1> QED
  BY <1>1, <1>2, <1>3, <1>4, <1>5, <1>6, <1>7

\* A tool that goes on has a session, and gives the lock back if it took it.
LEMMA ReadyHas ==
    ASSUME SessionInv, NEW c \in Clients, NEW name \in Starters, Ready(c, name)
    PROVE  /\ sess.ctx # 0 /\ sess.ctx \in Nat /\ ToolOK(c) /\ DOMAIN tool = Clients
           /\ tool[c].name = name /\ tool[c].pc \in {"page", "ensure"}
           /\ Unlocked(c) => lock' = lock \/ (lock = c /\ lock' = None)
<1>1. ToolOK(c) /\ DOMAIN tool = Clients /\ sess.ctx \in Nat
  BY DEF SessionInv, ToolsOK, SessionOK, Sessions
<1>2. name \notin PageTools
  BY DEF Starters, PageTools
<1> QED
  BY <1>1, <1>2 DEF Ready, ToolOK, Holds, Unlocked

\* What a tool does then: it waits for the context there is, or is done.
LEMMA AwaitOK ==
    ASSUME SessionInv, NEW c \in Clients, ToolOK(c), NEW pc, sess.ctx # 0,
           pc \in {"goto", "look", "tab", "register", "read", "clear", "add", "restore"},
           tool'[c] = [tool[c] EXCEPT !.pc = pc, !.ctx = sess.ctx],
           pc \in {"clear", "add"} =>
             tool[c].name # "cookie_delete" \/ \A k \in tool[c].keep : k.ctx = sess.ctx
    PROVE  ToolOK(c)'
<1> DEFINE t == [tool[c] EXCEPT !.pc = pc, !.ctx = sess.ctx]
<1>1. sess.ctx \in Nat
  BY DEF SessionInv, SessionOK, Sessions
<1>2. /\ DOMAIN t = Fields /\ t.ctx = sess.ctx /\ t.pc = pc /\ t.name = tool[c].name
      /\ t.profile = tool[c].profile /\ t.keep = tool[c].keep /\ t.arg = tool[c].arg
  BY DEF ToolOK, Fields
<1> QED
  BY <1>1, <1>2 DEF ToolOK, Holds, Waits

\* The tools that work on pages, tabs and what the browser tells of them.
LEMMA WaitKeeps ==
    ASSUME SessionInv, NEW c \in Clients, NEW name \in Starters, Ready(c, name),
           NEW pc \in {"goto", "look", "tab", "register", "read", "clear", "add"},
           pc \in {"clear", "add"} => name # "cookie_delete",
           Unlocked(c), SameSession, Await(c, pc) \/ Done(c),
           UNCHANGED <<refs, buf, emitted, jar, network>>
    PROVE  SessionInv'
<1>1. /\ sess.ctx # 0 /\ ToolOK(c) /\ DOMAIN tool = Clients
      /\ tool[c].name = name /\ tool[c].pc # "register"
      /\ lock' = lock \/ (lock = c /\ lock' = None)
  BY ReadyHas
<1>2. CASE Await(c, pc)
  <2> DEFINE t == [tool[c] EXCEPT !.pc = pc, !.ctx = sess.ctx]
  <2>1. ToolMoves(c, t) /\ tool'[c] = t
    BY <1>1, <1>2 DEF ToolMoves, Await, Do
  <2>2. ToolOK(c)'
    BY <1>1, <2>1, AwaitOK
  <2> QED
    BY <1>1, <2>1, <2>2, ToolStepKeeps
<1>3. CASE Done(c)
  <2>1. ToolMoves(c, Free) /\ tool'[c] = Free
    BY <1>1, <1>3 DEF ToolMoves, Done, Do
  <2> QED
    BY <1>1, <2>1, FreeOK, ToolStepKeeps
<1> QED
  BY <1>2, <1>3

\* A page tool that needs a page may find none.
LEMMA OnPageSame ==
    ASSUME SessionInv, NEW c \in Clients, NEW name \in Starters, Ready(c, name),
           \/ sess' = Session(c)
           \/ Session(c).tabs # 0 /\ sess' = Current(Session(c))
    PROVE  SameSession
<1>1. sess.ctx # 0 /\ SessionOK
  BY ReadyHas DEF SessionInv
<1> QED
  BY <1>1, SessionOf, CurrentOf DEF SameSession

LEMMA PagesKeep ==
    ASSUME SessionInv, NEW c \in Clients,
           \/ Goto(c) \/ NewTab(c) \/ SelectTab(c) \/ CloseTab(c)
           \/ Asks(c, "cookie_set", "add") \/ Asks(c, "cookie_delete", "read")
           \/ Asks(c, "cookie_clear", "clear")
           \/ Asks(c, "cookie_list", "look") \/ Asks(c, "read_page_info", "look")
    PROVE  SessionInv'
<1> USE DEF events
<1>1. CASE Goto(c)
  <2>1. /\ Ready(c, "navigate") /\ "navigate" \in Starters
        /\ \/ sess' = Session(c)
           \/ Session(c).tabs # 0 /\ sess' = Current(Session(c))
    BY <1>1 DEF Goto, OnPage, Starters
  <2>2. SameSession
    BY <2>1, OnPageSame
  <2> QED
    BY <1>1, <2>1, <2>2, WaitKeeps DEF Goto, OnPage
<1>2. CASE NewTab(c)
  <2>1. Ready(c, "tabs_new") /\ "tabs_new" \in Starters /\ sess' = Session(c)
    BY <1>2 DEF NewTab, Starters
  <2>2. SameSession
    BY <2>1, OnPageSame
  <2> QED
    BY <1>2, <2>1, <2>2, WaitKeeps DEF NewTab
<1>3. CASE SelectTab(c)
  <2>1. Ready(c, "tabs_select") /\ "tabs_select" \in Starters
    BY <1>3 DEF SelectTab, Starters
  <2>2. SameSession
    <3>1. /\ sess.ctx # 0
          /\ Session(c) \in Sessions /\ Session(c).made = sess.made
          /\ Session(c).ctx = sess.ctx /\ Session(c).open = sess.open
      BY <2>1, ReadyHas, SessionOf DEF SessionInv
    <3>2. PICK s \in {Session(c), [Session(c) EXCEPT !.tab = tool[c].arg]} : sess' = s
      BY <1>3 DEF SelectTab
    <3> QED
      BY <2>1, <3>1, <3>2, ReadyHas DEF SameSession, Sessions, ToolOK
  <2> QED
    BY <1>3, <2>1, <2>2, WaitKeeps DEF SelectTab
<1>4. CASE CloseTab(c)
  <2>1. Ready(c, "tabs_close") /\ "tabs_close" \in Starters /\ sess' = Session(c)
    BY <1>4 DEF CloseTab, Starters
  <2>2. SameSession
    BY <2>1, OnPageSame
  <2> QED
    BY <1>4, <2>1, <2>2, WaitKeeps DEF CloseTab
<1>5. ASSUME NEW name, NEW pc, Asks(c, name, pc),
             <<name, pc>> \in {<<"cookie_set", "add">>, <<"cookie_delete", "read">>,
                <<"cookie_clear", "clear">>, <<"cookie_list", "look">>, <<"read_page_info", "look">>}
      PROVE  SessionInv'
  <2>1. /\ Ready(c, name) /\ name \in Starters
        /\ pc \in {"look", "read", "clear", "add"}
        /\ pc \in {"clear", "add"} => name # "cookie_delete"
        /\ \/ sess' = Session(c)
           \/ Session(c).tabs # 0 /\ sess' = Current(Session(c))
    BY <1>5 DEF Asks, OnPage, Starters
  <2>2. SameSession
    BY <2>1, OnPageSame
  <2>3. /\ Unlocked(c)
        /\ Await(c, pc) \/ Done(c)
        /\ UNCHANGED <<refs, buf, emitted, jar, network>>
    BY <1>5 DEF Asks, OnPage
  <2> QED
    BY <2>1, <2>2, <2>3, WaitKeeps
<1> QED
  BY <1>1, <1>2, <1>3, <1>4, <1>5

\* What a context answers it is open for, and the session is the one it is of.
LEMMA ReturnsTo ==
    ASSUME SessionInv, NEW c \in Clients, NEW name, NEW pc, Returns(c, name, pc),
           pc \in Awaits, pc = "page" => name \in PageTools
    PROVE  /\ sess.open # 0 /\ sess.open = sess.ctx /\ tool[c].ctx = sess.ctx
           /\ tool[c].name = name /\ tool[c].pc = pc
           /\ ToolOK(c) /\ DOMAIN tool = Clients
<1>1. ToolOK(c) /\ DOMAIN tool = Clients /\ sess.open \in {0, sess.ctx}
  BY DEF SessionInv, ToolsOK, SessionOK
<1> QED
  BY <1>1 DEF Returns, In, ToolOK, Waits, Holds, Awaits

LEMMA DoneKeeps ==
    ASSUME SessionInv, NEW c \in Clients, Done(c), UNCHANGED lock, SameSession,
           tool[c].name # "route_add" \/ tool[c].pc # "register",
           refs' \in {0, refs, sess.ctx}, UNCHANGED <<buf, emitted, jar, network>>
    PROVE  SessionInv'
<1>1. ToolMoves(c, Free) /\ tool'[c] = Free
  BY DEF ToolMoves, Done, Do, SessionInv, ToolsOK
<1> QED
  BY <1>1, FreeOK, ToolStepKeeps

LEMMA AnswersKeep ==
    ASSUME SessionInv, NEW c \in Clients,
           \/ navigate(c) \/ navigate_back(c) \/ snapshot(c) \/ PageTool(c)
           \/ TabIsNew(c) \/ TabIsClosed(c)
    PROVE  SessionInv'
<1>1. CASE navigate(c)
  BY <1>1, Unchanging, DoneKeeps DEF navigate, Returns, In, network
<1>2. CASE navigate_back(c)
  BY <1>2, Unchanging, DoneKeeps DEF navigate_back, Returns, In, events
<1>3. CASE snapshot(c)
  <2>1. tool[c].ctx = sess.ctx /\ tool[c].pc = "page"
    BY <1>3, ReturnsTo DEF snapshot, PageTools, Awaits
  <2> QED
    BY <1>3, <2>1, Unchanging, DoneKeeps DEF snapshot, events
<1>4. CASE PageTool(c)
  BY <1>4, Unchanging, DoneKeeps DEF PageTool, Returns, In, events
<1>5. CASE TabIsNew(c)
  <2>1. sess.open # 0 /\ sess.open = sess.ctx /\ tool[c].pc = "tab" /\ sess \in Sessions
    BY <1>5, ReturnsTo DEF TabIsNew, Awaits, SessionInv, SessionOK
  <2> DEFINE tabs == sess.tabs + 1
  <2>2. tabs \in Nat /\ sess.tabs \in Nat /\ sess' = [sess EXCEPT !.tabs = tabs, !.tab = sess.tabs]
    BY <1>5, <2>1 DEF TabIsNew, Sessions
  <2>3. SameSession
    BY <2>1, <2>2 DEF SameSession, Sessions
  <2> QED
    BY <1>5, <2>1, <2>3, DoneKeeps DEF TabIsNew, events
<1>6. CASE TabIsClosed(c)
  <2>1. sess.open # 0 /\ sess.open = sess.ctx /\ tool[c].pc = "tab" /\ sess \in Sessions
    BY <1>6, ReturnsTo DEF TabIsClosed, Awaits, SessionInv, SessionOK
  <2> DEFINE left == sess.tabs - 1
             tab == IF left = 0 THEN 0 ELSE AtMost(sess.tab, left - 1)
  <2>2. left \in Nat /\ tab \in Nat /\ sess' = [sess EXCEPT !.tabs = left, !.tab = tab]
    BY <1>6, <2>1 DEF TabIsClosed, Sessions, AtMost
  <2>3. SameSession
    BY <2>1, <2>2 DEF SameSession, Sessions
  <2> QED
    BY <1>6, <2>1, <2>3, DoneKeeps DEF TabIsClosed, events
<1> QED
  BY <1>1, <1>2, <1>3, <1>4, <1>5, <1>6

\* A tool that ends in an error leaves what it has done so far; a route is then
\* one the browser did not take.
LEMMA RaisesKeeps ==
    ASSUME SessionInv, NEW c \in Clients, Raises(c)
    PROVE  SessionInv'
<1>1. /\ tool' = [tool EXCEPT ![c] = Free] /\ DOMAIN tool = Clients
      /\ UNCHANGED <<sess, lock, refs, buf, emitted, routes, mocked, jar>>
  BY DEF Raises, Done, Do, SessionInv, ToolsOK, events
<1>2. ToolMoves(c, Free) /\ tool'[c] = Free
  BY <1>1 DEF ToolMoves
<1>3. ToolsOK' /\ SameSession
  BY <1>1, <1>2, FreeOK, OthersKeep, Unchanging DEF SessionInv
<1>4. RoutesMove
  <2> SUFFICES ASSUME NEW r \in routes, Registering(r)
               PROVE  Registering(r)' \/ r \in unmocked'
    BY <1>1 DEF RoutesMove, Raises
  <2>1. CASE In(c, "route_add", "register") /\ tool[c].arg = r
    BY <2>1 DEF Raises
  <2>2. CASE ~(In(c, "route_add", "register") /\ tool[c].arg = r)
    BY <1>1, <2>2 DEF Registering, In
  <2> QED
    BY <2>1, <2>2
<1> QED
  BY <1>1, <1>3, <1>4, SameKeeps DEF SessionInv, CookiesOK

\* Tools that start on the session there is, if there is one.
LEMMA BeginsKeep ==
    ASSUME SessionInv, NEW c \in Clients,
           \/ \E name \in PageTools : OnCurrentPage(c, name)
           \/ \E p : route_remove(c, p)
           \/ storage_state_restore(c)
    PROVE  SessionInv'
<1>0. DOMAIN tool = Clients /\ sess \in Sessions /\ SessionOK
  BY DEF SessionInv, ToolsOK, SessionOK
<1> USE DEF events
<1>i. ASSUME UNCHANGED <<tool, lock, refs, buf, emitted, jar, network>>, SameSession
      PROVE  SessionInv'
  <2>1. ToolsOK'
    BY <1>i DEF SessionInv, ToolsOK, ToolOK, Holds, Waits, SameSession
  <2>2. RoutesMove
    BY <1>i DEF RoutesMove, network, Registering, In
  <2> QED
    BY <1>i, <2>1, <2>2, SameKeeps DEF SessionInv, CookiesOK, network
<1>1. ASSUME NEW name \in PageTools, OnCurrentPage(c, name) PROVE SessionInv'
  <2>1. CASE sess.ctx = 0 \/ sess.tabs = 0
    BY <1>1, <1>i, <2>1, Unchanging DEF OnCurrentPage
  <2>2. CASE ~(sess.ctx = 0 \/ sess.tabs = 0)
    <3> DEFINE t == [Free EXCEPT !.name = name, !.pc = "page", !.ctx = sess.ctx]
    <3>1. ToolMoves(c, t) /\ tool'[c] = t /\ tool[c].pc = "free" /\ sess' = Current(sess)
      BY <1>0, <1>1, <2>2 DEF OnCurrentPage, Takes, ToolMoves, Do
    <3>2. /\ DOMAIN t = Fields /\ t.name = name /\ t.pc = "page" /\ t.ctx = sess.ctx
          /\ t.profile = None
      BY FreeFields DEF Fields
    <3>3. SameSession
      BY <1>0, <2>2, <3>1, CurrentOf DEF SameSession
    <3>4. ToolOK(c)'
      BY <1>0, <2>2, <3>1, <3>2 DEF ToolOK, Holds, Waits, PageTools, Sessions
    <3> QED
      BY <1>1, <3>1, <3>3, <3>4, ToolStepKeeps DEF OnCurrentPage
  <2> QED
    BY <2>1, <2>2
<1>2. ASSUME NEW p, route_remove(c, p) PROVE SessionInv'
  <2>1. CASE UNCHANGED tool
    BY <1>2, <1>i, <2>1, Unchanging DEF route_remove
  <2> DEFINE t == [Free EXCEPT !.name = "route_remove", !.pc = "unroute", !.arg = p,
                               !.ctx = sess.ctx, !.keep = routes]
  <2>2. CASE Do(c, t)
    <3>1. ToolMoves(c, t) /\ tool'[c] = t /\ tool[c].pc = "free"
      BY <1>0, <1>2, <2>2 DEF route_remove, Takes, ToolMoves, Do
    <3>2. /\ DOMAIN t = Fields /\ t.name = "route_remove" /\ t.pc = "unroute" /\ t.ctx = sess.ctx
          /\ t.profile = None
      BY FreeFields DEF Fields
    <3>3. ToolOK(c)'
      BY <1>0, <3>1, <3>2 DEF ToolOK, Holds, Waits, Awaits, Sessions
    <3> QED
      BY <1>2, <3>1, <3>3, Unchanging, ToolStepKeeps DEF route_remove
  <2> QED
    BY <1>2, <2>1, <2>2 DEF route_remove
<1>3. CASE storage_state_restore(c)
  <2>1. CASE sess.ctx = 0
    BY <1>3, <1>i, <2>1, Unchanging DEF storage_state_restore
  <2>2. CASE sess.ctx # 0
    <3> DEFINE t == [Free EXCEPT !.name = "storage_state_restore", !.pc = "clear", !.ctx = sess.ctx]
    <3>1. ToolMoves(c, t) /\ tool'[c] = t /\ tool[c].pc = "free"
      BY <1>0, <1>3, <2>2 DEF storage_state_restore, Takes, ToolMoves, Do
    <3>2. /\ DOMAIN t = Fields /\ t.name = "storage_state_restore" /\ t.pc = "clear"
          /\ t.ctx = sess.ctx /\ t.profile = None
      BY FreeFields DEF Fields
    <3>3. ToolOK(c)'
      BY <1>0, <2>2, <3>1, <3>2 DEF ToolOK, Holds, Waits, Awaits, Sessions
    <3> QED
      BY <1>3, <3>1, <3>3, Unchanging, ToolStepKeeps DEF storage_state_restore
  <2> QED
    BY <2>1, <2>2
<1> QED
  BY <1>1, <1>2, <1>3

-----------------------------------------------------------------------------
(* Steps that change what the session has: cookies and routes *)

\* Cookies that are put in, kept or cleared are of the context that was asked.
LEMMA CookiesKeep ==
    ASSUME SessionInv, NEW c \in Clients,
           AddCookies(c) \/ ReadCookies(c) \/ ClearCookies(c) \/ Restored(c)
    PROVE  SessionInv'
<1>0. sess' = sess /\ lock' = lock /\ UNCHANGED <<refs, buf, emitted, network>> /\ SameSession
  BY Unchanging DEF AddCookies, ReadCookies, ClearCookies, Restored, events
<1>1. PICK name, pc : Returns(c, name, pc) /\ pc \in {"add", "read", "clear", "restore"}
                      /\ (pc = "read" => name = "cookie_delete")
  BY DEF AddCookies, ReadCookies, ClearCookies, Restored
<1>2. /\ sess.open # 0 /\ sess.open = sess.ctx /\ tool[c].ctx = sess.ctx
      /\ tool[c].name = name /\ tool[c].pc = pc /\ ToolOK(c) /\ DOMAIN tool = Clients
      /\ \A k \in jar : k.ctx = sess.ctx
  BY <1>1, ReturnsTo DEF Awaits, SessionInv, CookiesOK
<1>3. ASSUME NEW t, ToolMoves(c, t), ToolOK(c)', \A k \in jar' : k.ctx = sess.ctx
      PROVE  SessionInv'
  <2>1. ToolsOK'
    BY <1>0, <1>3, OthersKeep DEF SessionInv
  <2>2. RoutesMove
    BY <1>0, <1>1, <1>2, <1>3, RegisteringStays DEF RoutesMove, SessionInv, network
  <2> QED
    BY <1>0, <1>3, <2>1, <2>2, SameKeeps
<1>4. CASE AddCookies(c) \/ Restored(c)
  <2>1. PICK set : Put(c, set) /\ \A k \in set : k.ctx = sess.ctx
    <3>1. CASE Restored(c)
      BY <1>2, <3>1 DEF Restored
    <3>2. CASE Returns(c, "cookie_set", "add") /\ Put(c, {[name |-> tool[c].arg, ctx |-> tool[c].ctx]})
      BY <1>2, <3>2
    <3>3. CASE Returns(c, "cookie_delete", "add") /\ Put(c, tool[c].keep)
      BY <1>2, <3>3 DEF ToolOK, Returns, In
    <3> QED
      BY <1>4, <3>1, <3>2, <3>3 DEF AddCookies
  <2>2. ToolMoves(c, Free) /\ tool'[c] = Free
    BY <1>0, <1>2, <2>1 DEF Put, Done, Do, ToolMoves
  <2>3. \A k \in jar' : k.ctx = sess.ctx
    BY <1>2, <2>1 DEF Put
  <2> QED
    BY <1>3, <2>2, <2>3, FreeOK
<1>5. CASE ReadCookies(c)
  <2> DEFINE t == [tool[c] EXCEPT !.pc = "clear", !.keep = {k \in jar : k.name # tool[c].arg}]
  <2>1. ToolMoves(c, t) /\ tool'[c] = t /\ jar' = jar
    BY <1>0, <1>2, <1>5 DEF ReadCookies, Do, ToolMoves
  <2>2. /\ DOMAIN t = Fields /\ t.name = name /\ t.pc = "clear" /\ t.ctx = sess.ctx
        /\ t.profile = tool[c].profile /\ t.keep \subseteq jar /\ t.arg = tool[c].arg
    BY <1>2 DEF ToolOK, Fields
  <2>3. ToolOK(c)'
    BY <1>0, <1>2, <2>1, <2>2 DEF ToolOK, Holds, Waits, Awaits
  <2> QED
    BY <1>2, <1>3, <2>1, <2>3
<1>6. CASE ClearCookies(c)
  <2>1. jar' = {}
    BY <1>6 DEF ClearCookies
  <2>2. CASE Done(c)
    <3>1. ToolMoves(c, Free) /\ tool'[c] = Free
      BY <1>0, <1>2, <2>2 DEF Done, Do, ToolMoves
    <3> QED
      BY <1>3, <2>1, <3>1, FreeOK
  <2>3. ASSUME NEW pc2 \in {"restore", "add"}, Await(c, pc2) PROVE SessionInv'
    <3> DEFINE t == [tool[c] EXCEPT !.pc = pc2, !.ctx = sess.ctx]
    <3>1. ToolMoves(c, t) /\ tool'[c] = t
      BY <1>0, <1>2, <2>3 DEF Await, Do, ToolMoves
    <3>2. tool[c].name = "cookie_delete" => \A k \in tool[c].keep : k.ctx = sess.ctx
      BY <1>2, <1>6 DEF ClearCookies, Returns, In, ToolOK
    <3>3. ToolOK(c)'
      BY <1>2, <3>1, <3>2, AwaitOK
    <3> QED
      BY <1>3, <2>1, <3>1, <3>3
  <2> QED
    BY <1>6, <2>2, <2>3 DEF ClearCookies
<1> QED
  BY <1>4, <1>5, <1>6

\* A route is listed, and then the browser takes it; with a pattern it is gone
\* from both, even if it was not listed when the removal began.
LEMMA RoutesKeep ==
    ASSUME SessionInv, NEW c \in Clients,
           route_add(c) \/ Registered(c) \/ Unrouted(c)
    PROVE  SessionInv'
<1>0. ToolOK(c) /\ DOMAIN tool = Clients /\ SessionOK /\ EventsOK /\ CookiesOK /\ RoutesOK
  BY DEF SessionInv, ToolsOK
<1> USE DEF events
<1>1. CASE route_add(c)
  <2>1. Ready(c, "route_add") /\ "route_add" \in Starters /\ sess' = Session(c)
    BY <1>1 DEF route_add, Starters
  <2>2. /\ sess.ctx # 0 /\ tool[c].name = "route_add" /\ tool[c].pc # "register"
        /\ lock' = lock \/ (lock = c /\ lock' = None)
    BY <1>1, <2>1, ReadyHas DEF route_add
  <2>3. SameSession
    BY <2>1, OnPageSame
  <2>4. CASE tool[c].arg \in routes
    BY <1>1, <2>1, <2>3, <2>4, WaitKeeps DEF route_add, network
  <2>5. CASE tool[c].arg \notin routes
    <3> DEFINE t == [tool[c] EXCEPT !.pc = "register", !.ctx = sess.ctx]
    <3>1. /\ ToolMoves(c, t) /\ tool'[c] = t /\ routes' = routes \cup {tool[c].arg}
          /\ UNCHANGED <<refs, buf, emitted, mocked, unmocked, jar>>
      BY <1>0, <1>1, <2>2, <2>5 DEF route_add, Await, Do, ToolMoves
    <3>2. ToolOK(c)'
      BY <1>0, <2>2, <3>1, AwaitOK
    <3>3. ToolsOK'
      BY <2>3, <3>1, <3>2, OthersKeep DEF SessionInv, SameSession
    <3>4. In(c, "route_add", "register")' /\ tool'[c].arg = tool[c].arg
      BY <1>0, <2>2, <3>1 DEF In, ToolOK, Fields
    <3>5. RoutesOK'
      <4>1. Registering(tool[c].arg)'
        BY <3>4 DEF Registering
      <4>2. \A r : Registering(r) => Registering(r)'
        BY <2>2, <3>1, RegisteringStays DEF SessionInv
      <4> QED
        BY <1>0, <2>3, <3>1, <4>1, <4>2 DEF RoutesOK, SameSession
    <3>6. SessionOK' /\ EventsOK' /\ CookiesOK'
      BY <1>0, <2>2, <2>3, <3>1 DEF SessionOK, EventsOK, CookiesOK, SameSession
    <3> QED
      BY <3>3, <3>5, <3>6 DEF SessionInv
  <2> QED
    BY <2>4, <2>5
<1>2. CASE Registered(c)
  <2>1. /\ ToolMoves(c, Free) /\ tool'[c] = Free /\ sess' = sess
        /\ mocked' = mocked \cup {tool[c].arg}
        /\ UNCHANGED <<refs, buf, emitted, routes, unmocked, jar>>
    BY <1>0, <1>2 DEF Registered, Done, Do, ToolMoves
  <2>2. ToolsOK' /\ SameSession
    BY <2>1, FreeOK, OthersKeep, Unchanging DEF SessionInv
  <2>3. RoutesMove
    <3> SUFFICES ASSUME NEW r \in routes, Registering(r)
                 PROVE  Registering(r)' \/ r \in mocked'
      BY <2>1 DEF RoutesMove
    <3>1. CASE tool[c].arg = r
      BY <2>1, <3>1
    <3>2. CASE tool[c].arg # r
      BY <1>0, <2>1, <3>2 DEF Registering, In, ToolMoves
    <3> QED
      BY <3>1, <3>2
  <2> QED
    BY <1>0, <2>1, <2>2, <2>3, SameKeeps DEF CookiesOK
<1>3. CASE Unrouted(c)
  <2> DEFINE p == tool[c].arg
             patterns == {r.pattern : r \in OfPattern(p, tool[c].keep)}
  <2>1. /\ ToolMoves(c, Free) /\ tool'[c] = Free /\ sess' = sess
        /\ routes' = routes \ OfPattern(p, routes)
        /\ mocked' = {r \in mocked : r.pattern \notin patterns} \/ mocked' = mocked
        /\ UNCHANGED <<refs, buf, emitted, unmocked, jar>>
        /\ tool[c].name = "route_remove"
    BY <1>0, <1>3 DEF Unrouted, Done, Do, ToolMoves, In
  <2>2. ToolsOK' /\ SameSession
    BY <2>1, FreeOK, OthersKeep, Unchanging DEF SessionInv
  <2>3. \A r : Registering(r) => Registering(r)'
    BY <2>1, RegisteringStays DEF SessionInv
  <2>4. \A r \in routes' : r \in routes /\ p # None /\ r.pattern # p
    BY <2>1 DEF OfPattern
  <2>5. p # None => \A q \in patterns : q = p
    BY DEF OfPattern
  <2>6. RoutesMove
    BY <2>1, <2>3, <2>4, <2>5 DEF RoutesMove
  <2> QED
    BY <1>0, <2>1, <2>2, <2>6, SameKeeps DEF CookiesOK
<1> QED
  BY <1>1, <1>2, <1>3

-----------------------------------------------------------------------------
(* Steps that end a session or begin one *)

\* Who has the lock moves, whatever becomes of the session: the others wait for
\* what they asked.
LEMMA HolderMoves ==
    ASSUME ToolsOK, NEW c \in Clients, lock = c, NEW t, tool' = [tool EXCEPT ![c] = t],
           ToolOK(c)'
    PROVE  ToolsOK'
<1>1. DOMAIN tool' = Clients
  BY DEF ToolsOK
<1>2. ASSUME NEW d \in Clients, d # c PROVE ToolOK(d)'
  <2>1. tool'[d] = tool[d] /\ ToolOK(d) /\ ~ Holds(tool[d])
    BY <1>2 DEF ToolsOK, ToolOK
  <2> QED
    BY <2>1 DEF ToolOK, Holds, Waits
<1> QED
  BY <1>1, <1>2 DEF ToolsOK

\* The next session begins with nothing of the last one.
LEMMA LaunchKeeps ==
    ASSUME SessionInv, NEW c \in Clients, Launch(c)
    PROVE  SessionInv'
<1> DEFINE n == sess.made + 1
           t == [tool[c] EXCEPT !.pc = "page"]
<1>1. /\ ToolsOK /\ ToolOK(c) /\ DOMAIN tool = Clients /\ sess \in Sessions /\ n \in Nat
      /\ SessionOK /\ EventsOK
      /\ tool[c].pc = "start" /\ lock = c /\ sess.ctx = 0 /\ tool[c].name \notin PageTools
  BY DEF SessionInv, SessionOK, ToolsOK, ToolOK, Sessions, Launch, Holds
<1>2. /\ sess' = [sess EXCEPT !.made = n, !.ctx = n, !.open = n, !.tabs = 0]
      /\ \A k \in jar' : k.ctx = n
      /\ tool' = [tool EXCEPT ![c] = t]
      /\ UNCHANGED <<lock, refs, buf, emitted, routes>>
  BY DEF Launch, Do, events
<1>3. sess' \in Sessions /\ sess'.made = n /\ sess'.ctx = n /\ sess'.open = n /\ n # 0
  <2>1. n \in Nat /\ n # 0
    BY <1>1 DEF Sessions
  <2> HIDE DEF n
  <2> QED
    BY <1>1, <1>2, <2>1 DEF Sessions
<1>4. /\ DOMAIN t = Fields /\ t.pc = "page" /\ t.name = tool[c].name /\ t.ctx = tool[c].ctx
      /\ t.profile = tool[c].profile /\ t.arg = tool[c].arg /\ tool'[c] = t
  BY <1>1, <1>2 DEF ToolOK, Fields
<1>5. ToolOK(c)'
  BY <1>1, <1>2, <1>3, <1>4 DEF ToolOK, Holds, Waits
<1>6. ToolsOK'
  BY <1>1, <1>2, <1>5, HolderMoves
<1>7. SessionOK'
  BY <1>1, <1>2, <1>3 DEF SessionOK
<1>8. EventsOK'
  BY <1>1, <1>2, <1>3 DEF EventsOK
<1>9. CookiesOK' /\ RoutesOK'
  BY <1>1, <1>2, <1>3 DEF CookiesOK, RoutesOK, SessionOK
<1> QED
  BY <1>6, <1>7, <1>8, <1>9 DEF SessionInv

LEMMA ClosingKeeps ==
    ASSUME SessionInv, NEW c \in Clients, ContextClosed(c) \/ CloseFails(c) \/ Closed(c)
    PROVE  SessionInv'
<1>1. /\ ToolsOK /\ ToolOK(c) /\ DOMAIN tool = Clients /\ sess \in Sessions
      /\ SessionOK /\ EventsOK /\ CookiesOK /\ RoutesOK
      /\ tool[c].pc \in {"closing", "closed"} /\ lock = c /\ tool[c].name = "close"
  BY DEF SessionInv, SessionOK, ToolsOK, ToolOK, ContextClosed, CloseFails, Closed, Holds, In
<1> USE DEF events, network
<1>2. CASE ContextClosed(c)
  <2> DEFINE t == [tool[c] EXCEPT !.pc = "closed", !.ctx = sess.ctx]
  <2>1. /\ sess' = [sess EXCEPT !.open = 0] /\ tool' = [tool EXCEPT ![c] = t]
        /\ UNCHANGED <<lock, refs, buf, emitted, routes>>
    BY <1>2 DEF ContextClosed, Await, Do
  <2>2. sess' \in Sessions /\ sess'.made = sess.made /\ sess'.ctx = sess.ctx /\ sess'.open = 0
        /\ sess'.tab = sess.tab
    BY <1>1, <2>1 DEF Sessions
  <2>3. /\ DOMAIN t = Fields /\ t.pc = "closed" /\ t.name = "close" /\ t.ctx \in Nat
        /\ t.profile = tool[c].profile /\ t.arg = tool[c].arg /\ tool'[c] = t
    BY <1>1, <2>1 DEF ToolOK, Fields, Sessions
  <2>4. ToolOK(c)'
    BY <1>1, <2>1, <2>2, <2>3 DEF ToolOK, Holds, Waits, Awaits
  <2>5. ToolsOK'
    BY <1>1, <2>1, <2>4, HolderMoves
  <2>6. SessionOK' /\ EventsOK' /\ CookiesOK' /\ RoutesOK'
    BY <1>1, <2>1, <2>2 DEF SessionOK, EventsOK, CookiesOK, RoutesOK
  <2> QED
    BY <2>5, <2>6 DEF SessionInv
<1>3. CASE CloseFails(c)
  <2>1. PICK open \in {0, sess.open} : sess' = [sess EXCEPT !.open = open]
    BY <1>3 DEF CloseFails
  <2>2. /\ tool' = [tool EXCEPT ![c] = Free] /\ tool'[c] = Free /\ ToolMoves(c, Free)
        /\ UNCHANGED <<refs, buf, emitted, routes, mocked, unmocked, jar>>
    BY <1>1, <1>3 DEF CloseFails, Done, Do, ToolMoves
  <2>3. sess' \in Sessions /\ sess'.made = sess.made /\ sess'.ctx = sess.ctx
        /\ sess'.open \in {0, sess.open} /\ sess'.tab = sess.tab
    BY <1>1, <2>1 DEF Sessions
  <2>4. ToolsOK'
    BY <1>1, <2>2, FreeOK, HolderMoves
  <2>5. \A r : Registering(r) => Registering(r)'
    BY <1>1, <2>2, RegisteringStays
  <2>6. SessionOK' /\ EventsOK' /\ CookiesOK' /\ RoutesOK'
    BY <1>1, <2>2, <2>3, <2>5 DEF SessionOK, EventsOK, CookiesOK, RoutesOK
  <2> QED
    BY <2>4, <2>6 DEF SessionInv
<1>4. CASE Closed(c)
  <2>1. /\ sess' = [sess EXCEPT !.ctx = 0, !.tabs = 0, !.tab = 0] /\ sess.open = 0
        /\ buf' = [b \in Buffers |-> <<>>] /\ routes' = {} /\ refs' = 0 /\ emitted' = emitted
        /\ tool' = [tool EXCEPT ![c] = Free] /\ tool'[c] = Free
    BY <1>1, <1>4 DEF Closed, Forget, Done, Do, In, ToolOK
  <2>2. sess' \in Sessions /\ sess'.made = sess.made /\ sess'.ctx = 0 /\ sess'.open = 0
        /\ sess'.tab = 0
    BY <1>1, <2>1 DEF Sessions
  <2>3. ToolsOK'
    BY <1>1, <2>1, FreeOK, HolderMoves
  <2>4. SessionOK' /\ CookiesOK' /\ RoutesOK'
    BY <1>1, <2>1, <2>2 DEF SessionOK, CookiesOK, RoutesOK, Sessions
  <2>5. EventsOK'
    BY <1>1, <2>1, <2>2, BrowserAssumption DEF EventsOK
  <2> QED
    BY <2>3, <2>4, <2>5 DEF SessionInv
<1> QED
  BY <1>2, <1>3, <1>4

LEMMA DiesKeeps == SessionInv /\ Dies => SessionInv'
<1> SUFFICES ASSUME SessionInv, Dies PROVE SessionInv'
  OBVIOUS
<1>1. /\ sess \in Sessions /\ sess' = [sess EXCEPT !.open = 0]
      /\ UNCHANGED <<lock, refs, buf, emitted, routes, tool>>
  BY DEF SessionInv, SessionOK, Dies, events, network
<1>2. sess' \in Sessions /\ sess'.made = sess.made /\ sess'.ctx = sess.ctx /\ sess'.open = 0
      /\ sess'.tab = sess.tab
  BY <1>1 DEF Sessions
<1>3. ToolsOK'
  BY <1>1, <1>2 DEF SessionInv, ToolsOK, ToolOK, Holds, Waits
<1> QED
  BY <1>1, <1>2, <1>3 DEF SessionInv, SessionOK, EventsOK, CookiesOK, RoutesOK

-----------------------------------------------------------------------------
(* Events *)

LEMMA AppendedTail ==
    ASSUME NEW E, NEW list \in Seq(E), NEW event \in E, NEW n \in {0, 1}, n <= Len(list)
    PROVE  LET new == SubSeq(Append(list, event), n + 1, Len(list) + 1) IN
           /\ new \in Seq(E) /\ Len(new) = Len(list) + 1 - n
           /\ \A i \in 1 .. Len(new) : new[i] = IF i = Len(new) THEN event ELSE list[i + n]
  OBVIOUS

\* A buffer that is full loses its first event when the next one comes.
Dropped(list) == IF Len(list) = MaxEvents THEN 1 ELSE 0

LEMMA TrimmedIs ==
    ASSUME NEW E, NEW list \in Seq(E), NEW event \in E, Len(list) <= MaxEvents, NEW m \in Nat
    PROVE  LET t == Trimmed(Append(list, event), m) IN
           /\ t.list \in Seq(E) /\ Len(t.list) = Len(list) + 1 - Dropped(list)
           /\ \A i \in 1 .. Len(t.list) :
                t.list[i] = IF i = Len(t.list) THEN event ELSE list[i + Dropped(list)]
           /\ t.mark = IF m > Dropped(list) THEN m - Dropped(list) ELSE 0
<1> DEFINE n == Dropped(list)
<1>1. n \in {0, 1} /\ n <= Len(list) /\ Len(list) \in Nat /\ MaxEvents \in Nat \ {0}
  BY BrowserAssumption DEF Dropped
<1>2. Len(Append(list, event)) = Len(list) + 1
  OBVIOUS
<1>3. (IF Len(Append(list, event)) > MaxEvents THEN Len(Append(list, event)) - MaxEvents ELSE 0) = n
  BY <1>1, <1>2 DEF Dropped
<1>4. Trimmed(Append(list, event), m) =
        [list |-> SubSeq(Append(list, event), n + 1, Len(list) + 1),
         mark |-> IF m > n THEN m - n ELSE 0]
  BY <1>2, <1>3 DEF Trimmed
<1> HIDE DEF n
<1>5. LET new == SubSeq(Append(list, event), n + 1, Len(list) + 1) IN
      /\ new \in Seq(E) /\ Len(new) = Len(list) + 1 - n
      /\ \A i \in 1 .. Len(new) : new[i] = IF i = Len(new) THEN event ELSE list[i + n]
  BY <1>1, AppendedTail
<1>6. /\ Trimmed(Append(list, event), m).list = SubSeq(Append(list, event), n + 1, Len(list) + 1)
      /\ Trimmed(Append(list, event), m).mark = IF m > n THEN m - n ELSE 0
  <2> DEFINE new == SubSeq(Append(list, event), n + 1, Len(list) + 1)
             left == IF m > n THEN m - n ELSE 0
  <2>1. Trimmed(Append(list, event), m) = [list |-> new, mark |-> left]
    BY <1>4
  <2> HIDE DEF new, left
  <2>2. Trimmed(Append(list, event), m).list = new /\ Trimmed(Append(list, event), m).mark = left
    BY <2>1
  <2> QED
    BY <2>2 DEF new, left
<1>7. LET t == Trimmed(Append(list, event), m) IN
      /\ t.list \in Seq(E) /\ Len(t.list) = Len(list) + 1 - n
      /\ \A i \in 1 .. Len(t.list) : t.list[i] = IF i = Len(t.list) THEN event ELSE list[i + n]
      /\ t.mark = IF m > n THEN m - n ELSE 0
  BY <1>5, <1>6
<1> QED
  BY <1>7 DEF n

\* What a buffer is, with what came in since the last navigation at its end.
EmitKept(b) ==
    /\ buf' \in [Buffers -> Seq(Nat \X Nat)]
    /\ \A x \in Buffers \ {b} : buf'[x] = buf[x]
    /\ Len(buf'[b]) = Len(buf[b]) + 1 - Dropped(buf[b])
    /\ \A i \in 1 .. Len(buf'[b]) :
         buf'[b][i] = IF i = Len(buf'[b]) THEN <<sess.open, emitted'>> ELSE buf[b][i + Dropped(buf[b])]

LEMMA EmitBuffers ==
    ASSUME SessionInv, NEW b \in Buffers, Emit(b)
    PROVE  EmitKept(b)
<1> DEFINE event == <<sess.open, emitted'>>
<1>1. /\ buf \in [Buffers -> Seq(Nat \X Nat)] /\ Len(buf[b]) <= MaxEvents
      /\ event \in Nat \X Nat
  BY DEF SessionInv, EventsOK, SessionOK, Sessions, Emit
<1>2. buf' = [buf EXCEPT ![b] = Trimmed(Append(buf[b], event), mark[b]).list]
  BY DEF Emit
<1>3. Trimmed(Append(buf[b], event), mark[b]).list = Trimmed(Append(buf[b], event), 0).list
  BY DEF Trimmed
<1> HIDE DEF event
<1>4. buf[b] \in Seq(Nat \X Nat) /\ 0 \in Nat
  BY <1>1
<1>6. ASSUME NEW e \in Nat \X Nat
      PROVE  LET new == Trimmed(Append(buf[b], e), 0).list IN
             /\ new \in Seq(Nat \X Nat) /\ Len(new) = Len(buf[b]) + 1 - Dropped(buf[b])
             /\ \A i \in 1 .. Len(new) :
                  new[i] = IF i = Len(new) THEN e ELSE buf[b][i + Dropped(buf[b])]
  <2> DEFINE list == buf[b]
             Pairs == Nat \X Nat
  <2>1. list \in Seq(Pairs) /\ Len(list) <= MaxEvents /\ 0 \in Nat /\ e \in Pairs
    BY <1>1, <1>4
  <2> HIDE DEF list, Pairs
  <2>2. LET t == Trimmed(Append(list, e), 0) IN
        /\ t.list \in Seq(Pairs) /\ Len(t.list) = Len(list) + 1 - Dropped(list)
        /\ \A i \in 1 .. Len(t.list) :
             t.list[i] = IF i = Len(t.list) THEN e ELSE list[i + Dropped(list)]
        /\ t.mark = IF 0 > Dropped(list) THEN 0 - Dropped(list) ELSE 0
    BY <2>1, TrimmedIs
  <2> QED
    BY <2>2 DEF list, Pairs
<1>5. buf' = [buf EXCEPT ![b] = Trimmed(Append(buf[b], event), 0).list]
  BY <1>2, <1>3
<1> QED
  BY <1>1, <1>6, <1>5 DEF EmitKept, event

\* An event is of the context that is open.
LEMMA EmitKeeps ==
    ASSUME SessionInv, NEW b \in Buffers, Emit(b)
    PROVE  SessionInv'
<1>1. EmitKept(b)
  BY EmitBuffers
<1>2. /\ UNCHANGED <<sess, lock, refs, routes, mocked, unmocked, jar, tool>>
      /\ sess.open # 0 /\ sess.open = sess.ctx /\ emitted' \in Nat
      /\ buf \in [Buffers -> Seq(Nat \X Nat)]
      /\ Len(buf[b]) <= MaxEvents /\ MaxEvents \in Nat \ {0}
  BY BrowserAssumption DEF SessionInv, SessionOK, EventsOK, Emit, network
<1>3. ToolsOK' /\ SessionOK' /\ CookiesOK' /\ RoutesOK'
  BY <1>2 DEF SessionInv, ToolsOK, ToolOK, Holds, Waits, SessionOK, CookiesOK, RoutesOK, Registering, In
<1>4. ASSUME NEW x \in Buffers
      PROVE  Len(buf'[x]) <= MaxEvents /\ \A i \in 1 .. Len(buf'[x]) : buf'[x][i][1] = sess.ctx
  <2>1. CASE x # b
    BY <1>1, <2>1 DEF EmitKept, SessionInv, EventsOK
  <2>2. CASE x = b
    <3>1. Len(buf[b]) \in Nat /\ Dropped(buf[b]) \in {0, 1} /\ Len(buf'[b]) <= MaxEvents
      BY <1>1, <1>2 DEF EmitKept, Dropped
    <3>2. ASSUME NEW i \in 1 .. Len(buf'[b]) PROVE buf'[b][i][1] = sess.ctx
      <4>1. CASE i = Len(buf'[b])
        BY <1>1, <1>2, <4>1 DEF EmitKept
      <4>2. CASE i # Len(buf'[b])
        <5>1. Len(buf'[b]) \in Nat /\ Len(buf'[b]) = Len(buf[b]) + 1 - Dropped(buf[b])
          BY <1>1, <3>1 DEF EmitKept
        <5>2. i + Dropped(buf[b]) \in 1 .. Len(buf[b])
          BY <3>1, <4>2, <5>1
        <5>3. buf'[b][i] = buf[b][i + Dropped(buf[b])]
          BY <1>1, <4>2 DEF EmitKept
        <5>4. \A j \in 1 .. Len(buf[b]) : buf[b][j][1] = sess.ctx
          BY DEF SessionInv, EventsOK
        <5>5. buf[b][i + Dropped(buf[b])][1] = sess.ctx
          BY <5>2, <5>4
        <5> QED
          BY <5>3, <5>5
      <4> QED
        BY <4>1, <4>2
    <3> QED
      BY <2>2, <3>1, <3>2
  <2> QED
    BY <2>1, <2>2
<1>5. EventsOK'
  BY <1>1, <1>2, <1>4 DEF EventsOK, EmitKept
<1> QED
  BY <1>3, <1>5 DEF SessionInv

-----------------------------------------------------------------------------
(* Every step *)

\* A tool that is about auth alone moves its own call.
LEMMA AuthToolKeeps ==
    ASSUME SessionInv, UNCHANGED <<sess, lock, refs, events, network, jar, tool>>
    PROVE  SessionInv'
<1>1. UNCHANGED <<buf, emitted, routes, mocked, unmocked>>
  BY DEF events, network
<1> QED
  BY <1>1 DEF SessionInv, ToolsOK, ToolOK, Holds, Waits, SessionOK, EventsOK, CookiesOK,
     RoutesOK, Registering, In

LEMMA NextKeepsSession ==
    ASSUME SessionInv, [Next]_vars
    PROVE  SessionInv'
<1>1. ASSUME NEW c \in Clients, Begins(c) PROVE SessionInv'
  <2>1. CASE AuthTool(c)
    BY <2>1, AuthToolKeeps DEF AuthTool
  <2> QED
    BY <1>1, <2>1, CallsKeep, BeginsKeep DEF Begins
<1>2. ASSUME NEW c \in Clients, ToolStep(c) PROVE SessionInv'
  BY <1>2, CallsKeep, LaunchKeeps, ClosingKeeps, PagesKeep, AnswersKeep, RaisesKeeps, RoutesKeep,
     CookiesKeep DEF ToolStep
<1>3. CASE AuthNext
  BY <1>3, AuthToolKeeps DEF AuthNext, browser, events, network
<1>4. CASE UNCHANGED vars
  BY <1>4, AuthToolKeeps DEF vars, browser, events, network
<1> QED
  BY <1>1, <1>2, <1>3, <1>4, EmitKeeps, DiesKeeps DEF Next

\* What the tools do about auth is what AuthSession knows of.
LEMMA NextMovesAuth ==
    ASSUME SessionInv, [Next]_vars
    PROVE  AuthMove \/ UNCHANGED auth
<1>1. ASSUME NEW c \in Clients, EnsureStarted(c) PROVE AuthMove
  <2>1. tool[c].profile \in Profiles \cup {None}
    BY DEF SessionInv, ToolsOK, ToolOK
  <2>2. Enter(c, "browser", tool[c].profile, TRUE)
    BY <1>1 DEF EnsureStarted, Enter
  <2> QED
    BY <2>1, <2>2 DEF AuthMove
<1>2. ASSUME NEW c \in Clients, Launch(c) \/ StartFails(c) PROVE AuthMove
  BY <1>2 DEF Launch, StartFails, Quit, AuthMove
<1>3. ASSUME NEW c \in Clients, AuthTool(c) PROVE AuthMove
  <2>1. PICK p \in Profiles :
          \/ \E purpose \in {"run", "save", "page"} : Ask(c, purpose, p)
          \/ capture_auth_session(c, p)
    BY <1>3 DEF AuthTool
  <2>2. ASSUME NEW purpose \in {"run", "save", "page"}, Ask(c, purpose, p) PROVE AuthMove
    <3>1. Enter(c, purpose, p, FALSE)
      BY <2>2 DEF Ask, Enter
    <3> QED
      BY <3>1 DEF AuthMove
  <2> QED
    BY <2>1, <2>2 DEF AuthMove
<1>4. ASSUME NEW c \in Clients, ToolStep(c) PROVE AuthMove \/ UNCHANGED auth
  BY <1>1, <1>2, <1>4 DEF ToolStep, CloseContext, ContextClosed, CloseFails, Closed, Goto, navigate,
     navigate_back, snapshot, PageTool, Raises, NewTab, TabIsNew, SelectTab, CloseTab, TabIsClosed,
     route_add, Registered, Unrouted, Asks, AddCookies, ReadCookies, ClearCookies, Restored
<1>5. ASSUME NEW c \in Clients, Begins(c) PROVE AuthMove \/ UNCHANGED auth
  BY <1>3, <1>5 DEF Begins, Starts, OnCurrentPage, route_remove, close, storage_state_restore
<1>6. CASE AuthNext
  BY <1>6 DEF AuthNext, AuthMove
<1> QED
  BY <1>4, <1>5, <1>6 DEF Next, Emit, Dies, vars

LEMMA NextKeepsAuth ==
    ASSUME AuthInv, SessionInv, [Next]_vars
    PROVE  AuthInv' /\ (SharedStep \/ UNCHANGED auth)
<1>1. CASE AuthMove
  BY <1>1, AuthMoveKeeps
<1>2. CASE UNCHANGED auth
  BY <1>2 DEF auth, AuthInv, CallOK, EntryOK, ServedOK
<1> QED
  BY <1>1, <1>2, NextMovesAuth

-----------------------------------------------------------------------------
(* What a buffer shows *)

\* The last k of a events are those after position at; one event more is last of
\* the next buffer, which has lost its first n.
SameTail(list, at, k, all, a) == \A i \in 1 .. k : list[at + i] = all[a - k + i]
Grown(next, list, n, event) ==
    \A i \in 1 .. Len(next) : next[i] = IF i = Len(next) THEN event ELSE list[i + n]

\* How many events of a buffer are past its mark.
Past(b) == Len(buf[b]) - mark[b]

\* They are the last ones since the navigation, as far as the buffer goes back.
TailOK(b) ==
    /\ mark[b] <= Len(buf[b])
    /\ Past(b) = AtMost(MaxEvents, Len(since[b]))
    /\ SameTail(buf[b], mark[b], Past(b), since[b], Len(since[b]))

ShownInv ==
    /\ mark \in [Buffers -> Nat] /\ since \in [Buffers -> Seq(Nat \X Nat)]
    /\ navigated \in Nat /\ navigated <= sess.made
    /\ sess.ctx # 0 /\ navigated = sess.ctx => \A b \in Buffers : TailOK(b)

LEMMA ShownKept ==
    ASSUME ShownInv, UNCHANGED <<buf, mark, since, navigated>>,
           sess'.ctx = sess.ctx, sess'.made = sess.made
    PROVE  ShownInv'
  BY DEF ShownInv, TailOK, Past

\* The numbers of it: k of len events are past the mark at, as many as there are
\* up to what a buffer holds; then one comes and n is dropped, and the mark is m.
Counts(len, at, k, a, n, m) ==
    /\ len \in Nat /\ at \in Nat /\ k \in Nat /\ a \in Nat /\ m \in Nat /\ n \in {0, 1}
    /\ k = len - at /\ k = AtMost(MaxEvents, a) /\ len <= MaxEvents
    /\ (n = 1 <=> len = MaxEvents)
    /\ m = IF at > n THEN at - n ELSE 0

LEMMA CountsMove ==
    ASSUME NEW len, NEW at, NEW k, NEW a, NEW n, NEW m, Counts(len, at, k, a, n, m)
    PROVE  LET k2 == len + 1 - n - m IN
           /\ k2 \in Nat /\ k2 # 0 /\ k2 = AtMost(MaxEvents, a + 1)
           /\ k <= a /\ k2 - 1 <= k /\ k2 <= a + 1 /\ m + n = at + k + 1 - k2
<1>1. MaxEvents \in Nat /\ MaxEvents # 0
  BY BrowserAssumption
<1>2. CASE n = 0
  BY <1>1, <1>2 DEF Counts, AtMost
<1>3. CASE n = 1 /\ at = 0
  BY <1>1, <1>3 DEF Counts, AtMost
<1>4. CASE n = 1 /\ at # 0
  BY <1>1, <1>4 DEF Counts, AtMost
<1> QED
  BY <1>2, <1>3, <1>4 DEF Counts

\* All of it, for one buffer.
LEMMA TailStays ==
    ASSUME NEW list, NEW next, NEW all, NEW later, NEW event,
           NEW len, NEW at, NEW k, NEW a, NEW n, NEW m, Counts(len, at, k, a, n, m),
           SameTail(list, at, k, all, a), Grown(next, list, n, event), Len(next) = len + 1 - n,
           later[a + 1] = event, \A i \in 1 .. a : later[i] = all[i]
    PROVE  SameTail(next, m, len + 1 - n - m, later, a + 1)
<1> DEFINE k2 == len + 1 - n - m
<1>1. /\ len \in Nat /\ at \in Nat /\ k \in Nat /\ a \in Nat /\ m \in Nat /\ n \in {0, 1}
      /\ k = len - at
  BY DEF Counts
<1>2. /\ k2 \in Nat /\ k2 # 0 /\ k <= a /\ k2 - 1 <= k /\ k2 <= a + 1 /\ m + n = at + k + 1 - k2
      /\ Len(next) = at + k + 1 - n
  BY <1>1, CountsMove
<1> HIDE DEF k2
<1>3. ASSUME NEW i \in 1 .. k2, i = k2 PROVE next[m + i] = later[(a + 1) - k2 + i]
  <2>1. m + i = Len(next) /\ m + i \in 1 .. Len(next) /\ (a + 1) - k2 + i = a + 1
    BY <1>1, <1>2, <1>3
  <2>2. next[m + i] = event
    BY <2>1 DEF Grown
  <2> QED
    BY <2>1, <2>2
<1>4. ASSUME NEW i \in 1 .. k2, i # k2 PROVE next[m + i] = later[(a + 1) - k2 + i]
  <2> DEFINE j == i + (k - (k2 - 1))
  <2>1. j \in 1 .. k /\ (m + i) + n = at + j
    BY <1>1, <1>2, <1>4
  <2>2. m + i \in 1 .. Len(next) /\ m + i # Len(next)
    BY <1>1, <1>2, <1>4
  <2>3. a - k + j = (a + 1) - k2 + i /\ (a + 1) - k2 + i \in 1 .. a
    BY <1>1, <1>2, <1>4
  <2> HIDE DEF j
  <2>4. next[m + i] = list[(m + i) + n]
    BY <2>2 DEF Grown
  <2>5. list[at + j] = all[a - k + j]
    BY <2>1 DEF SameTail
  <2>6. later[(a + 1) - k2 + i] = all[(a + 1) - k2 + i]
    BY <2>3
  <2> QED
    BY <2>1, <2>3, <2>4, <2>5, <2>6
<1>5. \A i \in 1 .. k2 : next[m + i] = later[(a + 1) - k2 + i]
  BY <1>3, <1>4
<1>6. SameTail(next, m, k2, later, a + 1)
  BY <1>5 DEF SameTail
<1> QED
  BY <1>6 DEF k2

\* What is shown after one more event.
LEMMA EmitShown ==
    ASSUME SessionInv, ShownInv, NEW b \in Buffers, Emit(b)
    PROVE  ShownInv'
<1> DEFINE event == <<sess.open, emitted'>>
           n == Dropped(buf[b])
<1>0. EmitKept(b)
  BY EmitBuffers
<1>1. /\ buf \in [Buffers -> Seq(Nat \X Nat)] /\ Len(buf[b]) <= MaxEvents
      /\ MaxEvents \in Nat \ {0} /\ event \in Nat \X Nat
  BY BrowserAssumption DEF SessionInv, EventsOK, SessionOK, Sessions, Emit
<1>2. /\ mark' = [mark EXCEPT ![b] = IF mark[b] > n THEN mark[b] - n ELSE 0]
      /\ since' = [since EXCEPT ![b] = Append(since[b], event)]
      /\ sess' = sess /\ navigated' = navigated
  <2>1. Trimmed(Append(buf[b], event), mark[b]).mark = IF mark[b] > n THEN mark[b] - n ELSE 0
    <3> DEFINE list == buf[b]
               m == mark[b]
               Pairs == Nat \X Nat
    <3>1. list \in Seq(Pairs) /\ Len(list) <= MaxEvents /\ m \in Nat
      BY <1>1 DEF ShownInv
    <3> HIDE DEF list, Pairs, m, n
    <3>2. ASSUME NEW e \in Pairs
          PROVE  LET t == Trimmed(Append(list, e), m) IN
                 /\ t.list \in Seq(Pairs) /\ Len(t.list) = Len(list) + 1 - Dropped(list)
                 /\ \A i \in 1 .. Len(t.list) :
                      t.list[i] = IF i = Len(t.list) THEN e ELSE list[i + Dropped(list)]
                 /\ t.mark = IF m > Dropped(list) THEN m - Dropped(list) ELSE 0
      BY <3>1, TrimmedIs
    <3>3. event \in Pairs
      BY <1>1 DEF Pairs
    <3> HIDE DEF event
    <3> QED
      BY <3>2, <3>3 DEF list, m, n
  <2>2. /\ mark' = [mark EXCEPT ![b] = Trimmed(Append(buf[b], event), mark[b]).mark]
        /\ since' = [since EXCEPT ![b] = Append(since[b], event)]
        /\ sess' = sess /\ navigated' = navigated
    BY DEF Emit
  <2> HIDE DEF event, n
  <2> QED
    BY <2>1, <2>2
<1>3. n \in {0, 1} /\ n <= Len(buf[b]) /\ Len(buf[b]) \in Nat /\ (n = 1 <=> Len(buf[b]) = MaxEvents)
  BY <1>1 DEF Dropped
<1> HIDE DEF event, n
<1>4. mark' \in [Buffers -> Nat]
  BY <1>2, <1>3 DEF ShownInv
<1>5. since' \in [Buffers -> Seq(Nat \X Nat)]
  <2>1. Append(since[b], event) \in Seq(Nat \X Nat)
    BY <1>1 DEF ShownInv
  <2> QED
    BY <1>2, <2>1 DEF ShownInv
<1>6. ASSUME sess.ctx # 0, navigated = sess.ctx, NEW x \in Buffers PROVE TailOK(x)'
  <2>1. TailOK(x)
    BY <1>6 DEF ShownInv
  <2>2. CASE x # b
    <3>1. buf'[x] = buf[x] /\ mark'[x] = mark[x] /\ since'[x] = since[x]
      BY <1>0, <1>2, <2>2 DEF EmitKept, ShownInv
    <3> QED
      BY <2>1, <3>1 DEF TailOK, Past
  <2>3. CASE x = b
    <3> DEFINE len == Len(buf[b])
               at == mark[b]
               k == Past(b)
               a == Len(since[b])
               m == IF mark[b] > n THEN mark[b] - n ELSE 0
    <3>1. Counts(len, at, k, a, n, m) /\ SameTail(buf[b], at, k, since[b], a)
      <4>1. /\ len \in Nat /\ at \in Nat /\ a \in Nat /\ len <= MaxEvents /\ at <= len
            /\ k = len - at /\ k = AtMost(MaxEvents, a) /\ SameTail(buf[b], at, k, since[b], a)
        BY <1>1, <2>1, <2>3 DEF ShownInv, TailOK, Past
      <4>2. m = (IF at > n THEN at - n ELSE 0) /\ (n = 1 <=> len = MaxEvents)
        BY <1>3
      <4> HIDE DEF len, at, k, a, m
      <4>3. k \in Nat /\ m \in Nat
        BY <1>3, <4>1, <4>2
      <4> QED
        BY <1>3, <4>1, <4>2, <4>3 DEF Counts
    <3>2. Len(buf'[b]) = len + 1 - n /\ Grown(buf'[b], buf[b], n, event)
      BY <1>0 DEF EmitKept, Grown, event, n
    <3>3. mark'[b] = m /\ since'[b] = Append(since[b], event)
      BY <1>2 DEF ShownInv
    <3>4. /\ Len(since'[b]) = a + 1 /\ since'[b][a + 1] = event
          /\ \A i \in 1 .. a : since'[b][i] = since[b][i]
      BY <1>1, <3>3 DEF ShownInv
    <3> HIDE DEF len, at, k, a, m
    <3>5. /\ len + 1 - n - m \in Nat /\ len + 1 - n - m = AtMost(MaxEvents, a + 1)
          /\ SameTail(buf'[b], m, len + 1 - n - m, since'[b], a + 1)
      BY <3>1, <3>2, <3>4, CountsMove, TailStays
    <3>6. m <= len + 1 - n
      BY <3>1, <3>5 DEF Counts
    <3>7. Past(b)' = len + 1 - n - m /\ AtMost(MaxEvents, Len(since[b]))' = AtMost(MaxEvents, a + 1)
      <4>1. Past(b)' = Len(buf'[b]) - mark'[b]
        BY DEF Past
      <4>2. AtMost(MaxEvents, Len(since[b]))' = AtMost(MaxEvents, Len(since'[b]))
        BY DEF AtMost
      <4> QED
        BY <3>1, <3>2, <3>3, <3>4, <4>1, <4>2 DEF Counts
    <3> QED
      BY <2>3, <3>2, <3>3, <3>4, <3>5, <3>6, <3>7 DEF TailOK
  <2> QED
    BY <2>2, <2>3
<1> QED
  BY <1>2, <1>4, <1>5, <1>6 DEF ShownInv

\* What is past the mark, as a sequence.
LEMMA TailShown ==
    ASSUME NEW E, NEW list \in Seq(E), NEW all \in Seq(E), NEW at \in Nat, at <= Len(list),
           Len(list) - at = AtMost(MaxEvents, Len(all)),
           SameTail(list, at, Len(list) - at, all, Len(all))
    PROVE  SubSeq(list, at + 1, Len(list))
             = SubSeq(all, Len(all) - AtMost(MaxEvents, Len(all)) + 1, Len(all))
<1> DEFINE k == AtMost(MaxEvents, Len(all))
           from == Len(all) - k
           one == SubSeq(list, at + 1, Len(list))
           two == SubSeq(all, from + 1, Len(all))
<1>1. k \in Nat /\ k <= Len(all) /\ from \in 0 .. Len(all) /\ at \in 0 .. Len(list)
      /\ Len(list) - at = k /\ Len(all) - from = k /\ Len(all) \in Nat /\ Len(list) \in Nat
  BY BrowserAssumption DEF AtMost
<1>2. SameTail(list, at, k, all, Len(all))
  BY <1>1
<1> HIDE DEF k, from
<1>3. one \in Seq(E) /\ Len(one) = k /\ \A i \in 1 .. k : one[i] = list[i + at]
  BY <1>1
<1>4. two \in Seq(E) /\ Len(two) = k /\ \A i \in 1 .. k : two[i] = all[i + from]
  BY <1>1
<1> HIDE DEF one, two
<1>5. ASSUME NEW i \in 1 .. k PROVE one[i] = two[i]
  <2>1. list[at + i] = all[Len(all) - k + i]
    BY <1>2 DEF SameTail
  <2>2. at + i = i + at /\ Len(all) - k + i = i + from
    BY <1>1 DEF from
  <2> QED
    BY <1>3, <1>4, <2>1, <2>2
<1>6. one = two
  BY <1>3, <1>4, <1>5
<1> QED
  BY <1>6 DEF one, two, from, k

\* A page that was opened is the beginning of what is shown.
LEMMA NavigateShown ==
    ASSUME SessionInv, ShownInv, NEW c \in Clients, navigate(c)
    PROVE  ShownInv'
<1>1. /\ mark' = [b \in Buffers |-> Len(buf[b])] /\ since' = [b \in Buffers |-> <<>>]
      /\ navigated' = sess.open /\ sess' = sess /\ buf' = buf
      /\ buf \in [Buffers -> Seq(Nat \X Nat)]
  BY DEF navigate, SessionInv, EventsOK
<1>2. /\ sess.open \in Nat /\ sess.open <= sess.made
  BY DEF SessionInv, SessionOK, Sessions
<1>3. ASSUME NEW b \in Buffers PROVE TailOK(b)'
  <2>1. mark'[b] = Len(buf'[b]) /\ since'[b] = <<>> /\ Len(buf'[b]) \in Nat
    BY <1>1
  <2>2. Past(b)' = 0 /\ AtMost(MaxEvents, Len(since[b]))' = 0
    BY <2>1, BrowserAssumption DEF Past, AtMost
  <2>3. SameTail(buf[b], mark[b], Past(b), since[b], Len(since[b]))'
    BY <2>2 DEF SameTail
  <2> QED
    BY <2>1, <2>2, <2>3 DEF TailOK
<1> QED
  BY <1>1, <1>2, <1>3 DEF ShownInv

LEMMA NextKeepsShown ==
    ASSUME SessionInv, ShownInv, [Next]_vars
    PROVE  ShownInv'
<1>0. SessionOK /\ sess \in Sessions
  BY DEF SessionInv, SessionOK
<1> USE DEF events
<1>1. ASSUME UNCHANGED <<buf, mark, since, navigated>>, sess'.ctx = sess.ctx, sess'.made = sess.made
      PROVE  ShownInv'
  BY <1>1, ShownKept
<1>2. ASSUME NEW c \in Clients, Launch(c) PROVE ShownInv'
  <2>1. /\ sess'.ctx = sess.made + 1 /\ sess'.made = sess.made + 1
        /\ UNCHANGED <<mark, since, navigated>> /\ sess.made \in Nat
    BY <1>0, <1>2 DEF Launch, Sessions
  <2> QED
    BY <2>1 DEF ShownInv
<1>3. ASSUME NEW c \in Clients, Closed(c) PROVE ShownInv'
  <2>1. sess'.ctx = 0 /\ sess'.made = sess.made /\ UNCHANGED <<mark, since, navigated>>
    BY <1>0, <1>3 DEF Closed, Forget, Sessions
  <2> QED
    BY <2>1 DEF ShownInv
<1>4. ASSUME NEW c \in Clients, Goto(c) \/ NewTab(c) \/ SelectTab(c) \/ CloseTab(c) \/ route_add(c)
             \/ \E name, pc : Asks(c, name, pc)
      PROVE  ShownInv'
  <2>1. Session(c) \in Sessions /\ Session(c).ctx = sess.ctx /\ Session(c).made = sess.made
    BY <1>0, SessionOf
  <2>2. UNCHANGED <<buf, mark, since, navigated>>
    BY <1>4 DEF Goto, NewTab, SelectTab, CloseTab, route_add, Asks
  <2>3. \/ sess' = Session(c) \/ sess' = Current(Session(c))
        \/ sess' = [Session(c) EXCEPT !.tab = tool[c].arg]
    BY <1>4 DEF Goto, NewTab, SelectTab, CloseTab, route_add, Asks, OnPage
  <2>4. sess'.ctx = sess.ctx /\ sess'.made = sess.made
    BY <2>1, <2>3 DEF Sessions, Current
  <2> QED
    BY <1>1, <2>2, <2>4
<1>5. ASSUME NEW c \in Clients, ContextClosed(c) \/ CloseFails(c) \/ TabIsNew(c) \/ TabIsClosed(c)
      PROVE  ShownInv'
  <2>1. UNCHANGED <<buf, mark, since, navigated>> /\ sess'.ctx = sess.ctx /\ sess'.made = sess.made
    BY <1>0, <1>5 DEF ContextClosed, CloseFails, TabIsNew, TabIsClosed, Sessions
  <2> QED
    BY <1>1, <2>1
<1>6. ASSUME NEW c \in Clients, NEW name, OnCurrentPage(c, name) PROVE ShownInv'
  <2>1. UNCHANGED <<buf, mark, since, navigated>> /\ sess'.ctx = sess.ctx /\ sess'.made = sess.made
    BY <1>0, <1>6 DEF OnCurrentPage, Current, Sessions
  <2> QED
    BY <1>1, <2>1
<1>7. ASSUME NEW c \in Clients, ToolStep(c) PROVE ShownInv'
  <2>1. ASSUME \/ EnsureStarted(c) \/ StartFails(c) \/ CloseContext(c)
               \/ navigate_back(c) \/ snapshot(c) \/ PageTool(c) \/ Raises(c)
               \/ Registered(c) \/ Unrouted(c)
               \/ AddCookies(c) \/ ReadCookies(c) \/ ClearCookies(c) \/ Restored(c)
        PROVE  ShownInv'
    <3>1. UNCHANGED <<buf, mark, since, navigated, sess>>
      BY <2>1 DEF EnsureStarted, StartFails, CloseContext, navigate_back, snapshot, PageTool, Raises,
         Registered, Unrouted, AddCookies, ReadCookies, ClearCookies, Restored
    <3> QED
      BY <1>1, <3>1
  <2> QED
    BY <1>2, <1>3, <1>4, <1>5, <1>7, <2>1, NavigateShown DEF ToolStep
<1>8. ASSUME NEW c \in Clients, Begins(c) PROVE ShownInv'
  <2>1. (\E name : OnCurrentPage(c, name)) \/ UNCHANGED <<buf, mark, since, navigated, sess>>
    BY <1>8 DEF Begins, Starts, route_remove, close, storage_state_restore, AuthTool
  <2> QED
    BY <1>1, <1>6, <2>1
<1>9. ASSUME Dies \/ AuthNext \/ UNCHANGED vars PROVE ShownInv'
  <2>1. UNCHANGED <<buf, mark, since, navigated>> /\ sess'.ctx = sess.ctx /\ sess'.made = sess.made
    BY <1>0, <1>9 DEF Dies, AuthNext, vars, browser, Sessions
  <2> QED
    BY <1>1, <2>1
<1> QED
  BY <1>7, <1>8, <1>9, EmitShown DEF Next

-----------------------------------------------------------------------------
(* Theorems *)

Inv == AuthInv /\ SessionInv /\ ShownInv

LEMMA InvHolds == Spec => []Inv
<1>1. Init => Inv
  <2>1. Init => ShownInv
    BY DEF Init, ShownInv
  <2> QED
    BY <2>1, InitHolds DEF Inv
<1>2. Inv /\ [Next]_vars => Inv'
  BY NextKeepsAuth, NextKeepsSession, NextKeepsShown DEF Inv
<1> QED
  BY <1>1, <1>2, PTL DEF Spec

\* Whoever closes the session, starts the next one or waits for the browser
\* meanwhile: refs, events, cookies and routes are of the session there is, and
\* a listed route is mocked, on its way, or was not taken.
THEOREM OneSession == Spec => []SessionsDoNotMix
<1>1. Inv => SessionsDoNotMix
  <2> SUFFICES ASSUME Inv PROVE SessionsDoNotMix
    OBVIOUS
  <2>1. ASSUME NEW b \in Buffers, NEW i \in DOMAIN buf[b] PROVE buf[b][i][1] = sess.ctx
    <3>1. buf[b] \in Seq(Nat \X Nat) /\ \A j \in 1 .. Len(buf[b]) : buf[b][j][1] = sess.ctx
      BY DEF Inv, SessionInv, EventsOK
    <3>2. DOMAIN buf[b] = 1 .. Len(buf[b])
      BY <3>1
    <3> QED
      BY <3>1, <3>2
  <2> QED
    BY <2>1 DEF Inv, SessionInv, SessionOK, CookiesOK, RoutesOK, SessionsDoNotMix
<1> QED
  BY <1>1, InvHolds, PTL

\* A buffer shows what came in since the last navigation of the session, as far
\* as it goes back, whatever was dropped from its front.
THEOREM ShownIsComplete == Spec => []ShownSinceNavigation
<1>1. Inv => ShownSinceNavigation
  <2> SUFFICES ASSUME Inv, sess.ctx # 0, navigated = sess.ctx, NEW b \in Buffers
               PROVE  Shown(b) = SubSeq(since[b], Len(since[b]) - AtMost(MaxEvents, Len(since[b])) + 1,
                                        Len(since[b]))
    BY DEF ShownSinceNavigation
  <2>1. /\ buf[b] \in Seq(Nat \X Nat) /\ since[b] \in Seq(Nat \X Nat) /\ mark[b] \in Nat
        /\ TailOK(b)
    BY DEF Inv, SessionInv, EventsOK, ShownInv
  <2> QED
    BY <2>1, TailShown DEF Shown, TailOK, Past
<1> QED
  BY <1>1, InvHolds, PTL

\* What the validation cache answers for a state file as it is now was said of
\* these very cookies, and within the life of an entry.
THEOREM CacheIsOfTheFile == Spec => []TestedIsThisFile
<1>1. Inv => TestedIsThisFile
  BY VerdictsAreOfTheFile DEF Inv
<1> QED
  BY <1>1, InvHolds, PTL

\* Who waited while another call logged in does not log in again as long as
\* that login is trusted.
THEOREM WaitersShareLogins == Spec => LoginsAreShared
<1>1. Inv /\ [Next]_vars => [SharedStep]_auth
  BY NextKeepsAuth DEF Inv
<1>2. Spec => [][SharedStep]_auth
  BY <1>1, InvHolds, PTL DEF Spec
<1> QED
  BY <1>2 DEF LoginsAreShared, SharedStep
=============================================================================
