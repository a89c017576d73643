---------------------------- MODULE AuthSession ----------------------------
(***************************************************************************)
(* engine/auth.py and the tools that use it: a profile is resolved to a    *)
(* file of cookies, by a login, from a cookie file or as it was captured,  *)
(* and a file is tried on the site before a run relies on it.              *)
(*                                                                         *)
(* Several tool calls are at it at once; an action is what one of them     *)
(* does up to the next await that takes a while (a browser, the login      *)
(* lock, the database).  Every write of a state file holds a new session   *)
(* with the site: a file's content and its mtime are the number of the     *)
(* write.                                                                  *)
(***************************************************************************)
EXTENDS Naturals, FiniteSets

CONSTANTS
    Clients,        \* the tool calls that may be under way together
    Profiles,       \* profile names
    AutoEnv,        \* "_auto_env", the profile made of environment variables
    CacheLife,      \* how long _auth_cache trusts a login (one hour)
    ValidityLife,   \* BLOP_AUTH_VALIDATION_CACHE_TTL_SECS
    MaxTime,        \* bound: ticks of the clock
    MaxWrites       \* bound: writes of state files

None == "none"

ASSUME AuthAssumption ==
    /\ AutoEnv \in Profiles
    /\ CacheLife \in Nat \ {0} /\ ValidityLife \in Nat
    /\ MaxTime \in Nat /\ MaxWrites \in Nat \ {0}
    /\ None \notin Profiles \cup Clients

VARIABLES
    able,       \* profiles whose user name, password and login url are set
    checks,     \* BLOP_VALIDATE_AUTH_CACHE with an APP_BASE_URL
    kind,       \* table auth_profiles: the auth_type of a profile
    file,       \* the write that made the state file of a profile, 0: no file
    accepted,   \* the writes whose session the site accepts
    cache,      \* _auth_cache: until when the file of a profile is trusted
    validated,  \* _validated_session_cache
    login,      \* _login_locks: who holds the lock of a profile
    call,       \* what each client is at
    writes,     \* the writes so far
    now,        \* the clock
    served      \* history: those who asked before the last login of a profile
                \* was through, and until when it is trusted

config == <<able, checks>>
auth == <<config, kind, file, accepted, cache, validated, login, call, writes, now, served>>

AuthTypes == {"env_login", "storage_state", "cookie_json"}
Nobody == [who |-> {}, until |-> 0]

\* of, type: the profile; path: whose file the answer is; mtime, start, tried, ok:
\* of the validation under way; after: what its verdict is for.
Idle == [pc |-> "idle", purpose |-> None, of |-> None, type |-> None, auto |-> FALSE, path |-> None,
         after |-> None, mtime |-> 0, start |-> 0, tried |-> 0, at |-> 0,
         ok |-> FALSE]

-----------------------------------------------------------------------------
\* c has what it asked for; what it was validated with is of no use any more.
Found(r, path) ==
    [Idle EXCEPT !.pc = "got", !.purpose = r.purpose, !.of = r.of, !.type = r.type, !.path = path]
Step(c, r) == call' = [call EXCEPT ![c] = r]
At(c, pc) == call[c].pc = pc
Leave(c) == login' = [p \in Profiles |-> IF login[p] = c THEN None ELSE login[p]]
FileOf(p) == IF file[p] = 0 THEN None ELSE p

Store(p, session) ==
    /\ writes < MaxWrites
    /\ writes' = writes + 1
    /\ file' = [file EXCEPT ![p] = writes + 1]
    /\ accepted' = IF session THEN accepted \cup {writes + 1} ELSE accepted

-----------------------------------------------------------------------------
(* validate_auth_session: the key and the time of an entry are taken before *)
(* the browser is started.                                                  *)

Kept(p) == {e \in validated : now < e.expires /\ (e.of = p => e.mtime = file[p])}
Hit(p) == \E e \in Kept(p) : e.of = p

\* Mutated form: keyed by the file as it is when the verdict is in.
EntryLate(r) ==
    [of |-> r.path, mtime |-> file[r.path], expires |-> r.start + ValidityLife,
     tried |-> r.tried, at |-> r.at]

\* tried and at: history, what was tried on the site and when.
Entry(r) ==
    [of |-> r.path, mtime |-> r.mtime, expires |-> r.start + ValidityLife,
     tried |-> r.tried, at |-> r.at]

SameKey(e, f) == e.of = f.of /\ e.mtime = f.mtime

Visiting(r, p, after) ==
    [r EXCEPT !.pc = "visit", !.path = p, !.after = after, !.mtime = file[p], !.start = now]

\* _validate_auth_session_uncached: the context is made of the file as it is
\* by now, and the site accepts it or not; a browser that fails is a refusal.
Visit(c) ==
    LET r == call[c] IN
    /\ r.pc = "visit"
    /\ \E ok \in BOOLEAN :
           /\ ok => file[r.path] \in accepted
           /\ Step(c, [r EXCEPT !.pc = "visited", !.tried = file[r.path], !.at = now, !.ok = ok])
    /\ UNCHANGED <<config, kind, file, accepted, cache, validated, login, writes, now, served>>

\* An accepted file is noted, one that is not has its entries dropped.
Remember(r) ==
    validated' = IF r.ok THEN {e \in validated : ~ SameKey(e, Entry(r))} \cup {Entry(r)}
                 ELSE {e \in validated : e.of # r.path}

-----------------------------------------------------------------------------
(* _env_login *)

Trusted(p) == now < cache[p] /\ file[p] # 0

\* The entry of the cache, tried on the site first if that is configured.
CachedState(c, r) ==
    /\ Trusted(r.of)
    /\ IF ~ checks THEN Step(c, Found(r, r.of)) /\ UNCHANGED validated
       ELSE /\ validated' = Kept(r.of)
            /\ Step(c, IF Hit(r.of) THEN Found(r, r.of)
                       ELSE Visiting(r, r.of, "cache"))

FastPath(c, r) ==
    \/ CachedState(c, r)
    \/ ~ Trusted(r.of) /\ Step(c, [r EXCEPT !.pc = "lock"]) /\ UNCHANGED validated

\* resolve_storage_state_for_profile: what was found, or the profile made of
\* the environment.
Answer(c, r, path) ==
    IF path = None /\ r.auto /\ r.of # AutoEnv /\ AutoEnv \in able
    THEN FastPath(c, [r EXCEPT !.of = AutoEnv])
    ELSE Step(c, Found(r, path)) /\ UNCHANGED validated

\* With the lock: a login, or without credentials the file there is.
LogIn(c, r) ==
    \/ /\ r.of \in able
       /\ Step(c, [r EXCEPT !.pc = "login"])
       /\ login' = [login EXCEPT ![r.of] = c]
       /\ UNCHANGED validated
    \/ /\ r.of \notin able
       /\ Answer(c, r, FileOf(r.of))
       /\ Leave(c)

\* Mutated form: who got the lock logs in.
TakeLockUnchecked(c) ==
    /\ At(c, "lock") /\ login[call[c].of] = None
    /\ LogIn(c, call[c])
    /\ UNCHANGED <<config, kind, file, accepted, cache, writes, now, served>>

\* Another call may have just logged in: the cache is asked again.
TakeLock(c) ==
    LET r == call[c] IN
    /\ r.pc = "lock" /\ login[r.of] = None
    /\ \/ /\ CachedState(c, r)
          /\ login' = [login EXCEPT ![r.of] = IF checks /\ ~ Hit(r.of) THEN c ELSE None]
       \/ ~ Trusted(r.of) /\ LogIn(c, r)
    /\ UNCHANGED <<config, kind, file, accepted, cache, writes, now, served>>

\* A cached file that was refused is forgotten, whatever is cached by now.
CacheChecked(c) ==
    LET r == call[c] IN
    /\ r.pc = "visited" /\ r.after = "cache"
    /\ IF r.ok
       THEN /\ Remember(r) /\ Step(c, Found(r, r.of)) /\ Leave(c)
            /\ UNCHANGED <<cache, served>>
       ELSE /\ cache' = [cache EXCEPT ![r.of] = 0]
            /\ served' = [served EXCEPT ![r.of] = Nobody]
            /\ IF login[r.of] # c
               THEN Remember(r) /\ Step(c, [r EXCEPT !.pc = "lock"]) /\ UNCHANGED login
               ELSE IF r.of \in able
               THEN Remember(r) /\ Step(c, [r EXCEPT !.pc = "login"]) /\ UNCHANGED login
               ELSE Remember(r) /\ Step(c, Found(r, r.of)) /\ Leave(c)
    /\ UNCHANGED <<config, kind, file, accepted, writes, now>>

\* Social login only, the form not found, an error on the page, an exception.
LoginFails(c) ==
    /\ At(c, "login")
    /\ Answer(c, call[c], FileOf(call[c].of))
    /\ Leave(c)
    /\ UNCHANGED <<config, kind, file, accepted, cache, writes, now, served>>

\* The page left the login url, which need not mean that the site will accept.
LoginSaves(c) ==
    /\ At(c, "login")
    /\ \E session \in BOOLEAN : Store(call[c].of, session)
    /\ Step(c, [call[c] EXCEPT !.pc = "saved"])
    /\ UNCHANGED <<config, kind, cache, validated, login, now, served>>

Asking(p) == {c \in Clients : call[c].of = p /\ call[c].pc \in {"lock", "visit", "visited"}}

\* The browser is closed; only now is the file trusted.
LoginEnds(c) ==
    LET p == call[c].of IN
    /\ At(c, "saved")
    /\ cache' = [cache EXCEPT ![p] = now + CacheLife]
    /\ served' = [served EXCEPT ![p] = [who |-> Asking(p), until |-> now + CacheLife]]
    /\ Answer(c, call[c], p)
    /\ Leave(c)
    /\ UNCHANGED <<config, kind, file, accepted, writes, now>>

-----------------------------------------------------------------------------
(* _cookie_json and capture_auth_session write the same file without the    *)
(* lock.                                                                    *)

ConvertFails(c) ==
    /\ At(c, "convert")
    /\ Answer(c, call[c], None)
    /\ UNCHANGED <<config, kind, file, accepted, cache, login, writes, now, served>>

ConvertSaves(c) ==
    /\ At(c, "convert")
    /\ \E session \in BOOLEAN : Store(call[c].of, session)
    /\ Step(c, [call[c] EXCEPT !.pc = "converted"])
    /\ UNCHANGED <<config, kind, cache, validated, login, now, served>>

ConvertEnds(c) ==
    LET p == call[c].of IN
    /\ At(c, "converted")
    /\ cache' = [cache EXCEPT ![p] = now + CacheLife]
    /\ Answer(c, call[c], p)
    /\ UNCHANGED <<config, kind, file, accepted, login, writes, now, served>>

\* The person at the browser may be too late.
CaptureTimesOut(c) ==
    /\ At(c, "capture")
    /\ Step(c, Idle)
    /\ UNCHANGED <<config, kind, file, accepted, cache, validated, login, writes, now, served>>

CaptureSaves(c) ==
    /\ At(c, "capture")
    /\ \E session \in BOOLEAN : Store(call[c].of, session)
    /\ Step(c, [call[c] EXCEPT !.pc = "captured"])
    /\ UNCHANGED <<config, kind, cache, validated, login, now, served>>

CaptureEnds(c) ==
    /\ At(c, "captured")
    /\ kind' = [kind EXCEPT ![call[c].of] = "storage_state"]
    /\ Step(c, Idle)
    /\ UNCHANGED <<config, file, accepted, cache, validated, login, writes, now, served>>

-----------------------------------------------------------------------------
(* The tools *)

Begin(c, purpose, p, auto) ==
    Step(c, [Idle EXCEPT !.pc = "resolve", !.purpose = purpose, !.of = p, !.auto = auto])

\* run_regression_test, acquire_page_session and save_auth_profile, which
\* resolves the profile it is about to save.
Ask(c, purpose, p) ==
    /\ At(c, "idle") /\ p # AutoEnv
    /\ Begin(c, purpose, p, FALSE)
    /\ UNCHANGED <<config, kind, file, accepted, cache, validated, login, writes, now, served>>

capture_auth_session(c, p) ==
    /\ At(c, "idle") /\ p # AutoEnv
    /\ Step(c, [Idle EXCEPT !.pc = "capture", !.of = p])
    /\ UNCHANGED <<config, kind, file, accepted, cache, validated, login, writes, now, served>>

\* The row of the profile is read, or is what the tool was given.  Without a
\* profile there is only the environment.
Resolve(c, type) ==
    LET r == [call[c] EXCEPT !.type = type] IN
    /\ At(c, "resolve")
    /\ type = IF r.purpose = "save" THEN type ELSE IF r.of = None THEN None ELSE kind[r.of]
    /\ CASE type = None -> Answer(c, r, None)
         [] type = "env_login" -> FastPath(c, r)
         [] type = "storage_state" -> Answer(c, r, FileOf(r.of))
         [] type = "cookie_json" -> Step(c, [r EXCEPT !.pc = "convert"]) /\ UNCHANGED validated
    /\ UNCHANGED <<config, kind, file, accepted, cache, login, writes, now, served>>

\* The row is written whatever was found.
save_auth_profile(c) ==
    /\ At(c, "got") /\ call[c].purpose = "save"
    /\ kind' = [kind EXCEPT ![call[c].of] = call[c].type]
    /\ Step(c, Idle)
    /\ UNCHANGED <<config, file, accepted, cache, validated, login, writes, now, served>>

\* A page of its own for the call, closed when it is over: the file is not
\* tried, and without one the page is anonymous.
acquire_page_session(c) ==
    /\ At(c, "got") /\ call[c].purpose = "page"
    /\ Step(c, Idle)
    /\ UNCHANGED <<config, kind, file, accepted, cache, validated, login, writes, now, served>>

\* A run waits for auth without a file, and tries the one it has.
ValidateForRun(c) ==
    LET r == call[c] IN
    /\ r.pc = "got" /\ r.purpose = "run"
    /\ IF r.path = None THEN Step(c, Idle) /\ UNCHANGED validated
       ELSE /\ validated' = Kept(r.path)
            /\ Step(c, IF Hit(r.path) THEN Idle ELSE Visiting(r, r.path, "run"))
    /\ UNCHANGED <<config, kind, file, accepted, cache, login, writes, now, served>>

RunChecked(c) ==
    /\ At(c, "visited") /\ call[c].after = "run"
    /\ Remember(call[c])
    /\ Step(c, Idle)
    /\ UNCHANGED <<config, kind, file, accepted, cache, login, writes, now, served>>

-----------------------------------------------------------------------------
(* Time passes, and the site ends a session. *)

Tick ==
    /\ now < MaxTime
    /\ now' = now + 1
    /\ UNCHANGED <<config, kind, file, accepted, cache, validated, login, call, writes, served>>

SessionEnds ==
    /\ \E w \in accepted : accepted' = accepted \ {w}
    /\ UNCHANGED <<config, kind, file, cache, validated, login, call, writes, now, served>>

AuthStep(c) ==
    \/ \E type \in AuthTypes \cup {None} : Resolve(c, type)
    \/ Visit(c) \/ TakeLock(c) \/ CacheChecked(c)
    \/ LoginFails(c) \/ LoginSaves(c) \/ LoginEnds(c)
    \/ ConvertFails(c) \/ ConvertSaves(c) \/ ConvertEnds(c)
    \/ CaptureTimesOut(c) \/ CaptureSaves(c) \/ CaptureEnds(c)
    \/ save_auth_profile(c) \/ acquire_page_session(c) \/ ValidateForRun(c) \/ RunChecked(c)

\* The process has just started, with or without state files from before.
ColdStart ==
    /\ \E old \in {0, 1} :
          /\ file = [p \in Profiles |-> old] /\ writes = old
          /\ accepted \in SUBSET (1..old)
    /\ cache = [p \in Profiles |-> 0] /\ validated = {}
    /\ now = 1

\* Every profile has just been resolved and tried, and no time is left.
WarmStart ==
    /\ file = [p \in Profiles |-> 1] /\ writes = MaxWrites /\ accepted = {}
    /\ cache = [p \in Profiles |-> MaxTime + CacheLife]
    /\ validated = {[of |-> p, mtime |-> 1, expires |-> MaxTime + ValidityLife,
                     tried |-> 1, at |-> MaxTime] : p \in Profiles}
    /\ now = MaxTime

AuthInit ==
    /\ kind = [p \in Profiles |-> "env_login"]
    /\ login = [p \in Profiles |-> None]
    /\ call = [c \in Clients |-> Idle]
    /\ served = [p \in Profiles |-> Nobody]

-----------------------------------------------------------------------------
(* Properties *)

\* A state file may be rewritten by a login, a capture or a conversion while a
\* browser is still trying it.  What the cache answers for a file as it is now
\* was said of these very cookies, and within the life of an entry.
TestedIsThisFile ==
    \A e \in validated :
        e.mtime = file[e.of] /\ now < e.expires
            => e.tried = file[e.of] /\ now - e.at < ValidityLife

\* "Per-profile lock to prevent concurrent logins racing each other": a call
\* that was waiting while another one logged in does not log in again while
\* that login is trusted and was not refused since.
LoginsAreShared ==
    [][\A c \in Clients :
          ~ At(c, "login") /\ call'[c].pc = "login" =>
              LET s == served'[call'[c].of] IN c \notin s.who \/ now >= s.until]_auth
=============================================================================
