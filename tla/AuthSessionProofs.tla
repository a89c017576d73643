------------------------- MODULE AuthSessionProofs -------------------------
(***************************************************************************)
(* Lemmas about AuthSession, for every set of clients and profiles, every  *)
(* life of a cache entry and every bound.  Its actions are steps of        *)
(* BrowserSession, whose proofs conclude from them.                        *)
(***************************************************************************)
EXTENDS AuthSession, TLAPS

-----------------------------------------------------------------------------
(* The inductive invariant *)

\* Where a call is about its profile.
Own == {"lock", "login", "saved", "convert", "converted", "capture", "captured"}

Types == AuthTypes \cup {None}
Calls ==
    [pc : {"idle", "resolve", "visit", "visited", "got"} \cup Own,
     purpose : {None, "run", "save", "page", "browser"},
     of : Profiles \cup {None}, type : Types, auto : BOOLEAN,
     path : Profiles \cup {None}, after : {None, "cache", "run"}, mtime : Nat,
     start : Nat, tried : Nat, at : Nat, ok : BOOLEAN]

\* A validation has noted its file before the browser tried it, and the browser
\* tried what is there by now or was before; a login has left a file.
CallOK(r) ==
    /\ r \in Calls
    /\ \/ r.pc \in Own \/ r.purpose = "save"
       \/ r.pc \in {"visit", "visited"} /\ r.after = "cache"
       => r.of \in Profiles
    /\ r.pc = "saved" => file[r.of] # 0
    /\ r.pc = "visit" =>
         r.path \in Profiles /\ r.mtime <= file[r.path] /\ r.start <= now
    /\ r.pc = "visited" =>
         /\ r.path \in Profiles /\ r.mtime <= r.tried /\ r.tried <= file[r.path]
         /\ r.start <= r.at /\ r.at <= now

\* So has an entry of the cache of verdicts.
EntryOK(e) ==
    /\ e \in [of : Profiles, mtime : Nat, expires : Nat, tried : Nat, at : Nat]
    /\ e.mtime <= e.tried /\ e.tried <= file[e.of]
    /\ e.expires <= e.at + ValidityLife /\ e.at <= now

\* Those who were waiting while another one logged in rely on a file that is
\* there and trusted.
ServedOK(p) ==
    /\ cache[p] <= now + CacheLife
    /\ served[p].who # {} => served[p].until <= cache[p] /\ file[p] # 0

AuthInv ==
    /\ kind \in [Profiles -> Types]
    /\ writes \in Nat /\ now \in Nat
    /\ file \in [Profiles -> 0 .. writes]
    /\ cache \in [Profiles -> Nat]
    /\ served \in [Profiles -> [who : SUBSET Clients, until : Nat]]
    /\ DOMAIN login = Profiles
    /\ DOMAIN call = Clients
    /\ \A c \in Clients : CallOK(call[c])
    /\ \A e \in validated : EntryOK(e)
    /\ \A p \in Profiles : ServedOK(p)

LEMMA IdleOK == CallOK(Idle)
  BY DEF CallOK, Idle, Calls, Own, None, Types

\* The process starts in it, warm or cold.
LEMMA AuthInitHolds == AuthInit /\ (ColdStart \/ WarmStart) => AuthInv
<1> SUFFICES ASSUME AuthInit, ColdStart \/ WarmStart PROVE AuthInv
  OBVIOUS
<1>1. /\ writes \in Nat /\ now \in Nat /\ file \in [Profiles -> 0 .. writes]
      /\ cache \in [Profiles -> Nat]
  BY AuthAssumption DEF ColdStart, WarmStart
<1>2. /\ kind \in [Profiles -> Types] /\ DOMAIN login = Profiles /\ DOMAIN call = Clients
      /\ served \in [Profiles -> [who : SUBSET Clients, until : Nat]]
  BY DEF AuthInit, Nobody, Types, AuthTypes
<1>3. \A c \in Clients : CallOK(call[c])
  BY IdleOK DEF AuthInit
<1>4. \A e \in validated : EntryOK(e)
  BY AuthAssumption DEF ColdStart, WarmStart, EntryOK
<1>5. \A p \in Profiles : ServedOK(p)
  BY AuthAssumption DEF AuthInit, ColdStart, WarmStart, ServedOK, Nobody
<1> QED
  BY <1>1, <1>2, <1>3, <1>4, <1>5 DEF AuthInv

-----------------------------------------------------------------------------
(* One call moves *)

\* What a call does to itself and to the cache of verdicts.
Moves(c, r) ==
    /\ call' = [call EXCEPT ![c] = r]
    /\ \A e \in validated' : EntryOK(e)

\* It keeps the invariant when the files and the clock stay.
LEMMA MoveKeeps ==
    ASSUME AuthInv, NEW c \in Clients, NEW r, CallOK(r), Moves(c, r),
           DOMAIN login' = Profiles, kind' \in [Profiles -> Types],
           cache' \in [Profiles -> Nat],
           served' \in [Profiles -> [who : SUBSET Clients, until : Nat]],
           \A p \in Profiles : ServedOK(p)',
           UNCHANGED <<file, writes, now>>
    PROVE  AuthInv'
<1>1. \A d \in Clients : CallOK(call'[d])
  BY DEF AuthInv, Moves
<1>2. \A s : CallOK(s) => CallOK(s)'
  BY DEF CallOK
<1>3. \A e : EntryOK(e) => EntryOK(e)'
  BY DEF EntryOK
<1> QED
  BY <1>1, <1>2, <1>3 DEF AuthInv, Moves

\* The call is afterwards at one of these places.
Goes(c, places) == \E r : CallOK(r) /\ r.pc \in places /\ Moves(c, r)

LEMMA FoundOK ==
    ASSUME NEW r, CallOK(r), NEW path \in Profiles \cup {None}
    PROVE  CallOK(Found(r, path)) /\ Found(r, path).pc = "got"
<1>1. Idle \in Calls /\ r \in Calls
  BY IdleOK DEF CallOK
<1>2. /\ Found(r, path) \in Calls /\ Found(r, path).pc = "got"
      /\ Found(r, path).purpose = r.purpose /\ Found(r, path).of = r.of
  BY <1>1 DEF Found, Calls, Own
<1> QED
  BY <1>2 DEF CallOK, Own

LEMMA VisitingOK ==
    ASSUME AuthInv, NEW r, CallOK(r), NEW p \in Profiles, NEW after \in {"cache", "run"},
           after = "cache" => r.of \in Profiles
    PROVE  CallOK(Visiting(r, p, after)) /\ Visiting(r, p, after).pc = "visit"
<1>1. file[p] \in Nat /\ now \in Nat
  BY DEF AuthInv
<1>2. Visiting(r, p, after) \in Calls
  BY <1>1 DEF CallOK, Visiting, Calls, None
<1> QED
  BY <1>1, <1>2 DEF CallOK, Visiting, Calls, Own

\* Purging the cache of verdicts keeps those that are left (Kept).
LEMMA KeptOK == ASSUME AuthInv, NEW p, validated' = Kept(p), UNCHANGED <<file, now>>
                PROVE  \A e \in validated' : EntryOK(e)
  BY DEF AuthInv, Kept

\* The entry of the login cache, the fast path to it and what follows when
\* nothing was found (resolve_storage_state_for_profile).
LEMMA CachedGoes ==
    ASSUME AuthInv, NEW c, NEW r, CallOK(r), r.of \in Profiles, CachedState(c, r)
    PROVE  Goes(c, {"got", "visit"})
<1>1. \/ UNCHANGED validated \/ validated' = Kept(r.of)
  BY DEF CachedState
<1>2. \A e \in validated' : EntryOK(e)
  BY <1>1 DEF AuthInv, Kept
<1>3. \/ call' = [call EXCEPT ![c] = Found(r, r.of)]
      \/ call' = [call EXCEPT ![c] = Visiting(r, r.of, "cache")]
  BY DEF CachedState, Step
<1>4. /\ CallOK(Found(r, r.of)) /\ Found(r, r.of).pc = "got"
      /\ CallOK(Visiting(r, r.of, "cache")) /\ Visiting(r, r.of, "cache").pc = "visit"
  BY FoundOK, VisitingOK
<1> QED
  BY <1>2, <1>3, <1>4 DEF Goes, Moves

LEMMA FastGoes ==
    ASSUME AuthInv, NEW c, NEW r, CallOK(r), r.of \in Profiles, FastPath(c, r)
    PROVE  Goes(c, {"got", "visit", "lock"})
<1>1. CASE CachedState(c, r)
  BY <1>1, CachedGoes DEF Goes
<1>2. CASE ~CachedState(c, r)
  <2>1. CallOK([r EXCEPT !.pc = "lock"]) /\ [r EXCEPT !.pc = "lock"].pc = "lock"
    BY DEF CallOK, Calls, Own
  <2>2. call' = [call EXCEPT ![c] = [r EXCEPT !.pc = "lock"]] /\ validated' = validated
    BY <1>2 DEF FastPath, Step
  <2> QED
    BY <2>1, <2>2 DEF Goes, Moves, AuthInv
<1> QED
  BY <1>1, <1>2

LEMMA AnswerGoes ==
    ASSUME AuthInv, NEW c, NEW r, CallOK(r), NEW path \in Profiles \cup {None},
           r.pc \in {"saved", "visited"} => path # None, r.pc # "visit",
           Answer(c, r, path)
    PROVE  Goes(c, {"got", "visit", "lock"})
<1>1. CASE path = None /\ r.auto /\ r.of # AutoEnv /\ AutoEnv \in able
  <2> DEFINE env == [r EXCEPT !.of = AutoEnv]
  <2>1. FastPath(c, env)
    BY <1>1 DEF Answer
  <2>2. CallOK(env) /\ env.of \in Profiles
    BY <1>1, AuthAssumption DEF CallOK, Calls
  <2> QED
    BY <2>1, <2>2, FastGoes
<1>2. CASE ~(path = None /\ r.auto /\ r.of # AutoEnv /\ AutoEnv \in able)
  <2>1. call' = [call EXCEPT ![c] = Found(r, path)] /\ validated' = validated
    BY <1>2 DEF Answer, Step
  <2> QED
    BY <2>1, FoundOK DEF Goes, Moves, AuthInv
<1> QED
  BY <1>1, <1>2

LEMMA GoesKeeps ==
    ASSUME AuthInv, NEW c \in Clients, NEW places, Goes(c, places),
           DOMAIN login' = Profiles, kind' \in [Profiles -> Types],
           UNCHANGED <<file, cache, writes, now, served>>
    PROVE  AuthInv'
<1>1. \A p \in Profiles : ServedOK(p)'
  BY DEF AuthInv, ServedOK
<1>2. /\ cache' \in [Profiles -> Nat]
      /\ served' \in [Profiles -> [who : SUBSET Clients, until : Nat]]
  BY DEF AuthInv
<1> QED
  BY <1>1, <1>2, MoveKeeps DEF Goes

\* The verdict of a browser is noted under what the file was before
\* (validate_auth_session).
LEMMA RememberOK ==
    ASSUME AuthInv, NEW c \in Clients, At(c, "visited"), Remember(call[c])
    PROVE  \A e \in validated' : EntryOK(e)
<1>1. CallOK(call[c]) /\ call[c].pc = "visited"
  BY DEF AuthInv, At
<1>2. EntryOK(Entry(call[c]))
  BY <1>1, AuthAssumption DEF CallOK, Calls, Entry, EntryOK
<1>3. validated' \subseteq validated \cup {Entry(call[c])}
  BY DEF Remember
<1> QED
  BY <1>2, <1>3 DEF AuthInv

\* Files are only written anew and time only passes: what holds of calls, of
\* entries and of those served goes on to hold.
LEMMA LaterOK ==
    ASSUME AuthInv, file' \in [Profiles -> Nat], now' \in Nat, now <= now',
           \A p \in Profiles : file[p] <= file'[p],
           UNCHANGED <<cache, served>>
    PROVE  /\ \A r : CallOK(r) => CallOK(r)'
           /\ \A e : EntryOK(e) => EntryOK(e)'
           /\ \A p \in Profiles : ServedOK(p)'
<1>0. file \in [Profiles -> Nat] /\ now \in Nat /\ cache \in [Profiles -> Nat]
  BY DEF AuthInv
<1>1. ASSUME NEW r, CallOK(r) PROVE CallOK(r)'
  <2>1. r.of \in Profiles => file[r.of] <= file'[r.of] /\ file[r.of] \in Nat /\ file'[r.of] \in Nat
    BY <1>0
  <2>2. r.path \in Profiles => file[r.path] <= file'[r.path] /\ file[r.path] \in Nat /\ file'[r.path] \in Nat
    BY <1>0
  <2> QED
    BY <1>0, <1>1, <2>1, <2>2 DEF CallOK, Calls, Own
<1>2. ASSUME NEW e, EntryOK(e) PROVE EntryOK(e)'
  <2>1. file[e.of] <= file'[e.of] /\ file[e.of] \in Nat /\ file'[e.of] \in Nat
    BY <1>0, <1>2 DEF EntryOK
  <2> QED
    BY <1>0, <1>2, <2>1, AuthAssumption DEF EntryOK
<1>3. ASSUME NEW p \in Profiles PROVE ServedOK(p)'
  <2>1. ServedOK(p)
    BY DEF AuthInv
  <2>2. file[p] <= file'[p] /\ file[p] \in Nat /\ file'[p] \in Nat
    BY <1>0
  <2> QED
    BY <1>0, <2>1, <2>2, AuthAssumption DEF ServedOK, AuthInv
<1> QED
  BY <1>1, <1>2, <1>3

\* A state file is written (by a login, a conversion or a capture).
LEMMA StoreKeeps ==
    ASSUME AuthInv, NEW c \in Clients, NEW session, call[c].of \in Profiles,
           Store(call[c].of, session), NEW pc \in {"saved", "converted", "captured"},
           Step(c, [call[c] EXCEPT !.pc = pc]),
           UNCHANGED <<config, kind, cache, validated, login, now, served>>
    PROVE  AuthInv'
<1> DEFINE r == call[c]
<1>1. /\ writes' \in Nat /\ file' \in [Profiles -> 0 .. writes']
      /\ file' \in [Profiles -> Nat] /\ file'[r.of] = writes + 1 /\ writes \in Nat
      /\ \A p \in Profiles : file[p] <= file'[p]
  BY DEF AuthInv, Store
<1>2. /\ \A s : CallOK(s) => CallOK(s)'
      /\ \A e : EntryOK(e) => EntryOK(e)'
      /\ \A p \in Profiles : ServedOK(p)'
  BY <1>1, LaterOK DEF AuthInv
<1>3. CallOK(r)
  BY DEF AuthInv
<1>4. CallOK(call[c])'
  <2>1. call'[c] = [r EXCEPT !.pc = pc]
    BY DEF AuthInv, Step
  <2>2. call'[c] \in Calls /\ call'[c].pc = pc /\ call'[c].of = r.of /\ r.of \in Profiles
    BY <1>3, <2>1 DEF CallOK, Calls, Own
  <2> QED
    BY <1>1, <2>2 DEF CallOK
<1>5. \A d \in Clients : CallOK(call[d])'
  BY <1>2, <1>4 DEF AuthInv, Step
<1>6. DOMAIN call' = Clients /\ DOMAIN login' = Profiles
  BY DEF AuthInv, Step
<1> QED
  BY <1>1, <1>2, <1>5, <1>6 DEF AuthInv

-----------------------------------------------------------------------------
(* The steps *)

\* A profile is resolved (resolve_storage_state_for_profile).
LEMMA ResolveGoes ==
    ASSUME AuthInv, NEW c \in Clients, NEW type \in AuthTypes \cup {None}, Resolve(c, type)
    PROVE  Goes(c, {"got", "visit", "lock", "convert"})
<1> DEFINE r == [call[c] EXCEPT !.type = type]
<1>0. CallOK(call[c]) /\ call[c].pc = "resolve"
  BY DEF AuthInv, Resolve, At
<1>1. /\ CallOK(r) /\ r.pc = "resolve"
      /\ type \in AuthTypes => r.of \in Profiles
  <2>1. r \in Calls /\ r.pc = "resolve" /\ r.purpose = call[c].purpose /\ r.of = call[c].of
    BY <1>0 DEF CallOK, Calls, Types
  <2>2. r.purpose = "save" => r.of \in Profiles
    BY <1>0, <2>1 DEF CallOK
  <2>3. CallOK(r)
    BY <2>1, <2>2 DEF CallOK, Own
  <2>4. ASSUME type \in AuthTypes, r.purpose # "save" PROVE r.of \in Profiles
    <3>1. type # None
      BY <2>4 DEF AuthTypes, None
    <3>2. r.of # None
      BY <2>4, <3>1 DEF Resolve
    <3> QED
      BY <2>1, <3>2 DEF Calls
  <2> QED
    BY <2>1, <2>2, <2>3, <2>4
<1>2. FileOf(r.of) \in Profiles \cup {None} \/ r.of \notin Profiles
  BY DEF FileOf
<1>3. CASE type = None
  <2>1. Answer(c, r, None)
    BY <1>3 DEF Resolve, None
  <2> QED
    BY <1>1, <2>1, AnswerGoes DEF Goes
<1>4. CASE type = "env_login"
  <2>1. FastPath(c, r) /\ r.of \in Profiles
    BY <1>1, <1>4 DEF Resolve, None, AuthTypes
  <2> QED
    BY <1>1, <2>1, FastGoes DEF Goes
<1>5. CASE type = "storage_state"
  <2>1. Answer(c, r, FileOf(r.of)) /\ r.of \in Profiles
    BY <1>1, <1>5 DEF Resolve, None, AuthTypes
  <2> QED
    BY <1>1, <1>2, <2>1, AnswerGoes DEF Goes
<1>6. CASE type = "cookie_json"
  <2>1. call' = [call EXCEPT ![c] = [r EXCEPT !.pc = "convert"]] /\ validated' = validated
    BY <1>6 DEF Resolve, Step, None
  <2>2. r.of \in Profiles
    BY <1>1, <1>6 DEF AuthTypes
  <2>3. CallOK([r EXCEPT !.pc = "convert"]) /\ [r EXCEPT !.pc = "convert"].pc = "convert"
    BY <1>1, <2>2 DEF CallOK, Calls, Own
  <2> QED
    BY <2>1, <2>3 DEF Goes, Moves, AuthInv
<1> QED
  BY <1>3, <1>4, <1>5, <1>6 DEF AuthTypes

\* With the lock of the profile: the cache is asked again, or it is a login, or
\* the file there is (_env_login).
LEMMA TakeLockGoes ==
    ASSUME AuthInv, NEW c \in Clients, TakeLock(c)
    PROVE  /\ Goes(c, {"got", "visit", "lock", "login"})
           /\ call'[c].pc = "login" => call'[c].of = call[c].of /\ ~ Trusted(call[c].of)
           /\ DOMAIN login' = Profiles
<1> DEFINE r == call[c]
<1>1. CallOK(r) /\ r.pc = "lock" /\ r.of \in Profiles /\ c \in DOMAIN call
  BY DEF AuthInv, CallOK, TakeLock, Own
<1>2. DOMAIN login' = Profiles
  BY DEF AuthInv, TakeLock, LogIn, Leave
<1>3. CASE CachedState(c, r)
  <2>1. Goes(c, {"got", "visit"})
    BY <1>1, <1>3, CachedGoes
  <2>2. call'[c].pc # "login"
    BY <1>1, <2>1 DEF Goes, Moves
  <2> QED
    BY <1>2, <2>1, <2>2 DEF Goes
<1>4. CASE ~ Trusted(r.of) /\ LogIn(c, r)
  <2>1. CASE r.of \in able
    <3>1. call' = [call EXCEPT ![c] = [r EXCEPT !.pc = "login"]] /\ validated' = validated
      BY <1>4, <2>1 DEF LogIn, Step
    <3>2. /\ CallOK([r EXCEPT !.pc = "login"]) /\ [r EXCEPT !.pc = "login"].pc = "login"
          /\ [r EXCEPT !.pc = "login"].of = r.of
      BY <1>1 DEF CallOK, Calls, Own
    <3> QED
      BY <1>1, <1>2, <1>4, <3>1, <3>2 DEF Goes, Moves, AuthInv
  <2>2. CASE r.of \notin able
    <3>1. Answer(c, r, FileOf(r.of)) /\ FileOf(r.of) \in Profiles \cup {None}
      BY <1>1, <1>4, <2>2 DEF LogIn, FileOf
    <3>2. Goes(c, {"got", "visit", "lock"})
      BY <1>1, <3>1, AnswerGoes
    <3>3. call'[c].pc # "login"
      BY <1>1, <3>2 DEF Goes, Moves
    <3> QED
      BY <1>2, <3>2, <3>3 DEF Goes
  <2> QED
    BY <2>1, <2>2
<1> QED
  BY <1>3, <1>4 DEF TakeLock

\* What a tool call enters and leaves: it asks for a profile, or has no more to
\* do with it.
Enter(c, purpose, p, auto) ==
    /\ Begin(c, purpose, p, auto)
    /\ UNCHANGED <<config, kind, file, accepted, cache, validated, login, writes, now, served>>
Quit(c) ==
    /\ Step(c, Idle)
    /\ UNCHANGED <<config, kind, file, accepted, cache, validated, login, writes, now, served>>

LEMMA EnterGoes ==
    ASSUME AuthInv, NEW c \in Clients, NEW purpose \in {"run", "save", "page", "browser"},
           NEW p \in Profiles \cup {None}, purpose = "save" => p \in Profiles,
           NEW auto \in BOOLEAN, Enter(c, purpose, p, auto)
    PROVE  Goes(c, {"resolve"})
<1> DEFINE r == [Idle EXCEPT !.pc = "resolve", !.purpose = purpose, !.of = p, !.auto = auto]
<1>1. Idle \in Calls
  BY IdleOK DEF CallOK
<1>2. r \in Calls /\ r.pc = "resolve" /\ r.purpose = purpose /\ r.of = p
  BY <1>1 DEF Calls
<1>3. CallOK(r)
  BY <1>2 DEF CallOK, Own
<1> QED
  BY <1>2, <1>3 DEF Goes, Moves, Enter, Begin, Step, AuthInv

LEMMA QuitGoes == ASSUME AuthInv, NEW c \in Clients, Quit(c)
                  PROVE  Goes(c, {"idle"})
<1>1. Idle.pc = "idle"
  BY DEF Idle
<1> QED
  BY <1>1, IdleOK DEF Goes, Moves, Quit, Step, AuthInv

LEMMA CaptureGoes ==
    ASSUME AuthInv, NEW c \in Clients, NEW p \in Profiles, capture_auth_session(c, p)
    PROVE  Goes(c, {"capture"})
<1> DEFINE r == [Idle EXCEPT !.pc = "capture", !.of = p]
<1>1. Idle \in Calls /\ Idle.purpose = None
  BY IdleOK DEF CallOK, Idle
<1>2. r \in Calls /\ r.pc = "capture" /\ r.of = p
  BY <1>1 DEF Calls, Own
<1>3. CallOK(r)
  BY <1>2 DEF CallOK, Own
<1> QED
  BY <1>2, <1>3 DEF Goes, Moves, capture_auth_session, Step, AuthInv

\* The steps of a call that leave the files, the clock and the login cache.
QuietSteps(c) ==
    \/ \E type \in AuthTypes \cup {None} : Resolve(c, type)
    \/ Visit(c) \/ LoginFails(c) \/ ConvertFails(c) \/ CaptureTimesOut(c) \/ CaptureEnds(c)
    \/ save_auth_profile(c) \/ acquire_page_session(c) \/ ValidateForRun(c) \/ RunChecked(c)

LEMMA QuietGoes ==
    ASSUME AuthInv, NEW c \in Clients, QuietSteps(c)
    PROVE  /\ Goes(c, {"idle", "got", "visit", "visited", "lock", "convert"})
           /\ AuthInv'
<1> DEFINE r == call[c]
           There == {"idle", "got", "visit", "visited", "lock", "convert"}
<1>0. CallOK(r) /\ DOMAIN login = Profiles /\ kind \in [Profiles -> Types]
  BY DEF AuthInv
<1>1. ASSUME NEW type \in AuthTypes \cup {None}, Resolve(c, type)
      PROVE  Goes(c, There) /\ AuthInv'
  <2>1. Goes(c, {"got", "visit", "lock", "convert"})
    BY <1>1, ResolveGoes
  <2>2. UNCHANGED <<kind, login, file, cache, writes, now, served>>
    BY <1>1 DEF Resolve
  <2> QED
    BY <1>0, <2>1, <2>2, GoesKeeps DEF Goes
<1>2. CASE Visit(c)
  <2>1. PICK ok \in BOOLEAN :
          call' = [call EXCEPT ![c] = [r EXCEPT !.pc = "visited", !.tried = file[r.path],
                                                !.at = now, !.ok = ok]]
    BY <1>2 DEF Visit, Step
  <2> DEFINE s == [r EXCEPT !.pc = "visited", !.tried = file[r.path], !.at = now, !.ok = ok]
  <2>2. r.pc = "visit" /\ r.path \in Profiles /\ file[r.path] \in Nat /\ now \in Nat
    BY <1>0, <1>2 DEF Visit, CallOK, AuthInv
  <2>4. /\ s \in Calls /\ s.pc = "visited" /\ s.tried = file[r.path] /\ s.at = now
        /\ s.path = r.path /\ s.mtime = r.mtime /\ s.start = r.start
        /\ s.of = r.of /\ s.purpose = r.purpose /\ s.after = r.after
    BY <1>0, <2>2 DEF CallOK, Calls
  <2>5. CallOK(s)
    BY <1>0, <2>2, <2>4 DEF CallOK, Own
  <2>6. Goes(c, There)
    BY <1>2, <2>1, <2>4, <2>5 DEF Goes, Moves, Visit, AuthInv
  <2> QED
    BY <1>0, <1>2, <2>6, GoesKeeps DEF Visit
<1>3. CASE LoginFails(c)
  <2>1. Answer(c, r, FileOf(r.of)) /\ r.pc = "login" /\ DOMAIN login' = Profiles
    BY <1>3 DEF LoginFails, At, Leave
  <2>2. FileOf(r.of) \in Profiles \cup {None}
    BY <1>0, <2>1 DEF FileOf, CallOK, Own
  <2>3. Goes(c, {"got", "visit", "lock"})
    BY <1>0, <2>1, <2>2, AnswerGoes
  <2> QED
    BY <1>0, <1>3, <2>1, <2>3, GoesKeeps DEF Goes, LoginFails
<1>4. CASE ConvertFails(c)
  <2>1. Answer(c, r, None) /\ r.pc = "convert"
    BY <1>4 DEF ConvertFails, At
  <2>2. Goes(c, {"got", "visit", "lock"})
    BY <1>0, <2>1, AnswerGoes
  <2> QED
    BY <1>0, <1>4, <2>2, GoesKeeps DEF Goes, ConvertFails
<1>5. CASE CaptureTimesOut(c) \/ acquire_page_session(c)
  <2>1. Quit(c)
    BY <1>5 DEF CaptureTimesOut, acquire_page_session, Quit
  <2>2. Goes(c, {"idle"})
    BY <2>1, QuitGoes
  <2> QED
    BY <1>0, <2>1, <2>2, GoesKeeps DEF Goes, Quit
<1>6. CASE CaptureEnds(c) \/ save_auth_profile(c)
  <2>1. /\ UNCHANGED <<file, cache, validated, login, writes, now, served>>
        /\ call' = [call EXCEPT ![c] = Idle]
        /\ kind' \in [Profiles -> Types]
    BY <1>0, <1>6 DEF CaptureEnds, save_auth_profile, Step, CallOK, Calls, Types, AuthTypes
  <2>2. Goes(c, {"idle"})
    BY <2>1, IdleOK DEF Goes, Moves, AuthInv, Idle
  <2> QED
    BY <1>0, <2>1, <2>2, GoesKeeps DEF Goes
<1>7. CASE ValidateForRun(c)
  <2>1. \A e \in validated' : EntryOK(e)
    BY <1>7 DEF ValidateForRun, AuthInv, Kept
  <2>2. \/ call' = [call EXCEPT ![c] = Idle]
        \/ r.path # None /\ call' = [call EXCEPT ![c] = Visiting(r, r.path, "run")]
    BY <1>7 DEF ValidateForRun, Step
  <2>3. r.path # None => r.path \in Profiles
    BY <1>0 DEF CallOK, Calls
  <2>4. r.path # None => /\ CallOK(Visiting(r, r.path, "run"))
                         /\ Visiting(r, r.path, "run").pc = "visit"
    BY <1>0, <2>3, VisitingOK
  <2>5. Goes(c, There)
    BY <2>1, <2>2, <2>4, IdleOK DEF Goes, Moves, Idle
  <2> QED
    BY <1>0, <1>7, <2>5, GoesKeeps DEF ValidateForRun
<1>8. CASE RunChecked(c)
  <2>1. \A e \in validated' : EntryOK(e)
    BY <1>8, RememberOK DEF RunChecked
  <2>2. Goes(c, {"idle"})
    BY <1>8, <2>1, IdleOK DEF Goes, Moves, Idle, RunChecked, Step
  <2> QED
    BY <1>0, <1>8, <2>2, GoesKeeps DEF Goes, RunChecked
<1> QED
  BY <1>1, <1>2, <1>3, <1>4, <1>5, <1>6, <1>7, <1>8 DEF QuietSteps

\* Who comes to log in now was not waiting while another one did whose login is
\* still trusted: the step property of LoginsAreShared.
SharedStep ==
    \A c \in Clients :
        ~ At(c, "login") /\ call'[c].pc = "login" =>
            LET s == served'[call'[c].of] IN c \notin s.who \/ now >= s.until

LEMMA GoesShares ==
    ASSUME AuthInv, NEW c \in Clients, NEW places, Goes(c, places), "login" \notin places
    PROVE  SharedStep
<1>1. \A d \in Clients \ {c} : call'[d] = call[d]
  BY DEF AuthInv, Goes, Moves
<1>2. call'[c].pc # "login"
  BY DEF AuthInv, Goes, Moves
<1> QED
  BY <1>1, <1>2 DEF SharedStep, At

\* A call that waited and finds no trusted file: whoever logged in before it is
\* trusted no more.
LEMMA TakeLockShares ==
    ASSUME AuthInv, NEW c \in Clients, TakeLock(c)
    PROVE  AuthInv' /\ SharedStep
<1>1. /\ Goes(c, {"got", "visit", "lock", "login"}) /\ DOMAIN login' = Profiles
      /\ call'[c].pc = "login" => call'[c].of = call[c].of /\ ~ Trusted(call[c].of)
  BY TakeLockGoes
<1>2. UNCHANGED <<kind, file, cache, writes, now, served>>
  BY DEF TakeLock
<1>3. AuthInv'
  BY <1>1, <1>2, GoesKeeps DEF AuthInv
<1>4. ASSUME NEW d \in Clients, ~ At(d, "login"), call'[d].pc = "login"
      PROVE  d \notin served'[call'[d].of].who \/ now >= served'[call'[d].of].until
  <2>1. d = c
    BY <1>1, <1>4 DEF Goes, Moves, AuthInv, At
  <2> DEFINE p == call[c].of
  <2>2. call'[d].of = p /\ ~ Trusted(p) /\ served' = served
    BY <1>1, <1>2, <1>4, <2>1
  <2>3. p \in Profiles
    BY DEF TakeLock, AuthInv, CallOK, Own
  <2>4. /\ served[p].who # {} => served[p].until <= cache[p] /\ file[p] # 0
        /\ served[p].until \in Nat /\ cache[p] \in Nat /\ now \in Nat
    BY <2>3 DEF AuthInv, ServedOK
  <2>5. now >= cache[p] \/ file[p] = 0
    BY <2>2, <2>4 DEF Trusted
  <2> QED
    BY <2>2, <2>4, <2>5
<1> QED
  BY <1>3, <1>4 DEF SharedStep

\* A refused file is forgotten, with those it served.
LEMMA CacheCheckedShares ==
    ASSUME AuthInv, NEW c \in Clients, CacheChecked(c)
    PROVE  AuthInv' /\ SharedStep
<1> DEFINE r == call[c]
<1>1. /\ CallOK(r) /\ r.pc = "visited" /\ r.of \in Profiles /\ r \in Calls
      /\ kind' = kind /\ kind \in [Profiles -> Types] /\ DOMAIN login = Profiles
      /\ UNCHANGED <<file, writes, now>>
  BY DEF AuthInv, CacheChecked, CallOK
<1>2. \A e \in validated' : EntryOK(e)
  BY RememberOK DEF CacheChecked, At
<1>3. DOMAIN login' = Profiles
  BY <1>1 DEF CacheChecked, Leave
<1>4. CallOK(Found(r, r.of)) /\ Found(r, r.of).pc = "got"
  BY <1>1, FoundOK
<1>5. CASE r.ok
  <2>1. Goes(c, {"got"}) /\ UNCHANGED <<cache, served>>
    BY <1>2, <1>4, <1>5 DEF CacheChecked, Goes, Moves, Step
  <2> QED
    BY <1>1, <1>3, <2>1, GoesKeeps, GoesShares
<1>6. CASE ~ r.ok
  <2>1. /\ cache' = [cache EXCEPT ![r.of] = 0]
        /\ served' = [served EXCEPT ![r.of] = Nobody]
    BY <1>6 DEF CacheChecked
  <2>2. /\ cache' \in [Profiles -> Nat]
        /\ served' \in [Profiles -> [who : SUBSET Clients, until : Nat]]
        /\ served'[r.of].who = {}
    BY <1>1, <2>1 DEF AuthInv, Nobody
  <2>3. \A p \in Profiles : ServedOK(p)'
    BY <1>1, <2>1, <2>2, AuthAssumption DEF AuthInv, ServedOK
  <2>4. /\ CallOK([r EXCEPT !.pc = "lock"]) /\ CallOK([r EXCEPT !.pc = "login"])
        /\ [r EXCEPT !.pc = "login"].of = r.of /\ [r EXCEPT !.pc = "lock"].pc = "lock"
    BY <1>1 DEF CallOK, Calls, Own
  <2>5. PICK s \in {[r EXCEPT !.pc = "lock"], [r EXCEPT !.pc = "login"], Found(r, r.of)} :
            call' = [call EXCEPT ![c] = s]
    BY <1>6 DEF CacheChecked, Step
  <2>6. CallOK(s) /\ Moves(c, s) /\ (s.pc = "login" => s.of = r.of)
    BY <1>2, <1>4, <2>4, <2>5 DEF Moves
  <2>7. AuthInv'
    BY <1>1, <1>3, <2>2, <2>3, <2>6, MoveKeeps
  <2>8. SharedStep
    <3>1. \A d \in Clients \ {c} : call'[d] = call[d]
      BY <2>5 DEF AuthInv
    <3>2. call'[c] = s
      BY <2>5 DEF AuthInv
    <3> QED
      BY <2>2, <2>6, <3>1, <3>2 DEF SharedStep, At
  <2> QED
    BY <2>7, <2>8
<1> QED
  BY <1>5, <1>6

\* A login or a conversion ends: its file is trusted for the life of an entry.
LEMMA EndsShare ==
    ASSUME AuthInv, NEW c \in Clients, LoginEnds(c) \/ ConvertEnds(c)
    PROVE  AuthInv' /\ SharedStep
<1> DEFINE r == call[c]
<1>1. /\ CallOK(r) /\ r.pc \in {"saved", "converted"} /\ r.of \in Profiles
      /\ kind' = kind /\ kind \in [Profiles -> Types] /\ DOMAIN login = Profiles
      /\ UNCHANGED <<file, writes, now>>
      /\ cache' = [cache EXCEPT ![r.of] = now + CacheLife]
      /\ Answer(c, r, r.of)
  BY DEF AuthInv, LoginEnds, ConvertEnds, CallOK, At, Own
<1>2. Goes(c, {"got", "visit", "lock"})
  <2>1. r.of # None
    BY <1>1, AuthAssumption
  <2> QED
    BY <1>1, <2>1, AnswerGoes
<1>3. DOMAIN login' = Profiles
  BY <1>1 DEF LoginEnds, ConvertEnds, Leave
<1>4. cache' \in [Profiles -> Nat] /\ now \in Nat
  BY <1>1, AuthAssumption DEF AuthInv
<1>5. CASE LoginEnds(c)
  <2>1. served' = [served EXCEPT ![r.of] = [who |-> Asking(r.of), until |-> now + CacheLife]]
    BY <1>5 DEF LoginEnds
  <2>2. Asking(r.of) \in SUBSET Clients
    BY DEF Asking
  <2>3. served' \in [Profiles -> [who : SUBSET Clients, until : Nat]]
    <3>1. now + CacheLife \in Nat
      BY <1>4, AuthAssumption
    <3>2. [who |-> Asking(r.of), until |-> now + CacheLife] \in [who : SUBSET Clients, until : Nat]
      BY <2>2, <3>1
    <3>3. served \in [Profiles -> [who : SUBSET Clients, until : Nat]]
      BY DEF AuthInv
    <3> QED
      BY <2>1, <3>2, <3>3
  <2>4. r.pc = "saved" /\ file[r.of] # 0
    BY <1>1, <1>5 DEF LoginEnds, At, CallOK
  <2>5. \A p \in Profiles : ServedOK(p)'
    BY <1>1, <1>4, <2>1, <2>4, AuthAssumption DEF AuthInv, ServedOK
  <2> QED
    BY <1>1, <1>2, <1>3, <1>4, <2>3, <2>5, MoveKeeps, GoesShares DEF Goes
<1>6. CASE ConvertEnds(c)
  <2>1. served' = served /\ served \in [Profiles -> [who : SUBSET Clients, until : Nat]]
    BY <1>6 DEF ConvertEnds, AuthInv
  <2>2. ASSUME NEW p \in Profiles PROVE ServedOK(p)'
    <3>1. ServedOK(p) /\ cache[p] \in Nat /\ served[p].until \in Nat
      BY <2>1 DEF AuthInv
    <3>2. cache'[p] = now + CacheLife \/ cache'[p] = cache[p]
      BY <1>1 DEF AuthInv
    <3> QED
      BY <1>1, <1>4, <2>1, <3>1, <3>2, AuthAssumption DEF ServedOK
  <2> QED
    BY <1>1, <1>2, <1>3, <1>4, <2>1, <2>2, MoveKeeps, GoesShares DEF Goes
<1> QED
  BY <1>5, <1>6

\* Every step of AuthSession, and every way a tool call comes to it and goes.
AuthMove ==
    \/ Tick \/ SessionEnds
    \/ \E c \in Clients :
         \/ AuthStep(c) \/ Quit(c)
         \/ \E p \in Profiles : capture_auth_session(c, p)
         \/ \E purpose \in {"run", "save", "page", "browser"},
               p \in Profiles \cup {None}, auto \in BOOLEAN :
              (purpose = "save" => p \in Profiles) /\ Enter(c, purpose, p, auto)

LEMMA AuthMoveKeeps ==
    ASSUME AuthInv, AuthMove
    PROVE  AuthInv' /\ SharedStep
<1>0. /\ DOMAIN login = Profiles /\ kind \in [Profiles -> Types]
      /\ file \in [Profiles -> Nat] /\ now \in Nat
  BY DEF AuthInv
<1>1. CASE Tick
  <2>1. file' = file /\ now' = now + 1 /\ UNCHANGED <<cache, served, kind, writes, call, validated, login>>
    BY <1>1 DEF Tick
  <2>2. /\ \A r : CallOK(r) => CallOK(r)'
        /\ \A e : EntryOK(e) => EntryOK(e)'
        /\ \A p \in Profiles : ServedOK(p)'
    BY <1>0, <2>1, LaterOK
  <2> QED
    BY <1>0, <2>1, <2>2 DEF AuthInv, SharedStep, At
<1>2. CASE SessionEnds
  <2>1. UNCHANGED <<file, now, cache, served, kind, writes, call, validated, login>>
    BY <1>2 DEF SessionEnds
  <2> QED
    BY <2>1 DEF AuthInv, SharedStep, At, CallOK, EntryOK, ServedOK
<1>3. ASSUME NEW c \in Clients, QuietSteps(c) PROVE AuthInv' /\ SharedStep
  BY <1>3, QuietGoes, GoesShares
<1>4. ASSUME NEW c \in Clients, LoginSaves(c) \/ ConvertSaves(c) \/ CaptureSaves(c)
      PROVE  AuthInv' /\ SharedStep
  <2>1. call[c].of \in Profiles
    BY <1>4 DEF LoginSaves, ConvertSaves, CaptureSaves, At, AuthInv, CallOK, Own
  <2>2. PICK pc \in {"saved", "converted", "captured"} :
            /\ Step(c, [call[c] EXCEPT !.pc = pc])
            /\ \E session \in BOOLEAN : Store(call[c].of, session)
            /\ UNCHANGED <<config, kind, cache, validated, login, now, served>>
    BY <1>4 DEF LoginSaves, ConvertSaves, CaptureSaves
  <2>3. call[c] \in Calls
    BY DEF AuthInv, CallOK
  <2>4. SharedStep
    BY <2>2, <2>3 DEF SharedStep, At, Step, AuthInv, Calls
  <2> QED
    BY <2>1, <2>2, <2>4, StoreKeeps
<1>5. ASSUME NEW c \in Clients, Quit(c) PROVE AuthInv' /\ SharedStep
  BY <1>0, <1>5, QuitGoes, GoesKeeps, GoesShares DEF Quit
<1>6. ASSUME NEW c \in Clients, NEW p \in Profiles, capture_auth_session(c, p)
      PROVE  AuthInv' /\ SharedStep
  BY <1>0, <1>6, CaptureGoes, GoesKeeps, GoesShares DEF capture_auth_session
<1>7. ASSUME NEW c \in Clients, NEW purpose \in {"run", "save", "page", "browser"},
             NEW p \in Profiles \cup {None}, NEW auto \in BOOLEAN,
             purpose = "save" => p \in Profiles, Enter(c, purpose, p, auto)
      PROVE  AuthInv' /\ SharedStep
  <2>1. Goes(c, {"resolve"})
    BY <1>7, EnterGoes
  <2> QED
    BY <1>0, <1>7, <2>1, GoesKeeps, GoesShares DEF Enter
<1> QED
  BY <1>1, <1>2, <1>3, <1>4, <1>5, <1>6, <1>7, TakeLockShares, CacheCheckedShares,
     EndsShare DEF AuthMove, AuthStep, QuietSteps

\* What the cache answers for a file as it is now was said of these cookies.
LEMMA VerdictsAreOfTheFile == AuthInv => TestedIsThisFile
<1> SUFFICES ASSUME AuthInv, NEW e \in validated, e.mtime = file[e.of], now < e.expires
             PROVE  e.tried = file[e.of] /\ now - e.at < ValidityLife
  BY DEF TestedIsThisFile
<1>1. EntryOK(e) /\ now \in Nat /\ file \in [Profiles -> Nat]
  BY DEF AuthInv
<1>2. /\ file[e.of] \in Nat /\ e.mtime \in Nat /\ e.tried \in Nat /\ e.at \in Nat
      /\ e.expires \in Nat /\ ValidityLife \in Nat
  BY <1>1, AuthAssumption DEF EntryOK
<1>3. /\ e.mtime <= e.tried /\ e.tried <= file[e.of]
      /\ e.expires <= e.at + ValidityLife /\ e.at <= now
  BY <1>1 DEF EntryOK
<1>4. e.tried = file[e.of]
  BY <1>2, <1>3
<1>5. now - e.at < ValidityLife
  BY <1>1, <1>2, <1>3
<1> QED
  BY <1>4, <1>5
=============================================================================
