------------------------------ MODULE Sessions ------------------------------
(***************************************************************************)
(* Browser sessions and the login lockout: auth/auth.go, structs/ws.go,    *)
(* the session half of ws/ws.go and handler/handler.go, setup/setup.go.    *)
(*                                                                         *)
(* Every websocket connection has a handler goroutine (WsHandler).  The    *)
(* ClientManager keeps two maps from token ids to connections, one of      *)
(* logged-in clients and one of the others; a handler changes them in      *)
(* critical sections of their own, with the saving of system.json between  *)
(* them, so two tabs of a browser that share a token interleave.  The      *)
(* broadcaster, the ten-minute cleanup and the lockout goroutines change   *)
(* the same state.  Written from the code; passwords, keys and payloads    *)
(* are left out.                                                           *)
(***************************************************************************)
EXTENDS Integers, FiniteSets

CONSTANTS
    Conns,            \* connections (a new one may take an unlisted identity)
    Tokens,           \* the ids CreateToken can draw (bound on its calls)
    NoToken, NoConn,  \* the empty id; the nil connection of a cached session
    Enforcers,        \* lockout goroutines that may run at once (bound)
    MaxFailedLogins,  \* wrong passwords before a lockout
    LockoutTime,      \* seconds of a lockout
    Budgets           \* bounds: is the device new, and how many connections,
                      \* failed saves, restarts and wrong passwords there are

ASSUME NilsAssumption == NoToken \notin Tokens /\ NoConn \notin Conns
ASSUME LoginsAssumption == MaxFailedLogins \in Nat \ {0}
ASSUME LockoutAssumption == LockoutTime \in Nat \ {0}
Budget == [new : BOOLEAN, connects : Nat, saves : Nat, restarts : Nat, wrong : Nat]
ASSUME BudgetsAssumption == Budgets \subseteq Budget

VARIABLES
    auth, unauth,     \* the two maps: token id -> connections listed under it
    saved,            \* ids under sessions.authorized in system.json
    done,             \* setup is "complete" in system.json
    issued,           \* ids CreateToken has drawn
    h,                \* the handler of each connection
    loginMu,          \* the handler that holds the login lock, or NoConn
    failed,           \* failedLogins, which saturates at MaxFailedLogins
    remainder,        \* seconds of lockout left, shown to the login page
    enf,              \* the lockout goroutines
    kept,             \* history: ids logged in and not ended since
    torn,             \* history: ids whose last save failed on the way
    left              \* what is left of the budget

maps == <<auth, unauth>>
lockout == <<loginMu, failed, remainder, enf>>
history == <<kept, torn>>
vars == <<auth, unauth, saved, done, issued, h, lockout, history, left>>

Ids == Tokens \cup {NoToken}
Pcs == {"idle", "first", "add", "save", "purge", "loop", "login",
        "muteAuth", "muteUnauth"}
Client == [conn : Conns \cup {NoConn}, active : BOOLEAN, recent : BOOLEAN]
Handler == [pc : Pcs, open : BOOLEAN,       \* open: the browser is there
            token : Ids, authed : BOOLEAN,  \* arguments of AddToAuthMap
            again : BOOLEAN,                \* a second AddToAuthMap follows
            complete : BOOLEAN,             \* its copy of conf.Setup
            reload : BOOLEAN]               \* that it reads anew at the end
Idle == [pc |-> "idle", open |-> FALSE, token |-> NoToken, authed |-> FALSE,
         again |-> FALSE, complete |-> FALSE, reload |-> FALSE]
Looping(open, complete) ==
    [Idle EXCEPT !.pc = "loop", !.open = open, !.complete = complete]
Off == [pc |-> "off", val |-> 0]

-----------------------------------------------------------------------------
(* The ClientManager *)

At(map, t, c) == {m \in map[t] : m.conn = c}
Lists(map, t, c) == At(map, t, c) # {}
WsAuthCheck(c) == \E t \in Ids : Lists(auth, t, c)
Listed(c) == \E t \in Ids : Lists(auth, t, c) \/ Lists(unauth, t, c)

\* recent: LastActive is less than half an hour ago; it starts out as zero.
NewClient(c) == [conn |-> c, active |-> TRUE, recent |-> FALSE]
Cached == [conn |-> NoConn, active |-> FALSE, recent |-> FALSE]

Moved(from, t, c) == [from EXCEPT ![t] = @ \ At(from, t, c)]
Joined(to, t, c) ==
    [to EXCEPT ![t] = IF Lists(to, t, c) THEN @ ELSE @ \cup {NewClient(c)}]

AddAuthClient(t, c) ==
    /\ unauth' = Moved(unauth, t, c)
    /\ auth' = Joined(auth, t, c)

AddUnauthClient(t, c) ==
    /\ auth' = Moved(auth, t, c)
    /\ unauth' = Joined(unauth, t, c)

With(map, t, m, new) == [map EXCEPT ![t] = (@ \ {m}) \cup {new}]

\* The map with one entry of the connection muted, if it has any.
Muted(map, c) ==
    IF \A t \in Ids : ~Lists(map, t, c) THEN {map}
    ELSE UNION {{With(map, t, m, [m EXCEPT !.active = FALSE]) : m \in At(map, t, c)}
                : t \in Ids}

\* RemoveFromAuthMap drops the id with every connection under it.
RemoveFromAuthMap(t, fromAuthorized) ==
    IF fromAuthorized
    THEN auth' = [auth EXCEPT ![t] = {}] /\ UNCHANGED unauth
    ELSE unauth' = [unauth EXCEPT ![t] = {}] /\ UNCHANGED auth

TokenIdAuthed(t) == auth[t] # {}
CheckToken(t) == t # NoToken /\ TokenIdAuthed(t)

-----------------------------------------------------------------------------
(* AddToAuthMap: add to one map, save the session, purge the other map. *)

Adding(c, t, authed, again, complete, reload) ==
    h' = [h EXCEPT ![c] = [@ EXCEPT !.pc = "add", !.token = t, !.authed = authed,
                                    !.again = again, !.complete = complete,
                                    !.reload = reload]]

\* CreateToken's AddToAuthMap is followed by WsHandler's own; LoginHandler's
\* ends with the release of its lock; a setup message re-reads the settings.
Added(c) ==
    /\ h' = [h EXCEPT ![c] =
                IF @.again THEN [@ EXCEPT !.pc = "add", !.again = FALSE]
                ELSE Looping(@.open, IF @.reload THEN done ELSE @.complete)]
    /\ loginMu' = IF loginMu = c THEN NoConn ELSE loginMu
    /\ UNCHANGED <<failed, remainder, enf>>

AddToAuthMap(c) ==
    /\ h[c].pc = "add"
    /\ IF h[c].authed THEN AddAuthClient(h[c].token, c)
                      ELSE AddUnauthClient(h[c].token, c)
    /\ h' = [h EXCEPT ![c].pc = "save"]
    /\ UNCHANGED <<saved, done, issued, lockout, history, left>>

\* UpdateConf replaces the whole "sessions" object of the file.
AddSession(c) ==
    /\ h[c].pc = "save"
    /\ saved' = IF h[c].authed THEN {h[c].token} ELSE {}
    /\ h' = [h EXCEPT ![c].pc = "purge"]
    /\ UNCHANGED <<maps, done, issued, lockout, history, left>>

AddSessionFails(c) ==
    /\ h[c].pc = "save"
    /\ left.saves > 0
    /\ left' = [left EXCEPT !.saves = @ - 1]
    /\ Added(c)
    /\ torn' = torn \cup {h[c].token}
    /\ UNCHANGED <<maps, saved, done, issued, kept>>

\* A handler that decided earlier that the id is not logged in.
Demoting(t) ==
    \E c \in Conns : /\ h[c].pc \in {"add", "save", "purge"}
                     /\ h[c].token = t
                     /\ ~h[c].authed

\* Mutant: the purge takes away only the handler's own connection.
PurgeOwnOnly(c) ==
    /\ h[c].pc = "purge"
    /\ IF h[c].authed THEN unauth' = Moved(unauth, h[c].token, c) /\ UNCHANGED auth
                      ELSE auth' = Moved(auth, h[c].token, c) /\ UNCHANGED unauth
    /\ Added(c)
    /\ torn' = torn \ {h[c].token}
    /\ UNCHANGED <<saved, done, issued, kept, left>>

PurgeOpposite(c) ==
    /\ h[c].pc = "purge"
    /\ RemoveFromAuthMap(h[c].token, ~h[c].authed)
    /\ Added(c)
    /\ torn' = torn \ {h[c].token}
    /\ kept' = IF h[c].authed /\ h[c].token # NoToken /\ ~Demoting(h[c].token)
                   /\ TokenIdAuthed(h[c].token)
               THEN kept \cup {h[c].token} ELSE kept
    /\ UNCHANGED <<saved, done, issued, left>>

-----------------------------------------------------------------------------
(* WsHandler *)

Connect(c) ==
    /\ h[c].pc = "idle"
    /\ ~Listed(c)
    /\ left.connects > 0
    /\ left' = [left EXCEPT !.connects = @ - 1]
    /\ h' = [h EXCEPT ![c] = [Idle EXCEPT !.pc = "first", !.open = TRUE]]
    /\ UNCHANGED <<maps, saved, done, issued, lockout, history>>

Leave(c) ==
    /\ h[c].open
    /\ h' = [h EXCEPT ![c].open = FALSE]
    /\ UNCHANGED <<maps, saved, done, issued, lockout, history, left>>

\* A browser sends an id it was given, by any tab; a handler whose browser has
\* left goes on with an empty payload.
Sends(c, t) == t \in issued \cup {NoToken} /\ (h[c].open \/ t = NoToken)

FirstMessage(c) ==
    \E t \in Ids :
        /\ h[c].pc = "first"
        /\ Sends(c, t)
        /\ \/ /\ done => CheckToken(t)
              /\ Adding(c, t, CheckToken(t), FALSE, done, FALSE)
              /\ UNCHANGED issued
           \/ /\ done /\ ~CheckToken(t)                    \* CreateToken
              /\ \E new \in Tokens \ issued :
                    /\ issued' = issued \cup {new}
                    /\ Adding(c, new, FALSE, TRUE, done, FALSE)
        /\ UNCHANGED <<maps, saved, done, lockout, history, left>>

Message(c, t) == h[c].pc = "loop" /\ h[c].open /\ Sends(c, t)

\* The handler goes by its own copy of the setup stage.
Allowed(c, t) == CheckToken(t) \/ ~h[c].complete

Relogin(c) ==
    \E t \in Ids :
        /\ Message(c, t) /\ Allowed(c, t)
        /\ Adding(c, t, TRUE, FALSE, h[c].complete, FALSE)
        /\ UNCHANGED <<maps, saved, done, issued, lockout, history, left>>

\* Mutant: every "verify" is taken for one of the setup.
VerifyInSetup(c) ==
    \E t \in Ids :
        /\ Message(c, t) /\ Allowed(c, t)
        /\ Adding(c, t, FALSE, FALSE, h[c].complete, FALSE)
        /\ kept' = IF h[c].complete THEN kept ELSE kept \ {t}
        /\ UNCHANGED <<maps, saved, done, issued, lockout, torn, left>>

\* "verify" of a tab that still shows the setup logs the id out.
Verify(c) ==
    \E t \in Ids :
        /\ Message(c, t) /\ Allowed(c, t)
        /\ Adding(c, t, h[c].complete, FALSE, h[c].complete, FALSE)
        /\ kept' = IF h[c].complete THEN kept ELSE kept \ {t}
        /\ UNCHANGED <<maps, saved, done, issued, lockout, torn, left>>

\* "logout", and "password" that changed the password.
Logout(c) ==
    \E t \in Ids :
        /\ Message(c, t) /\ Allowed(c, t)
        /\ RemoveFromAuthMap(t, TRUE)
        /\ kept' = kept \ {t}
        /\ UNCHANGED <<saved, done, issued, h, lockout, torn, left>>

\* "begin" and "password" set an earlier stage, "startram" and "skip" the last.
SetupStage(c) ==
    /\ Message(c, NoToken) /\ ~h[c].complete
    /\ done' = FALSE
    /\ UNCHANGED <<maps, saved, issued, h, lockout, history, left>>

SetupComplete(c) ==
    \E t \in Ids :
        /\ Message(c, t) /\ ~h[c].complete
        /\ done' = TRUE
        /\ Adding(c, t, TRUE, FALSE, h[c].complete, TRUE)
        /\ UNCHANGED <<maps, saved, issued, lockout, history, left>>

\* A setup message that fails re-reads the settings all the same.
SetupFails(c) ==
    /\ Message(c, NoToken) /\ ~h[c].complete
    /\ h' = [h EXCEPT ![c].complete = done]
    /\ UNCHANGED <<maps, saved, done, issued, lockout, history, left>>

\* Read fails.  A close it recognises mutes the session, another error not.
Ends(c) ==
    /\ h[c].pc = "loop" /\ ~h[c].open
    /\ \/ h' = [h EXCEPT ![c].pc = IF WsAuthCheck(c) THEN "muteAuth" ELSE "muteUnauth"]
       \/ h' = [h EXCEPT ![c] = Idle]
    /\ UNCHANGED <<maps, saved, done, issued, lockout, history, left>>

\* WsNilSession mutes the first entry it comes across.
WsNilSession(c) ==
    /\ \/ h[c].pc = "muteAuth" /\ auth' \in Muted(auth, c) /\ UNCHANGED unauth
       \/ h[c].pc = "muteUnauth" /\ unauth' \in Muted(unauth, c) /\ UNCHANGED auth
    /\ h' = [h EXCEPT ![c] = Idle]
    /\ UNCHANGED <<saved, done, issued, lockout, history, left>>

-----------------------------------------------------------------------------
(* Login and the lockout *)

LoginMessage(c) ==
    \E t \in Ids :
        /\ Message(c, t) /\ ~Allowed(c, t)
        /\ h' = [h EXCEPT ![c].pc = "login", ![c].token = t]
        /\ UNCHANGED <<maps, saved, done, issued, lockout, history, left>>

\* The lock is held until the session is added; AuthToken refuses no token.
LoginHandlerRight(c) ==
    /\ h[c].pc = "login" /\ loginMu = NoConn
    /\ failed' = 0
    /\ IF h[c].token = NoToken
       THEN /\ h' = [h EXCEPT ![c] = Looping(@.open, @.complete)]
            /\ UNCHANGED loginMu
       ELSE /\ loginMu' = c
            /\ Adding(c, h[c].token, TRUE, FALSE, h[c].complete, FALSE)
    /\ UNCHANGED <<maps, saved, done, issued, remainder, enf, history, left>>

StartsLockout == failed' >= MaxFailedLogins /\ remainder = 0

LoginHandlerWrong(c) ==
    /\ h[c].pc = "login" /\ loginMu = NoConn
    /\ left.wrong > 0
    /\ left' = [left EXCEPT !.wrong = @ - 1]
    /\ failed' = IF failed < MaxFailedLogins THEN failed + 1 ELSE failed
    /\ IF StartsLockout
       THEN \E e \in Enforcers : /\ enf[e].pc = "off"
                                /\ enf' = [enf EXCEPT ![e].pc = "start"]
       ELSE UNCHANGED enf
    /\ h' = [h EXCEPT ![c] = Looping(@.open, @.complete)]
    /\ UNCHANGED <<maps, saved, done, issued, loginMu, remainder, history>>

\* enforceLockout counts down without the login lock.
EnforceStart(e) ==
    /\ enf[e].pc = "start"
    /\ remainder' = LockoutTime
    /\ enf' = [enf EXCEPT ![e].pc = "count"]
    /\ UNCHANGED <<maps, saved, done, issued, h, loginMu, failed, history, left>>

EnforceTick(e) ==
    /\ enf[e].pc = "count" /\ remainder > 0
    /\ enf' = [enf EXCEPT ![e].pc = "tick"]
    /\ UNCHANGED <<maps, saved, done, issued, h, loginMu, failed, remainder, history, left>>

EnforceRead(e) ==
    /\ enf[e].pc = "tick"
    /\ enf' = [enf EXCEPT ![e] = [pc |-> "write", val |-> remainder - 1]]
    /\ UNCHANGED <<maps, saved, done, issued, h, loginMu, failed, remainder, history, left>>

EnforceWrite(e) ==
    /\ enf[e].pc = "write"
    /\ remainder' = enf[e].val
    /\ enf' = [enf EXCEPT ![e] = [pc |-> "count", val |-> 0]]
    /\ UNCHANGED <<maps, saved, done, issued, h, loginMu, failed, history, left>>

Ending(e) == enf[e].pc = "count" /\ remainder <= 0 /\ loginMu = NoConn
EnforceUnchanged == UNCHANGED <<maps, saved, done, issued, h, loginMu, history, left>>

\* Mutants: the end of a lockout forgets the failed logins; it waits for a
\* countdown that stops at zero.
EnforceEndKeepsFailed(e) ==
    /\ Ending(e)
    /\ remainder' = 0
    /\ enf' = [enf EXCEPT ![e] = Off]
    /\ EnforceUnchanged /\ UNCHANGED failed

EnforceEndAtZero(e) ==
    /\ Ending(e) /\ remainder = 0
    /\ failed' = 0 /\ remainder' = 0
    /\ enf' = [enf EXCEPT ![e] = Off]
    /\ EnforceUnchanged

EnforceEnd(e) ==
    /\ Ending(e)
    /\ failed' = 0 /\ remainder' = 0
    /\ enf' = [enf EXCEPT ![e] = Off]
    /\ EnforceUnchanged

Enforce(e) ==
    \/ EnforceStart(e) \/ EnforceTick(e) \/ EnforceRead(e)
    \/ EnforceWrite(e) \/ EnforceEnd(e)

-----------------------------------------------------------------------------
(* The broadcaster writes to one entry after the other, the cleanup runs     *)
(* every ten minutes, and the daemon may restart at any time.                *)

\* A write that succeeds refreshes LastActive, one that fails mutes.  A write to
\* a browser that has left may seem to work until its handler has ended.
BroadcastAuth(c) ==
    /\ \E t \in Ids : \E m \in At(auth, t, c) :
          /\ m.active
          /\ \/ h[c].pc # "idle" /\ auth' = With(auth, t, m, [m EXCEPT !.recent = TRUE])
             \/ ~h[c].open /\ auth' = With(auth, t, m, [m EXCEPT !.active = FALSE])
    /\ UNCHANGED <<unauth, saved, done, issued, h, lockout, history, left>>

\* Only the lockout writes to the clients that are not logged in.
BroadcastUnauth(c) ==
    /\ \E e \in Enforcers : enf[e].pc \in {"count", "tick"}
    /\ \E t \in Ids : \E m \in At(unauth, t, c) :
          /\ m.active
          /\ \/ h[c].pc # "idle" /\ unauth' = With(unauth, t, m, [m EXCEPT !.recent = TRUE])
             \/ ~h[c].open /\ unauth' = With(unauth, t, m, [m EXCEPT !.active = FALSE])
    /\ UNCHANGED <<auth, saved, done, issued, h, lockout, history, left>>

\* Half an hour without a write: a muted client, or one that is not logged in.
GrowsOld(c) ==
    /\ \/ /\ \E t \in Ids : \E m \in At(auth, t, c) :
                m.recent /\ ~m.active /\ auth' = With(auth, t, m, [m EXCEPT !.recent = FALSE])
          /\ UNCHANGED unauth
       \/ /\ \E t \in Ids : \E m \in At(unauth, t, c) :
                m.recent /\ unauth' = With(unauth, t, m, [m EXCEPT !.recent = FALSE])
          /\ UNCHANGED auth
    /\ UNCHANGED <<saved, done, issued, h, lockout, history, left>>

\* Mutant: only the logged-in clients are cleaned up.
CleanupAuthOnly ==
    /\ auth' = [t \in Ids |-> {m \in auth[t] : m.recent}]
    /\ kept' = {t \in kept : TokenIdAuthed(t)'}
    /\ UNCHANGED <<unauth, saved, done, issued, h, lockout, torn, left>>

CleanupStaleSessions ==
    /\ auth' = [t \in Ids |-> {m \in auth[t] : m.recent}]
    /\ unauth' = [t \in Ids |-> {m \in unauth[t] : m.recent}]
    /\ kept' = {t \in kept : TokenIdAuthed(t)'}
    /\ UNCHANGED <<saved, done, issued, h, lockout, torn, left>>

\* The saved sessions that init caches from system.json.
CachedSessions == [t \in Ids |-> IF t \in saved THEN {Cached} ELSE {}]

Restart ==
    /\ left.restarts > 0
    /\ left' = [left EXCEPT !.restarts = @ - 1]
    /\ auth' = CachedSessions
    /\ unauth' = [t \in Ids |-> {}]
    /\ h' = [c \in Conns |-> Idle]
    /\ loginMu' = NoConn /\ failed' = 0 /\ remainder' = 0
    /\ enf' = [e \in Enforcers |-> Off]
    /\ kept' = {} /\ torn' = {}
    /\ UNCHANGED <<saved, done, issued>>

-----------------------------------------------------------------------------
\* A device before its setup, and one that has been set up earlier.
Init ==
    /\ auth = [t \in Ids |-> {}] /\ unauth = [t \in Ids |-> {}]
    /\ saved = {} /\ issued = {}
    /\ h = [c \in Conns |-> Idle]
    /\ loginMu = NoConn /\ failed = 0 /\ remainder = 0
    /\ enf = [e \in Enforcers |-> Off]
    /\ kept = {} /\ torn = {}
    /\ left \in Budgets /\ done = ~left.new

Runs(c) ==
    \/ AddToAuthMap(c) \/ AddSession(c) \/ AddSessionFails(c) \/ PurgeOpposite(c)
    \/ FirstMessage(c) \/ Ends(c) \/ WsNilSession(c)
    \/ LoginHandlerRight(c) \/ LoginHandlerWrong(c)

Acts(c) ==
    \/ Connect(c) \/ Leave(c) \/ Relogin(c) \/ Verify(c) \/ Logout(c)
    \/ SetupStage(c) \/ SetupFails(c) \/ SetupComplete(c)
    \/ LoginMessage(c)

Time(c) == BroadcastAuth(c) \/ BroadcastUnauth(c) \/ GrowsOld(c)

Next ==
    \/ \E c \in Conns : Runs(c) \/ Acts(c) \/ Time(c)
    \/ \E e \in Enforcers : Enforce(e)
    \/ CleanupStaleSessions
    \/ Restart

Spec == Init /\ [][Next]_vars

\* Handlers go on, and so do the lockouts, the cleanup, the broadcaster and time;
\* a goroutine that waits for the login lock gets it (a Go mutex starves nobody).
Fairness ==
    /\ \A c \in Conns : WF_vars(Runs(c)) /\ WF_vars(Time(c))
    /\ WF_vars(\E e \in Enforcers : Enforce(e))
    /\ SF_vars(\E e \in Enforcers : EnforceEnd(e))
    /\ WF_vars(CleanupStaleSessions)

FairSpec == Spec /\ Fairness

-----------------------------------------------------------------------------
(* Properties *)

\* The variables keep their types.
MapsTyped == auth \in [Ids -> SUBSET Client] /\ unauth \in [Ids -> SUBSET Client]
FilesTyped == saved \subseteq Ids /\ done \in BOOLEAN /\ issued \subseteq Tokens
LockoutTyped ==
    /\ loginMu \in Conns \cup {NoConn}
    /\ failed \in 0..MaxFailedLogins /\ remainder \in Int
    /\ enf \in [Enforcers -> [pc : {"off", "start", "count", "tick", "write"}, val : Int]]
HistoryTyped == kept \subseteq Tokens /\ torn \subseteq Ids
TypeOK ==
    /\ MapsTyped /\ FilesTyped /\ LockoutTyped /\ HistoryTyped
    /\ h \in [Conns -> Handler]
    /\ left \in Budget

\* An id is in both maps only while a handler is between its add and its
\* purge (or the save between them failed): however the handlers of two tabs
\* interleave, a session ends up on one side (auth.go:166).
OneSide ==
    \A t \in Ids :
        auth[t] # {} /\ unauth[t] # {} =>
            \/ t \in torn
            \/ \E c \in Conns : h[c].token = t /\ h[c].pc \in {"save", "purge"}

\* Once its login is through, a session stays logged in whatever the other
\* tabs do, until a logout, the cleanup, a restart or a "verify" of a tab that
\* still shows the setup: no handler removes it on a check made earlier.
SessionKept == \A t \in kept : auth[t] # {}

\* Whenever the login page shows a lockout, or the failed logins have reached
\* the limit, a goroutine is there that will end it.
LockoutHasEnforcer ==
    failed >= MaxFailedLogins \/ remainder # 0 =>
        \E e \in Enforcers : enf[e].pc # "off"

\* A lockout ends.
LockoutEnds == failed >= MaxFailedLogins ~> failed = 0 /\ remainder = 0

\* A connection that is gone is forgotten, however it ended.
ClosedForgotten == \A c \in Conns : h[c].pc = "idle" ~> ~Listed(c)
=============================================================================
