--------------------------- MODULE SessionsProofs ---------------------------
(***************************************************************************)
(* Theorems about Sessions, for any connections, ids, lockout goroutines,  *)
(* limits and budgets: the variables keep their types, a lockout always    *)
(* has a goroutine that will end it, a session ends up on one side, and a  *)
(* login that is through is undone by nobody who decided before it.        *)
(* Every action is shown to keep the types in a lemma of its own; what the *)
(* handlers do to their records and to the maps is stated first.           *)
(***************************************************************************)
EXTENDS Sessions, TLAPS

-----------------------------------------------------------------------------
(* The records of the handlers *)

LEMMA PcTyped ==
    ASSUME NEW hs \in [Conns -> Handler], NEW c \in Conns, NEW pc \in Pcs
    PROVE  [hs EXCEPT ![c].pc = pc] \in [Conns -> Handler]
BY DEF Handler

LEMMA RecordTyped ==
    ASSUME NEW hs \in [Conns -> Handler], NEW c \in Conns, NEW r \in Handler
    PROVE  [hs EXCEPT ![c] = r] \in [Conns -> Handler]
OBVIOUS

LEMMA IdleTyped == Idle \in Handler
BY DEF Idle, Handler, Pcs, Ids

LEMMA LoopingTyped ==
    ASSUME NEW open \in BOOLEAN, NEW complete \in BOOLEAN
    PROVE  Looping(open, complete) \in Handler
BY DEF Looping, Idle, Handler, Pcs, Ids

LEMMA AddingTyped ==
    ASSUME h \in [Conns -> Handler], NEW c \in Conns, NEW t \in Ids,
           NEW authed \in BOOLEAN, NEW again \in BOOLEAN,
           NEW complete \in BOOLEAN, NEW reload \in BOOLEAN,
           Adding(c, t, authed, again, complete, reload)
    PROVE  h' \in [Conns -> Handler]
<1>1. h[c] \in Handler
  OBVIOUS
<1>2. [h[c] EXCEPT !.pc = "add", !.token = t, !.authed = authed, !.again = again,
                   !.complete = complete, !.reload = reload] \in Handler
  BY <1>1 DEF Handler, Pcs
<1> QED
  BY <1>2, RecordTyped DEF Adding

LEMMA AddedTyped ==
    ASSUME TypeOK, NEW c \in Conns, Added(c)
    PROVE  h' \in [Conns -> Handler] /\ LockoutTyped'
<1> h \in [Conns -> Handler] /\ h[c] \in Handler /\ done \in BOOLEAN
  BY DEF TypeOK, FilesTyped
<1>1. Looping(h[c].open, IF h[c].reload THEN done ELSE h[c].complete) \in Handler
  BY LoopingTyped DEF Handler
<1>2. [h[c] EXCEPT !.pc = "add", !.again = FALSE] \in Handler
  BY DEF Handler, Pcs
<1>3. h' \in [Conns -> Handler]
  BY <1>1, <1>2 DEF Added
<1>4. LockoutTyped'
  BY DEF Added, TypeOK, LockoutTyped
<1> QED
  BY <1>3, <1>4

-----------------------------------------------------------------------------
(* The maps *)

LEMMA MovedTyped ==
    ASSUME NEW map \in [Ids -> SUBSET Client], NEW t \in Ids, NEW c \in Conns
    PROVE  Moved(map, t, c) \in [Ids -> SUBSET Client]
BY DEF Moved, At

LEMMA JoinedTyped ==
    ASSUME NEW map \in [Ids -> SUBSET Client], NEW t \in Ids, NEW c \in Conns
    PROVE  Joined(map, t, c) \in [Ids -> SUBSET Client]
<1>1. NewClient(c) \in Client
  BY DEF NewClient, Client
<1> QED
  BY <1>1 DEF Joined

LEMMA WithTyped ==
    ASSUME NEW map \in [Ids -> SUBSET Client], NEW t \in Ids, NEW m, NEW new \in Client
    PROVE  With(map, t, m, new) \in [Ids -> SUBSET Client]
BY DEF With

LEMMA ClientTyped ==
    ASSUME NEW m \in Client, NEW b \in BOOLEAN
    PROVE  [m EXCEPT !.active = b] \in Client /\ [m EXCEPT !.recent = b] \in Client
BY DEF Client

LEMMA MutedTyped ==
    ASSUME NEW map \in [Ids -> SUBSET Client], NEW c \in Conns, NEW new \in Muted(map, c)
    PROVE  new \in [Ids -> SUBSET Client]
<1>1. CASE new = map
  BY <1>1
<1>2. CASE \E t \in Ids : \E m \in At(map, t, c) :
             new = With(map, t, m, [m EXCEPT !.active = FALSE])
  <2> PICK t \in Ids : \E m \in At(map, t, c) :
        new = With(map, t, m, [m EXCEPT !.active = FALSE])
    BY <1>2
  <2> PICK m \in At(map, t, c) : new = With(map, t, m, [m EXCEPT !.active = FALSE])
    OBVIOUS
  <2>1. m \in Client
    BY DEF At
  <2> QED
    BY <2>1, ClientTyped, WithTyped
<1> QED
  BY <1>1, <1>2 DEF Muted

LEMMA RemoveTyped ==
    ASSUME MapsTyped, NEW t \in Ids, NEW b \in BOOLEAN, RemoveFromAuthMap(t, b)
    PROVE  MapsTyped'
BY DEF RemoveFromAuthMap, MapsTyped

-----------------------------------------------------------------------------
(* The budgets *)

LEMMA SpentTyped ==
    ASSUME left \in Budget
    PROVE  /\ left.saves > 0 => [left EXCEPT !.saves = @ - 1] \in Budget
           /\ left.connects > 0 => [left EXCEPT !.connects = @ - 1] \in Budget
           /\ left.restarts > 0 => [left EXCEPT !.restarts = @ - 1] \in Budget
           /\ left.wrong > 0 => [left EXCEPT !.wrong = @ - 1] \in Budget
BY DEF Budget

-----------------------------------------------------------------------------
(* AddToAuthMap *)

LEMMA AddToAuthMapTyped ==
    ASSUME TypeOK, NEW c \in Conns, AddToAuthMap(c)
    PROVE  TypeOK'
<1>1. h[c] \in Handler /\ h[c].token \in Ids
  BY DEF TypeOK, Handler
<1> auth \in [Ids -> SUBSET Client] /\ unauth \in [Ids -> SUBSET Client]
  BY DEF TypeOK, MapsTyped
<1>2. MapsTyped'
  <2>1. CASE h[c].authed
    <3>1. AddAuthClient(h[c].token, c)
      BY <2>1 DEF AddToAuthMap
    <3> QED
      BY <1>1, <3>1, MovedTyped, JoinedTyped DEF AddAuthClient, MapsTyped
  <2>2. CASE ~h[c].authed
    <3>1. AddUnauthClient(h[c].token, c)
      BY <2>2 DEF AddToAuthMap
    <3> QED
      BY <1>1, <3>1, MovedTyped, JoinedTyped DEF AddUnauthClient, MapsTyped
  <2> QED
    BY <2>1, <2>2
<1>3. h' \in [Conns -> Handler]
  BY PcTyped DEF AddToAuthMap, TypeOK, Pcs
<1> QED
  BY <1>2, <1>3 DEF AddToAuthMap, TypeOK, FilesTyped, LockoutTyped, HistoryTyped, lockout, history

LEMMA AddSessionTyped ==
    ASSUME TypeOK, NEW c \in Conns, AddSession(c)
    PROVE  TypeOK'
<1>1. h[c] \in Handler /\ h[c].token \in Ids
  BY DEF TypeOK, Handler
<1>2. FilesTyped'
  BY <1>1 DEF AddSession, TypeOK, FilesTyped
<1>3. h' \in [Conns -> Handler]
  BY PcTyped DEF AddSession, TypeOK, Pcs
<1> QED
  BY <1>2, <1>3 DEF AddSession, TypeOK, MapsTyped, LockoutTyped, HistoryTyped, lockout, history, maps

LEMMA AddSessionFailsTyped ==
    ASSUME TypeOK, NEW c \in Conns, AddSessionFails(c)
    PROVE  TypeOK'
<1>1. h[c] \in Handler /\ h[c].token \in Ids
  BY DEF TypeOK, Handler
<1>2. h' \in [Conns -> Handler] /\ LockoutTyped'
  BY AddedTyped DEF AddSessionFails
<1>3. left' \in Budget
  BY SpentTyped DEF AddSessionFails, TypeOK
<1>4. HistoryTyped'
  BY <1>1 DEF AddSessionFails, TypeOK, HistoryTyped
<1> QED
  BY <1>2, <1>3, <1>4 DEF AddSessionFails, TypeOK, MapsTyped, FilesTyped, maps

LEMMA PurgeOppositeTyped ==
    ASSUME TypeOK, NEW c \in Conns, PurgeOpposite(c)
    PROVE  TypeOK'
<1>1. h[c] \in Handler /\ h[c].token \in Ids /\ h[c].authed \in BOOLEAN
  BY DEF TypeOK, Handler
<1>2. h' \in [Conns -> Handler] /\ LockoutTyped'
  BY AddedTyped DEF PurgeOpposite
<1>3. MapsTyped'
  BY <1>1, RemoveTyped DEF PurgeOpposite, TypeOK
<1>4. HistoryTyped'
  <2>1. kept' \subseteq kept \cup ({h[c].token} \ {NoToken})
    BY DEF PurgeOpposite
  <2> QED
    BY <1>1, <2>1 DEF PurgeOpposite, TypeOK, HistoryTyped, Ids
<1> QED
  BY <1>2, <1>3, <1>4 DEF PurgeOpposite, TypeOK, FilesTyped

-----------------------------------------------------------------------------
(* WsHandler *)

LEMMA ConnectTyped ==
    ASSUME TypeOK, NEW c \in Conns, Connect(c)
    PROVE  TypeOK'
<1>1. [Idle EXCEPT !.pc = "first", !.open = TRUE] \in Handler
  BY IdleTyped DEF Handler, Pcs
<1>2. h' \in [Conns -> Handler]
  BY <1>1, RecordTyped DEF Connect, TypeOK
<1>3. left' \in Budget
  BY SpentTyped DEF Connect, TypeOK
<1> QED
  BY <1>2, <1>3 DEF Connect, TypeOK, MapsTyped, FilesTyped, LockoutTyped, HistoryTyped,
                    maps, lockout, history

LEMMA LeaveTyped ==
    ASSUME TypeOK, NEW c \in Conns, Leave(c)
    PROVE  TypeOK'
<1>1. [h[c] EXCEPT !.open = FALSE] \in Handler
  BY DEF TypeOK, Handler
<1>2. h' \in [Conns -> Handler]
  BY <1>1 DEF Leave, TypeOK
<1> QED
  BY <1>2 DEF Leave, TypeOK, MapsTyped, FilesTyped, LockoutTyped, HistoryTyped,
              maps, lockout, history

LEMMA FirstMessageTyped ==
    ASSUME TypeOK, NEW c \in Conns, FirstMessage(c)
    PROVE  TypeOK'
<1> done \in BOOLEAN /\ h \in [Conns -> Handler]
  BY DEF TypeOK, FilesTyped
<1>1. PICK t \in Ids :
        /\ \/ /\ Adding(c, t, CheckToken(t), FALSE, done, FALSE)
              /\ UNCHANGED issued
           \/ \E new \in Tokens \ issued :
                /\ issued' = issued \cup {new}
                /\ Adding(c, new, FALSE, TRUE, done, FALSE)
        /\ UNCHANGED <<maps, saved, done, lockout, history, left>>
  BY DEF FirstMessage
<1>2. CASE Adding(c, t, CheckToken(t), FALSE, done, FALSE) /\ UNCHANGED issued
  <2>1. CheckToken(t) \in BOOLEAN
    BY DEF CheckToken, TokenIdAuthed
  <2>2. h' \in [Conns -> Handler]
    BY <1>2, <2>1, AddingTyped
  <2> QED
    BY <1>1, <1>2, <2>2 DEF TypeOK, MapsTyped, FilesTyped, LockoutTyped, HistoryTyped,
                            maps, lockout, history
<1>3. CASE \E new \in Tokens \ issued :
             /\ issued' = issued \cup {new}
             /\ Adding(c, new, FALSE, TRUE, done, FALSE)
  <2>1. PICK new \in Tokens \ issued :
          /\ issued' = issued \cup {new}
          /\ Adding(c, new, FALSE, TRUE, done, FALSE)
    BY <1>3
  <2>2. h' \in [Conns -> Handler]
    BY <2>1, AddingTyped DEF Ids
  <2>3. issued' \subseteq Tokens
    BY <2>1 DEF TypeOK, FilesTyped
  <2> QED
    BY <1>1, <2>2, <2>3 DEF TypeOK, MapsTyped, FilesTyped, LockoutTyped, HistoryTyped,
                            maps, lockout, history
<1> QED
  BY <1>1, <1>2, <1>3

LEMMA ReloginTyped ==
    ASSUME TypeOK, NEW c \in Conns, Relogin(c)
    PROVE  TypeOK'
<1>1. PICK t \in Ids : Adding(c, t, TRUE, FALSE, h[c].complete, FALSE)
  BY DEF Relogin
<1>2. h[c].complete \in BOOLEAN /\ h \in [Conns -> Handler]
  BY DEF TypeOK, Handler
<1>3. h' \in [Conns -> Handler]
  BY <1>1, <1>2, AddingTyped
<1> QED
  BY <1>3 DEF Relogin, TypeOK, MapsTyped, FilesTyped, LockoutTyped, HistoryTyped,
              maps, lockout, history

LEMMA VerifyTyped ==
    ASSUME TypeOK, NEW c \in Conns, Verify(c)
    PROVE  TypeOK'
<1>1. PICK t \in Ids :
        /\ Adding(c, t, h[c].complete, FALSE, h[c].complete, FALSE)
        /\ kept' = IF h[c].complete THEN kept ELSE kept \ {t}
        /\ UNCHANGED <<maps, saved, done, issued, lockout, torn, left>>
  BY DEF Verify
<1>2. h[c].complete \in BOOLEAN /\ h \in [Conns -> Handler]
  BY DEF TypeOK, Handler
<1>3. h' \in [Conns -> Handler]
  BY <1>1, <1>2, AddingTyped
<1> QED
  BY <1>1, <1>3 DEF TypeOK, MapsTyped, FilesTyped, LockoutTyped, HistoryTyped,
                    maps, lockout

LEMMA LogoutTyped ==
    ASSUME TypeOK, NEW c \in Conns, Logout(c)
    PROVE  TypeOK'
<1>1. PICK t \in Ids :
        /\ RemoveFromAuthMap(t, TRUE)
        /\ kept' = kept \ {t}
        /\ UNCHANGED <<saved, done, issued, h, lockout, torn, left>>
  BY DEF Logout
<1>2. MapsTyped'
  BY <1>1, RemoveTyped DEF TypeOK
<1> QED
  BY <1>1, <1>2 DEF TypeOK, FilesTyped, LockoutTyped, HistoryTyped, lockout

LEMMA SetupStageTyped ==
    ASSUME TypeOK, NEW c \in Conns, SetupStage(c)
    PROVE  TypeOK'
BY DEF SetupStage, TypeOK, MapsTyped, FilesTyped, LockoutTyped, HistoryTyped,
       maps, lockout, history

LEMMA SetupCompleteTyped ==
    ASSUME TypeOK, NEW c \in Conns, SetupComplete(c)
    PROVE  TypeOK'
<1>1. PICK t \in Ids : Adding(c, t, TRUE, FALSE, h[c].complete, TRUE)
  BY DEF SetupComplete
<1>2. h[c].complete \in BOOLEAN /\ h \in [Conns -> Handler]
  BY DEF TypeOK, Handler
<1>3. h' \in [Conns -> Handler]
  BY <1>1, <1>2, AddingTyped
<1> QED
  BY <1>3 DEF SetupComplete, TypeOK, MapsTyped, FilesTyped, LockoutTyped, HistoryTyped,
              maps, lockout, history

LEMMA SetupFailsTyped ==
    ASSUME TypeOK, NEW c \in Conns, SetupFails(c)
    PROVE  TypeOK'
<1>1. [h[c] EXCEPT !.complete = done] \in Handler
  BY DEF TypeOK, FilesTyped, Handler
<1>2. h' \in [Conns -> Handler]
  BY <1>1 DEF SetupFails, TypeOK
<1> QED
  BY <1>2 DEF SetupFails, TypeOK, MapsTyped, FilesTyped, LockoutTyped, HistoryTyped,
              maps, lockout, history

LEMMA EndsTyped ==
    ASSUME TypeOK, NEW c \in Conns, Ends(c)
    PROVE  TypeOK'
<1>1. \E pc \in Pcs : h' = [h EXCEPT ![c].pc = pc] \/ h' = [h EXCEPT ![c] = Idle]
  BY DEF Ends, Pcs
<1>2. h' \in [Conns -> Handler]
  BY <1>1, PcTyped, RecordTyped, IdleTyped DEF TypeOK
<1> QED
  BY <1>2 DEF Ends, TypeOK, MapsTyped, FilesTyped, LockoutTyped, HistoryTyped,
              maps, lockout, history

LEMMA WsNilSessionTyped ==
    ASSUME TypeOK, NEW c \in Conns, WsNilSession(c)
    PROVE  TypeOK'
<1>1. MapsTyped'
  BY MutedTyped DEF WsNilSession, TypeOK, MapsTyped
<1>2. h' \in [Conns -> Handler]
  BY RecordTyped, IdleTyped DEF WsNilSession, TypeOK
<1> QED
  BY <1>1, <1>2 DEF WsNilSession, TypeOK, FilesTyped, LockoutTyped, HistoryTyped,
                    lockout, history

-----------------------------------------------------------------------------
(* Login and the lockout *)

LEMMA LoginMessageTyped ==
    ASSUME TypeOK, NEW c \in Conns, LoginMessage(c)
    PROVE  TypeOK'
<1>1. PICK t \in Ids : h' = [h EXCEPT ![c].pc = "login", ![c].token = t]
  BY DEF LoginMessage
<1>2. h' \in [Conns -> Handler]
  BY <1>1 DEF TypeOK, Handler, Pcs
<1> QED
  BY <1>2 DEF LoginMessage, TypeOK, MapsTyped, FilesTyped, LockoutTyped, HistoryTyped,
              maps, lockout, history

LEMMA LoginHandlerRightTyped ==
    ASSUME TypeOK, NEW c \in Conns, LoginHandlerRight(c)
    PROVE  TypeOK'
<1>1. h[c] \in Handler /\ h \in [Conns -> Handler]
  BY DEF TypeOK
<1>2. h[c].token \in Ids /\ h[c].open \in BOOLEAN /\ h[c].complete \in BOOLEAN
  BY <1>1 DEF Handler
<1>3. 0 \in 0..MaxFailedLogins
  BY LoginsAssumption
<1>4. CASE h[c].token = NoToken
  <2>1. h' \in [Conns -> Handler]
    BY <1>1, <1>2, <1>4, LoopingTyped DEF LoginHandlerRight
  <2> QED
    BY <1>3, <1>4, <2>1 DEF LoginHandlerRight, TypeOK, MapsTyped, FilesTyped, LockoutTyped,
                            HistoryTyped, maps, history
<1>5. CASE h[c].token # NoToken
  <2>1. h' \in [Conns -> Handler]
    BY <1>1, <1>2, <1>5, AddingTyped DEF LoginHandlerRight
  <2> QED
    BY <1>3, <1>5, <2>1 DEF LoginHandlerRight, TypeOK, MapsTyped, FilesTyped, LockoutTyped,
                            HistoryTyped, maps, history
<1> QED
  BY <1>4, <1>5

LEMMA EnfTyped ==
    ASSUME NEW es \in [Enforcers -> [pc : {"off", "start", "count", "tick", "write"}, val : Int]],
           NEW e \in Enforcers
    PROVE  /\ \A pc \in {"off", "start", "count", "tick", "write"} :
                [es EXCEPT ![e].pc = pc]
                    \in [Enforcers -> [pc : {"off", "start", "count", "tick", "write"}, val : Int]]
           /\ \A pc \in {"off", "start", "count", "tick", "write"}, val \in Int :
                [es EXCEPT ![e] = [pc |-> pc, val |-> val]]
                    \in [Enforcers -> [pc : {"off", "start", "count", "tick", "write"}, val : Int]]
OBVIOUS

LEMMA LoginHandlerWrongTyped ==
    ASSUME TypeOK, NEW c \in Conns, LoginHandlerWrong(c)
    PROVE  TypeOK'
<1>1. h[c] \in Handler /\ h \in [Conns -> Handler]
  BY DEF TypeOK
<1>2. h' \in [Conns -> Handler]
  BY <1>1, LoopingTyped DEF LoginHandlerWrong, Handler
<1>3. failed' \in 0..MaxFailedLogins
  BY LoginsAssumption DEF LoginHandlerWrong, TypeOK, LockoutTyped
<1>4. enf' \in [Enforcers -> [pc : {"off", "start", "count", "tick", "write"}, val : Int]]
  <2> enf \in [Enforcers -> [pc : {"off", "start", "count", "tick", "write"}, val : Int]]
    BY DEF TypeOK, LockoutTyped
  <2>1. CASE StartsLockout
    <3> PICK e \in Enforcers : enf' = [enf EXCEPT ![e].pc = "start"]
      BY <2>1 DEF LoginHandlerWrong
    <3> QED
      BY EnfTyped
  <2>2. CASE ~StartsLockout
    BY <2>2 DEF LoginHandlerWrong
  <2> QED
    BY <2>1, <2>2
<1>5. left' \in Budget
  BY SpentTyped DEF LoginHandlerWrong, TypeOK
<1> QED
  BY <1>2, <1>3, <1>4, <1>5 DEF LoginHandlerWrong, TypeOK, MapsTyped, FilesTyped,
                                LockoutTyped, HistoryTyped, maps, history

LEMMA EnforceTyped ==
    ASSUME TypeOK, NEW e \in Enforcers, Enforce(e)
    PROVE  TypeOK'
<1> enf \in [Enforcers -> [pc : {"off", "start", "count", "tick", "write"}, val : Int]]
    /\ remainder \in Int
  BY DEF TypeOK, LockoutTyped
<1>1. CASE EnforceStart(e)
  <2>1. enf' \in [Enforcers -> [pc : {"off", "start", "count", "tick", "write"}, val : Int]]
    BY <1>1, EnfTyped DEF EnforceStart
  <2> QED
    BY <1>1, <2>1, LockoutAssumption DEF EnforceStart, TypeOK, MapsTyped, FilesTyped,
       LockoutTyped, HistoryTyped, maps, history
<1>2. CASE EnforceTick(e)
  <2>1. enf' \in [Enforcers -> [pc : {"off", "start", "count", "tick", "write"}, val : Int]]
    BY <1>2, EnfTyped DEF EnforceTick
  <2> QED
    BY <1>2, <2>1 DEF EnforceTick, TypeOK, MapsTyped, FilesTyped,
       LockoutTyped, HistoryTyped, maps, history
<1>3. CASE EnforceRead(e)
  <2>1. enf' \in [Enforcers -> [pc : {"off", "start", "count", "tick", "write"}, val : Int]]
    BY <1>3, EnfTyped DEF EnforceRead
  <2> QED
    BY <1>3, <2>1 DEF EnforceRead, TypeOK, MapsTyped, FilesTyped,
       LockoutTyped, HistoryTyped, maps, history
<1>4. CASE EnforceWrite(e)
  <2>1. enf' \in [Enforcers -> [pc : {"off", "start", "count", "tick", "write"}, val : Int]]
    BY <1>4, EnfTyped DEF EnforceWrite
  <2>2. remainder' \in Int
    BY <1>4 DEF EnforceWrite
  <2> QED
    BY <1>4, <2>1, <2>2 DEF EnforceWrite, TypeOK, MapsTyped, FilesTyped,
       LockoutTyped, HistoryTyped, maps, history
<1>5. CASE EnforceEnd(e)
  <2>1. enf' \in [Enforcers -> [pc : {"off", "start", "count", "tick", "write"}, val : Int]]
    BY <1>5, EnfTyped DEF EnforceEnd, Off
  <2> QED
    BY <1>5, <2>1, LoginsAssumption DEF EnforceEnd, EnforceUnchanged, TypeOK, MapsTyped,
       FilesTyped, LockoutTyped, HistoryTyped, maps, history
<1> QED
  BY <1>1, <1>2, <1>3, <1>4, <1>5 DEF Enforce

-----------------------------------------------------------------------------
(* The broadcaster, time and the cleanup change entries of the maps only. *)

LEMMA OnlyMapsTyped ==
    ASSUME TypeOK, MapsTyped',
           UNCHANGED <<saved, done, issued, h, lockout, torn, left>>,
           kept' \subseteq kept
    PROVE  TypeOK'
BY DEF TypeOK, FilesTyped, LockoutTyped, HistoryTyped, lockout

LEMMA EntryTyped ==
    ASSUME NEW map \in [Ids -> SUBSET Client], NEW t \in Ids, NEW c \in Conns,
           NEW m \in At(map, t, c)
    PROVE  \A b \in BOOLEAN :
              /\ With(map, t, m, [m EXCEPT !.active = b]) \in [Ids -> SUBSET Client]
              /\ With(map, t, m, [m EXCEPT !.recent = b]) \in [Ids -> SUBSET Client]
<1>1. m \in Client
  BY DEF At
<1> QED
  BY <1>1, ClientTyped, WithTyped

LEMMA BroadcastAuthTyped ==
    ASSUME TypeOK, NEW c \in Conns, BroadcastAuth(c)
    PROVE  TypeOK'
<1>1. PICK t \in Ids : \E m \in At(auth, t, c) :
        \/ auth' = With(auth, t, m, [m EXCEPT !.recent = TRUE])
        \/ auth' = With(auth, t, m, [m EXCEPT !.active = FALSE])
  BY DEF BroadcastAuth
<1>2. PICK m \in At(auth, t, c) :
        \/ auth' = With(auth, t, m, [m EXCEPT !.recent = TRUE])
        \/ auth' = With(auth, t, m, [m EXCEPT !.active = FALSE])
  BY <1>1
<1>3. auth \in [Ids -> SUBSET Client]
  BY DEF TypeOK, MapsTyped
<1>4. auth' \in [Ids -> SUBSET Client]
  <2>1. With(auth, t, m, [m EXCEPT !.recent = TRUE]) \in [Ids -> SUBSET Client]
    BY <1>3, EntryTyped
  <2>2. With(auth, t, m, [m EXCEPT !.active = FALSE]) \in [Ids -> SUBSET Client]
    BY <1>3, EntryTyped
  <2> QED
    BY <1>2, <2>1, <2>2
<1> QED
  BY <1>4, OnlyMapsTyped DEF BroadcastAuth, TypeOK, MapsTyped, history

LEMMA BroadcastUnauthTyped ==
    ASSUME TypeOK, NEW c \in Conns, BroadcastUnauth(c)
    PROVE  TypeOK'
<1>1. PICK t \in Ids : \E m \in At(unauth, t, c) :
        \/ unauth' = With(unauth, t, m, [m EXCEPT !.recent = TRUE])
        \/ unauth' = With(unauth, t, m, [m EXCEPT !.active = FALSE])
  BY DEF BroadcastUnauth
<1>2. PICK m \in At(unauth, t, c) :
        \/ unauth' = With(unauth, t, m, [m EXCEPT !.recent = TRUE])
        \/ unauth' = With(unauth, t, m, [m EXCEPT !.active = FALSE])
  BY <1>1
<1>3. unauth \in [Ids -> SUBSET Client]
  BY DEF TypeOK, MapsTyped
<1>4. unauth' \in [Ids -> SUBSET Client]
  <2>1. With(unauth, t, m, [m EXCEPT !.recent = TRUE]) \in [Ids -> SUBSET Client]
    BY <1>3, EntryTyped
  <2>2. With(unauth, t, m, [m EXCEPT !.active = FALSE]) \in [Ids -> SUBSET Client]
    BY <1>3, EntryTyped
  <2> QED
    BY <1>2, <2>1, <2>2
<1> QED
  BY <1>4, OnlyMapsTyped DEF BroadcastUnauth, TypeOK, MapsTyped, history

LEMMA GrowsOldTyped ==
    ASSUME TypeOK, NEW c \in Conns, GrowsOld(c)
    PROVE  TypeOK'
<1>1. MapsTyped'
  <2>1. CASE UNCHANGED unauth /\ \E t \in Ids : \E m \in At(auth, t, c) :
               auth' = With(auth, t, m, [m EXCEPT !.recent = FALSE])
    <3>1. PICK t \in Ids : \E m \in At(auth, t, c) :
            auth' = With(auth, t, m, [m EXCEPT !.recent = FALSE])
      BY <2>1
    <3>2. PICK m \in At(auth, t, c) : auth' = With(auth, t, m, [m EXCEPT !.recent = FALSE])
      BY <3>1
    <3>3. auth \in [Ids -> SUBSET Client]
      BY DEF TypeOK, MapsTyped
    <3>4. auth' \in [Ids -> SUBSET Client]
      BY <3>2, <3>3, EntryTyped
    <3> QED
      BY <2>1, <3>4 DEF TypeOK, MapsTyped
  <2>2. CASE UNCHANGED auth /\ \E t \in Ids : \E m \in At(unauth, t, c) :
               unauth' = With(unauth, t, m, [m EXCEPT !.recent = FALSE])
    <3>1. PICK t \in Ids : \E m \in At(unauth, t, c) :
            unauth' = With(unauth, t, m, [m EXCEPT !.recent = FALSE])
      BY <2>2
    <3>2. PICK m \in At(unauth, t, c) : unauth' = With(unauth, t, m, [m EXCEPT !.recent = FALSE])
      BY <3>1
    <3>3. unauth \in [Ids -> SUBSET Client]
      BY DEF TypeOK, MapsTyped
    <3>4. unauth' \in [Ids -> SUBSET Client]
      BY <3>2, <3>3, EntryTyped
    <3> QED
      BY <2>2, <3>4 DEF TypeOK, MapsTyped
  <2> QED
    BY <2>1, <2>2 DEF GrowsOld
<1> QED
  BY <1>1, OnlyMapsTyped DEF GrowsOld, history

LEMMA CleanupTyped ==
    ASSUME TypeOK, CleanupStaleSessions
    PROVE  TypeOK'
<1>1. MapsTyped'
  BY DEF CleanupStaleSessions, TypeOK, MapsTyped
<1>2. kept' \subseteq kept
  BY DEF CleanupStaleSessions
<1> QED
  BY <1>1, <1>2, OnlyMapsTyped DEF CleanupStaleSessions

LEMMA RestartTyped ==
    ASSUME TypeOK, Restart
    PROVE  TypeOK'
<1>1. Cached \in Client
  BY DEF Cached, Client
<1>2. MapsTyped'
  BY <1>1 DEF Restart, MapsTyped, CachedSessions
<1>3. LockoutTyped'
  BY LoginsAssumption DEF Restart, LockoutTyped, Off
<1>4. h' \in [Conns -> Handler] /\ left' \in Budget
  BY IdleTyped, SpentTyped DEF Restart, TypeOK
<1> QED
  BY <1>2, <1>3, <1>4 DEF Restart, TypeOK, FilesTyped, HistoryTyped

-----------------------------------------------------------------------------
LEMMA InitTyped == Init => TypeOK
<1> SUFFICES ASSUME Init PROVE TypeOK
  OBVIOUS
<1>1. MapsTyped
  BY DEF Init, MapsTyped
<1>2. LockoutTyped
  BY LoginsAssumption DEF Init, LockoutTyped, Off
<1>3. left \in Budget /\ done \in BOOLEAN
  BY BudgetsAssumption DEF Init, Budget
<1>4. h \in [Conns -> Handler]
  BY IdleTyped DEF Init
<1> QED
  BY <1>1, <1>2, <1>3, <1>4 DEF Init, TypeOK, FilesTyped, HistoryTyped

LEMMA NextTyped == TypeOK /\ [Next]_vars => TypeOK'
<1> SUFFICES ASSUME TypeOK, [Next]_vars PROVE TypeOK'
  OBVIOUS
<1>1. CASE \E c \in Conns : Runs(c)
  BY <1>1, AddToAuthMapTyped, AddSessionTyped, AddSessionFailsTyped, PurgeOppositeTyped,
     FirstMessageTyped, EndsTyped, WsNilSessionTyped, LoginHandlerRightTyped,
     LoginHandlerWrongTyped DEF Runs
<1>2. CASE \E c \in Conns : Acts(c)
  BY <1>2, ConnectTyped, LeaveTyped, ReloginTyped, VerifyTyped, LogoutTyped,
     SetupStageTyped, SetupFailsTyped, SetupCompleteTyped, LoginMessageTyped DEF Acts
<1>3. CASE \E c \in Conns : Time(c)
  BY <1>3, BroadcastAuthTyped, BroadcastUnauthTyped, GrowsOldTyped DEF Time
<1>4. CASE \E e \in Enforcers : Enforce(e)
  BY <1>4, EnforceTyped
<1>5. CASE CleanupStaleSessions
  BY <1>5, CleanupTyped
<1>6. CASE Restart
  BY <1>6, RestartTyped
<1>7. CASE UNCHANGED vars
  BY <1>7 DEF vars, maps, lockout, history, TypeOK, MapsTyped, FilesTyped, LockoutTyped,
              HistoryTyped
<1> QED
  BY <1>1, <1>2, <1>3, <1>4, <1>5, <1>6, <1>7 DEF Next

\* The variables keep their types: the counters of the lockout stay in their
\* bounds, and no map lists anything but a connection or a cached session.
THEOREM TypeCorrect == Spec => []TypeOK
<1>1. Init => TypeOK
  BY InitTyped
<1>2. TypeOK /\ [Next]_vars => TypeOK'
  BY NextTyped
<1> QED
  BY <1>1, <1>2, PTL DEF Spec

-----------------------------------------------------------------------------
(* A lockout has a goroutine. *)

LEMMA InitHasEnforcer == Init => LockoutHasEnforcer
BY LoginsAssumption DEF Init, LockoutHasEnforcer

\* Steps that leave the lockout alone, or only forget failed logins.
LEMMA LockoutAsBefore ==
    ASSUME TypeOK, LockoutHasEnforcer,
           UNCHANGED <<remainder, enf>>, failed' = failed \/ failed' = 0
    PROVE  LockoutHasEnforcer'
BY LoginsAssumption DEF LockoutHasEnforcer

\* The fifth wrong password starts a goroutine unless there is one already.
LEMMA WrongHasEnforcer ==
    ASSUME TypeOK, LockoutHasEnforcer, NEW c \in Conns, LoginHandlerWrong(c)
    PROVE  LockoutHasEnforcer'
<1> enf \in [Enforcers -> [pc : {"off", "start", "count", "tick", "write"}, val : Int]]
  BY DEF TypeOK, LockoutTyped
<1>1. CASE StartsLockout
  <2>1. PICK e \in Enforcers : enf' = [enf EXCEPT ![e].pc = "start"]
    BY <1>1 DEF LoginHandlerWrong
  <2>2. enf'[e].pc = "start"
    BY <2>1
  <2> QED
    BY <2>2 DEF LockoutHasEnforcer
<1>2. CASE ~StartsLockout
  <2>1. enf' = enf /\ remainder' = remainder
    BY <1>2 DEF LoginHandlerWrong
  <2>2. failed' >= MaxFailedLogins => remainder # 0
    BY <1>2 DEF StartsLockout
  <2> QED
    BY <2>1, <2>2 DEF LockoutHasEnforcer
<1> QED
  BY <1>1, <1>2

\* A goroutine goes on until it has put an end to the lockout.
LEMMA EnforceHasEnforcer ==
    ASSUME TypeOK, LockoutHasEnforcer, NEW e \in Enforcers, Enforce(e)
    PROVE  LockoutHasEnforcer'
<1> enf \in [Enforcers -> [pc : {"off", "start", "count", "tick", "write"}, val : Int]]
  BY DEF TypeOK, LockoutTyped
<1>1. CASE EnforceEnd(e)
  BY <1>1, LoginsAssumption DEF EnforceEnd, LockoutHasEnforcer
<1>2. CASE EnforceStart(e) \/ EnforceTick(e) \/ EnforceRead(e) \/ EnforceWrite(e)
  <2>1. enf'[e].pc # "off"
    BY <1>2 DEF EnforceStart, EnforceTick, EnforceRead, EnforceWrite
  <2> QED
    BY <2>1 DEF LockoutHasEnforcer
<1> QED
  BY <1>1, <1>2 DEF Enforce

LEMMA NextHasEnforcer ==
    TypeOK /\ LockoutHasEnforcer /\ [Next]_vars => LockoutHasEnforcer'
<1> SUFFICES ASSUME TypeOK, LockoutHasEnforcer, [Next]_vars PROVE LockoutHasEnforcer'
  OBVIOUS
<1>1. CASE \E c \in Conns : Runs(c)
  <2> PICK c \in Conns : Runs(c)
    BY <1>1
  <2>1. CASE LoginHandlerWrong(c)
    BY <2>1, WrongHasEnforcer
  <2>2. CASE LoginHandlerRight(c)
    BY <2>2, LockoutAsBefore DEF LoginHandlerRight
  <2>3. CASE AddSessionFails(c) \/ PurgeOpposite(c)
    BY <2>3, LockoutAsBefore DEF AddSessionFails, PurgeOpposite, Added
  <2>4. CASE AddToAuthMap(c) \/ AddSession(c) \/ FirstMessage(c) \/ Ends(c) \/ WsNilSession(c)
    BY <2>4, LockoutAsBefore
    DEF AddToAuthMap, AddSession, FirstMessage, Ends, WsNilSession, lockout
  <2> QED
    BY <2>1, <2>2, <2>3, <2>4 DEF Runs
<1>2. CASE \E c \in Conns : Acts(c)
  BY <1>2, LockoutAsBefore
  DEF Acts, Connect, Leave, Relogin, Verify, Logout, SetupStage, SetupFails, SetupComplete,
      LoginMessage, lockout
<1>3. CASE \E c \in Conns : Time(c)
  BY <1>3, LockoutAsBefore DEF Time, BroadcastAuth, BroadcastUnauth, GrowsOld, lockout
<1>4. CASE \E e \in Enforcers : Enforce(e)
  BY <1>4, EnforceHasEnforcer
<1>5. CASE CleanupStaleSessions
  BY <1>5, LockoutAsBefore DEF CleanupStaleSessions, lockout
<1>6. CASE Restart
  BY <1>6, LoginsAssumption DEF Restart, LockoutHasEnforcer
<1>7. CASE UNCHANGED vars
  BY <1>7, LockoutAsBefore DEF vars, lockout
<1> QED
  BY <1>1, <1>2, <1>3, <1>4, <1>5, <1>6, <1>7 DEF Next

\* A lockout always has a goroutine that will end it, however many lockouts and
\* logins overlap: the countdown is nowhere left without one (handler.go:131).
THEOREM LockoutHasEnforcerHolds == Spec => []LockoutHasEnforcer
<1>1. Init => TypeOK /\ LockoutHasEnforcer
  BY InitTyped, InitHasEnforcer
<1>2. (TypeOK /\ LockoutHasEnforcer) /\ [Next]_vars => (TypeOK /\ LockoutHasEnforcer)'
  BY NextTyped, NextHasEnforcer
<1> QED
  BY <1>1, <1>2, PTL DEF Spec
-----------------------------------------------------------------------------
(* A session is on one side. *)

\* No id is under "new" that was not under "old".
NoneNew(old, new) == \A u \in Ids : new[u] # {} => old[u] # {}

LEMMA WithNoneNew ==
    ASSUME NEW map \in [Ids -> SUBSET Client], NEW t \in Ids, NEW m \in map[t], NEW new
    PROVE  NoneNew(map, With(map, t, m, new)) /\ NoneNew(With(map, t, m, new), map)
<1>1. ASSUME NEW u \in Ids PROVE With(map, t, m, new)[u] # {} <=> map[u] # {}
  <2>1. CASE u = t
    BY <2>1 DEF With
  <2>2. CASE u # t
    BY <2>2 DEF With
  <2> QED
    BY <2>1, <2>2
<1> QED
  BY <1>1 DEF NoneNew

LEMMA MutedNoneNew ==
    ASSUME NEW map \in [Ids -> SUBSET Client], NEW c \in Conns, NEW new \in Muted(map, c)
    PROVE  NoneNew(map, new) /\ NoneNew(new, map)
<1>1. CASE new = map
  BY <1>1 DEF NoneNew
<1>2. CASE \E t \in Ids : \E m \in At(map, t, c) :
             new = With(map, t, m, [m EXCEPT !.active = FALSE])
  <2>1. PICK t \in Ids : \E m \in At(map, t, c) :
          new = With(map, t, m, [m EXCEPT !.active = FALSE])
    BY <1>2
  <2>2. PICK m \in At(map, t, c) : new = With(map, t, m, [m EXCEPT !.active = FALSE])
    BY <2>1
  <2>3. m \in map[t]
    BY DEF At
  <2> QED
    BY <2>2, <2>3, WithNoneNew
<1> QED
  BY <1>1, <1>2 DEF Muted

\* A handler that has added an id and is to purge it, or failed to.
Saving(hs, t) == \E c \in Conns : hs[c].token = t /\ hs[c].pc \in {"save", "purge"}

LEMMA InitOneSide == Init => OneSide
BY DEF Init, OneSide

\* Steps that list no id anew, and after which whoever was to purge still is.
LEMMA OneSideAsBefore ==
    ASSUME OneSide, NoneNew(auth, auth'), NoneNew(unauth, unauth'), torn \subseteq torn',
           \A t \in Ids : Saving(h, t) => Saving(h', t)
    PROVE  OneSide'
BY DEF OneSide, NoneNew, Saving

LEMMA OthersSave ==
    ASSUME h \in [Conns -> Handler], NEW c \in Conns, h[c].pc \notin {"save", "purge"},
           NEW r, h' = [h EXCEPT ![c] = r]
    PROVE  \A t \in Ids : Saving(h, t) => Saving(h', t)
<1> SUFFICES ASSUME NEW t \in Ids, NEW d \in Conns, h[d].token = t, h[d].pc \in {"save", "purge"}
             PROVE  Saving(h', t)
  BY DEF Saving
<1>1. d # c /\ h'[d] = h[d]
  OBVIOUS
<1> QED
  BY <1>1 DEF Saving

\* Steps of one handler that is not about to purge, on the maps as they are.
LEMMA OneSideElsewhere ==
    ASSUME TypeOK, OneSide, NEW c \in Conns, h[c].pc \notin {"save", "purge"},
           NEW r, h' = [h EXCEPT ![c] = r], UNCHANGED <<auth, unauth, torn>>
    PROVE  OneSide'
BY OthersSave, OneSideAsBefore DEF NoneNew, TypeOK

LEMMA AddToAuthMapOneSide ==
    ASSUME TypeOK, OneSide, NEW c \in Conns, AddToAuthMap(c)
    PROVE  OneSide'
<1> DEFINE t == h[c].token
<1>1. h[c] \in Handler /\ t \in Ids /\ h \in [Conns -> Handler]
  BY DEF TypeOK, Handler
<1>2. auth \in [Ids -> SUBSET Client] /\ unauth \in [Ids -> SUBSET Client]
  BY DEF TypeOK, MapsTyped
<1>3. h' = [h EXCEPT ![c] = [h[c] EXCEPT !.pc = "save"]] /\ h[c].pc = "add" /\ torn' = torn
  BY DEF AddToAuthMap, history
<1>4. \A u \in Ids \ {t} : auth'[u] = auth[u] /\ unauth'[u] = unauth[u]
  <2>1. CASE h[c].authed
    BY <1>1, <1>2, <2>1 DEF AddToAuthMap, AddAuthClient, Moved, Joined
  <2>2. CASE ~h[c].authed
    BY <1>1, <1>2, <2>2 DEF AddToAuthMap, AddUnauthClient, Moved, Joined
  <2> QED
    BY <2>1, <2>2
<1>5. \A u \in Ids : Saving(h, u) => Saving(h', u)
  BY <1>1, <1>3, OthersSave
<1>6. h'[c].token = t /\ h'[c].pc = "save"
  BY <1>1, <1>3 DEF Handler
<1>7. Saving(h', t)
  BY <1>6 DEF Saving
<1> QED
  BY <1>3, <1>4, <1>5, <1>7 DEF OneSide, Saving

LEMMA AddSessionOneSide ==
    ASSUME TypeOK, OneSide, NEW c \in Conns, AddSession(c)
    PROVE  OneSide'
<1>1. h[c] \in Handler /\ h \in [Conns -> Handler]
  BY DEF TypeOK
<1>2. h' = [h EXCEPT ![c] = [h[c] EXCEPT !.pc = "purge"]] /\ UNCHANGED <<auth, unauth, torn>>
  BY DEF AddSession, maps, history
<1>3. h'[c].token = h[c].token /\ h'[c].pc = "purge"
  BY <1>1, <1>2 DEF Handler
<1>4. ASSUME NEW t \in Ids, Saving(h, t) PROVE Saving(h', t)
  <2>1. PICK d \in Conns : h[d].token = t /\ h[d].pc \in {"save", "purge"}
    BY <1>4 DEF Saving
  <2>2. CASE d = c
    BY <1>3, <2>1, <2>2 DEF Saving
  <2>3. CASE d # c
    <3>1. h'[d] = h[d]
      BY <1>1, <1>2, <2>3
    <3> QED
      BY <2>1, <3>1 DEF Saving
  <2> QED
    BY <2>2, <2>3
<1> QED
  BY <1>2, <1>4, OneSideAsBefore DEF NoneNew

\* What is left after the purge, and after a save that failed.
LEMMA PurgedOneSide ==
    ASSUME TypeOK, OneSide, NEW c \in Conns, NEW r, h' = [h EXCEPT ![c] = r],
           NoneNew(auth, auth'), NoneNew(unauth, unauth'),
           torn \ {h[c].token} \subseteq torn',
           \/ h[c].token \in torn'
           \/ auth'[h[c].token] = {} \/ unauth'[h[c].token] = {}
    PROVE  OneSide'
<1> DEFINE t == h[c].token
<1>1. h \in [Conns -> Handler]
  BY DEF TypeOK
<1>2. ASSUME NEW u \in Ids \ {t}, Saving(h, u) PROVE Saving(h', u)
  <2>1. PICK d \in Conns : h[d].token = u /\ h[d].pc \in {"save", "purge"}
    BY <1>2 DEF Saving
  <2>2. d # c /\ h'[d] = h[d]
    BY <1>1, <2>1
  <2> QED
    BY <2>1, <2>2 DEF Saving
<1>3. ASSUME NEW u \in Ids, auth'[u] # {}, unauth'[u] # {}
      PROVE  u \in torn' \/ Saving(h', u)
  <2>1. CASE u = t
    BY <1>3, <2>1
  <2>2. CASE u # t
    <3>1. u \in torn \/ Saving(h, u)
      BY <1>3 DEF OneSide, NoneNew, Saving
    <3> QED
      BY <1>2, <2>2, <3>1
  <2> QED
    BY <2>1, <2>2
<1> QED
  BY <1>3 DEF OneSide, Saving

LEMMA AddSessionFailsOneSide ==
    ASSUME TypeOK, OneSide, NEW c \in Conns, AddSessionFails(c)
    PROVE  OneSide'
<1>1. PICK r : h' = [h EXCEPT ![c] = r]
  BY DEF AddSessionFails, Added
<1>2. torn' = torn \cup {h[c].token} /\ UNCHANGED <<auth, unauth>>
  BY DEF AddSessionFails, maps
<1> QED
  BY <1>1, <1>2, PurgedOneSide DEF NoneNew

LEMMA PurgeOppositeOneSide ==
    ASSUME TypeOK, OneSide, NEW c \in Conns, PurgeOpposite(c)
    PROVE  OneSide'
<1>1. PICK r : h' = [h EXCEPT ![c] = r]
  BY DEF PurgeOpposite, Added
<1>2. torn' = torn \ {h[c].token}
  BY DEF PurgeOpposite
<1>3. h[c].token \in Ids /\ auth \in [Ids -> SUBSET Client] /\ unauth \in [Ids -> SUBSET Client]
  BY DEF TypeOK, Handler, MapsTyped
<1>4. RemoveFromAuthMap(h[c].token, ~h[c].authed)
  BY DEF PurgeOpposite
<1>5. NoneNew(auth, auth') /\ NoneNew(unauth, unauth')
      /\ (auth'[h[c].token] = {} \/ unauth'[h[c].token] = {})
  BY <1>3, <1>4 DEF RemoveFromAuthMap, NoneNew
<1> QED
  BY <1>1, <1>2, <1>5, PurgedOneSide

LEMMA HandlerElsewhere ==
    ASSUME TypeOK, NEW c \in Conns,
           \/ FirstMessage(c) \/ Ends(c) \/ LoginHandlerRight(c) \/ LoginHandlerWrong(c)
           \/ Connect(c) \/ Relogin(c) \/ Verify(c)
           \/ SetupFails(c) \/ SetupComplete(c) \/ LoginMessage(c)
    PROVE  /\ h[c].pc \notin {"save", "purge"}
           /\ \E r : h' = [h EXCEPT ![c] = r]
           /\ UNCHANGED <<auth, unauth, torn>>
<1>1. CASE FirstMessage(c) \/ Relogin(c) \/ Verify(c) \/ SetupComplete(c)
  BY <1>1 DEF FirstMessage, Relogin, Verify, SetupComplete, Message, Adding, maps, history
<1>2. CASE Ends(c) \/ Connect(c) \/ SetupFails(c) \/ LoginMessage(c)
  BY <1>2 DEF Ends, Connect, SetupFails, LoginMessage, Message, maps, history
<1>3. CASE LoginHandlerRight(c) \/ LoginHandlerWrong(c)
  BY <1>3 DEF LoginHandlerRight, LoginHandlerWrong, Adding, maps, history
<1> QED
  BY <1>1, <1>2, <1>3

LEMMA LeaveOneSide ==
    ASSUME TypeOK, OneSide, NEW c \in Conns, Leave(c)
    PROVE  OneSide'
<1>1. h \in [Conns -> Handler] /\ h' = [h EXCEPT ![c].open = FALSE]
      /\ UNCHANGED <<auth, unauth, torn>>
  BY DEF TypeOK, Leave, maps, history
<1>2. \A d \in Conns : h'[d].token = h[d].token /\ h'[d].pc = h[d].pc
  BY <1>1 DEF Handler
<1>3. \A t \in Ids : Saving(h, t) => Saving(h', t)
  BY <1>2 DEF Saving
<1> QED
  BY <1>1, <1>3, OneSideAsBefore DEF NoneNew

LEMMA WsNilSessionOneSide ==
    ASSUME TypeOK, OneSide, NEW c \in Conns, WsNilSession(c)
    PROVE  OneSide'
<1>1. h \in [Conns -> Handler] /\ h[c].pc \notin {"save", "purge"}
      /\ h' = [h EXCEPT ![c] = Idle] /\ torn' = torn
  BY DEF TypeOK, WsNilSession, history
<1>2. \A t \in Ids : Saving(h, t) => Saving(h', t)
  BY <1>1, OthersSave
<1>3. auth \in [Ids -> SUBSET Client] /\ unauth \in [Ids -> SUBSET Client]
  BY DEF TypeOK, MapsTyped
<1>4. CASE auth' \in Muted(auth, c) /\ UNCHANGED unauth
  <2>1. NoneNew(auth, auth')
    BY <1>3, <1>4, MutedNoneNew
  <2> QED
    BY <1>1, <1>2, <1>4, <2>1, OneSideAsBefore DEF NoneNew
<1>5. CASE unauth' \in Muted(unauth, c) /\ UNCHANGED auth
  <2>1. NoneNew(unauth, unauth')
    BY <1>3, <1>5, MutedNoneNew
  <2> QED
    BY <1>1, <1>2, <1>5, <2>1, OneSideAsBefore DEF NoneNew
<1> QED
  BY <1>4, <1>5 DEF WsNilSession

\* A logout, the cleanup, the broadcaster and time list nobody anew.
LEMMA LogoutNoneNew ==
    ASSUME TypeOK, NEW c \in Conns, Logout(c)
    PROVE  NoneNew(auth, auth') /\ UNCHANGED <<unauth, h, torn>>
<1>1. PICK t \in Ids : RemoveFromAuthMap(t, TRUE)
  BY DEF Logout
<1> QED
  BY <1>1 DEF Logout, RemoveFromAuthMap, NoneNew, TypeOK, MapsTyped

LEMMA TimeNoneNew ==
    ASSUME TypeOK, NEW c \in Conns, Time(c)
    PROVE  /\ NoneNew(auth, auth') /\ NoneNew(unauth, unauth')
           /\ NoneNew(auth', auth)
           /\ UNCHANGED <<h, history, issued>>
<1>1. auth \in [Ids -> SUBSET Client] /\ unauth \in [Ids -> SUBSET Client]
  BY DEF TypeOK, MapsTyped
<1>2. CASE UNCHANGED unauth /\ \E t \in Ids : \E m \in At(auth, t, c) : \E new :
             auth' = With(auth, t, m, new)
  <2>1. PICK t \in Ids : \E m \in At(auth, t, c) : \E new : auth' = With(auth, t, m, new)
    BY <1>2
  <2>2. PICK m \in At(auth, t, c) : \E new : auth' = With(auth, t, m, new)
    BY <2>1
  <2>3. m \in auth[t]
    BY DEF At
  <2>4. NoneNew(auth, auth') /\ NoneNew(auth', auth)
    BY <1>1, <2>2, <2>3, WithNoneNew
  <2> QED
    BY <1>2, <2>4 DEF NoneNew, Time, BroadcastAuth, BroadcastUnauth, GrowsOld
<1>3. CASE UNCHANGED auth /\ \E t \in Ids : \E m \in At(unauth, t, c) : \E new :
             unauth' = With(unauth, t, m, new)
  <2>1. PICK t \in Ids : \E m \in At(unauth, t, c) : \E new : unauth' = With(unauth, t, m, new)
    BY <1>3
  <2>2. PICK m \in At(unauth, t, c) : \E new : unauth' = With(unauth, t, m, new)
    BY <2>1
  <2>3. m \in unauth[t]
    BY DEF At
  <2>4. NoneNew(unauth, unauth')
    BY <1>1, <2>2, <2>3, WithNoneNew
  <2> QED
    BY <1>3, <2>4 DEF NoneNew, Time, BroadcastAuth, BroadcastUnauth, GrowsOld
<1>4. CASE BroadcastAuth(c)
  BY <1>2, <1>4 DEF BroadcastAuth
<1>5. CASE BroadcastUnauth(c)
  BY <1>3, <1>5 DEF BroadcastUnauth
<1>6. CASE GrowsOld(c)
  BY <1>2, <1>3, <1>6 DEF GrowsOld
<1> QED
  BY <1>4, <1>5, <1>6 DEF Time

LEMMA NextOneSide == TypeOK /\ OneSide /\ [Next]_vars => OneSide'
<1> SUFFICES ASSUME TypeOK, OneSide, [Next]_vars PROVE OneSide'
  OBVIOUS
<1>1. CASE \E c \in Conns : Runs(c)
  <2> PICK c \in Conns : Runs(c)
    BY <1>1
  <2>1. CASE FirstMessage(c) \/ Ends(c) \/ LoginHandlerRight(c) \/ LoginHandlerWrong(c)
    BY <2>1, HandlerElsewhere, OneSideElsewhere
  <2> QED
    BY <2>1, AddToAuthMapOneSide, AddSessionOneSide, AddSessionFailsOneSide,
       PurgeOppositeOneSide, WsNilSessionOneSide DEF Runs
<1>2. CASE \E c \in Conns : Acts(c)
  <2> PICK c \in Conns : Acts(c)
    BY <1>2
  <2>1. CASE Connect(c) \/ Relogin(c) \/ Verify(c) \/ SetupFails(c) \/ SetupComplete(c)
             \/ LoginMessage(c)
    BY <2>1, HandlerElsewhere, OneSideElsewhere
  <2>2. CASE Leave(c)
    BY <2>2, LeaveOneSide
  <2>3. CASE Logout(c)
    BY <2>3, LogoutNoneNew, OneSideAsBefore DEF NoneNew
  <2>4. CASE SetupStage(c)
    BY <2>4, OneSideAsBefore DEF SetupStage, NoneNew, maps, history
  <2> QED
    BY <2>1, <2>2, <2>3, <2>4 DEF Acts
<1>3. CASE \E c \in Conns : Time(c)
  BY <1>3, TimeNoneNew, OneSideAsBefore DEF history
<1>4. CASE \E e \in Enforcers : Enforce(e)
  BY <1>4, OneSideAsBefore
  DEF Enforce, EnforceStart, EnforceTick, EnforceRead, EnforceWrite, EnforceEnd,
      EnforceUnchanged, NoneNew, maps, history
<1>5. CASE CleanupStaleSessions
  <2>1. NoneNew(auth, auth') /\ NoneNew(unauth, unauth')
    BY <1>5 DEF CleanupStaleSessions, NoneNew
  <2> QED
    BY <1>5, <2>1, OneSideAsBefore DEF CleanupStaleSessions
<1>6. CASE Restart
  BY <1>6 DEF Restart, OneSide
<1>7. CASE UNCHANGED vars
  BY <1>7, OneSideAsBefore DEF vars, maps, history, NoneNew
<1> QED
  BY <1>1, <1>2, <1>3, <1>4, <1>5, <1>6, <1>7 DEF Next

\* However the handlers of any number of tabs interleave, an id is in both maps
\* only while one of them is between its add and its purge, or its save failed.
THEOREM OneSideHolds == Spec => []OneSide
<1>1. Init => TypeOK /\ OneSide
  BY InitTyped, InitOneSide
<1>2. (TypeOK /\ OneSide) /\ [Next]_vars => (TypeOK /\ OneSide)'
  BY NextTyped, NextOneSide
<1> QED
  BY <1>1, <1>2, PTL DEF Spec
-----------------------------------------------------------------------------
(* A session stays logged in. *)

Demotes(r, t) == r.pc \in {"add", "save", "purge"} /\ r.token = t /\ ~r.authed

\* What SessionKept needs to be inductive: no handler is about to demote an id
\* that is kept, and every id was drawn before a handler works on it.
KeptInv ==
    /\ kept \subseteq issued
    /\ \A c \in Conns : h[c].token \in issued \cup {NoToken}
    /\ \A t \in kept : auth[t] # {} /\ \A c \in Conns : ~Demotes(h[c], t)

LEMMA InitKept == Init => KeptInv
BY DEF Init, KeptInv, Idle

\* Steps of one handler that take no id off a list.
LEMMA KeptByHandler ==
    ASSUME TypeOK, KeptInv, NEW c \in Conns, NEW r, h' = [h EXCEPT ![c] = r],
           NoneNew(auth', auth), kept' \subseteq kept, issued \subseteq issued',
           r.token \in issued' \cup {NoToken},
           \A t \in kept' : ~Demotes(r, t)
    PROVE  KeptInv'
<1>1. h \in [Conns -> Handler] /\ kept \subseteq Ids
  BY DEF TypeOK, HistoryTyped, Ids
<1>2. ASSUME NEW d \in Conns
      PROVE  /\ h'[d].token \in issued' \cup {NoToken}
             /\ \A t \in kept' : ~Demotes(h'[d], t)
  <2>1. CASE d = c
    BY <1>1, <2>1
  <2>2. CASE d # c
    <3>1. h'[d] = h[d]
      BY <1>1, <2>2
    <3> QED
      BY <3>1 DEF KeptInv
  <2> QED
    BY <2>1, <2>2
<1>3. \A t \in kept' : auth'[t] # {}
  BY <1>1 DEF KeptInv, NoneNew
<1> QED
  BY <1>2, <1>3 DEF KeptInv

\* Steps that leave the handlers alone.
LEMMA KeptByOthers ==
    ASSUME TypeOK, KeptInv, UNCHANGED h, kept' \subseteq kept, issued \subseteq issued',
           \A t \in kept' : auth'[t] # {}
    PROVE  KeptInv'
BY DEF KeptInv

\* A handler that reads the next message demotes no id.
LEMMA LoopingDemotes ==
    ASSUME NEW open, NEW complete
    PROVE  /\ Looping(open, complete).token = NoToken
           /\ \A t : ~Demotes(Looping(open, complete), t)
BY DEF Looping, Idle, Demotes

\* Every message but "verify" goes on with what the map says of the id now.
LEMMA AddingKept ==
    ASSUME TypeOK, KeptInv, NEW c \in Conns, NEW t \in issued' \cup {NoToken},
           NEW authed \in BOOLEAN, NEW again, NEW complete, NEW reload,
           Adding(c, t, authed, again, complete, reload),
           UNCHANGED auth, kept' \subseteq kept, issued \subseteq issued',
           authed \/ t \notin kept'
    PROVE  KeptInv'
<1> DEFINE r == [h[c] EXCEPT !.pc = "add", !.token = t, !.authed = authed, !.again = again,
                            !.complete = complete, !.reload = reload]
<1>1. h[c] \in Handler
  BY DEF TypeOK
<1>2. r.token = t /\ r.authed = authed
  BY <1>1 DEF Handler
<1>3. h' = [h EXCEPT ![c] = r]
  BY DEF Adding
<1>4. \A u \in kept' : ~Demotes(r, u)
  BY <1>2 DEF Demotes
<1> HIDE DEF r
<1> QED
  BY <1>2, <1>3, <1>4, KeptByHandler DEF NoneNew

LEMMA FirstMessageKept ==
    ASSUME TypeOK, KeptInv, NEW c \in Conns, FirstMessage(c)
    PROVE  KeptInv'
<1>1. PICK t \in Ids :
        /\ Sends(c, t)
        /\ \/ /\ Adding(c, t, CheckToken(t), FALSE, done, FALSE)
              /\ UNCHANGED issued
           \/ \E new \in Tokens \ issued :
                 /\ issued' = issued \cup {new}
                 /\ Adding(c, new, FALSE, TRUE, done, FALSE)
  BY DEF FirstMessage
<1>2. UNCHANGED <<auth, kept>> /\ kept \subseteq issued /\ NoToken \notin kept
  BY NilsAssumption DEF FirstMessage, maps, history, KeptInv, TypeOK, HistoryTyped
<1>3. CASE Adding(c, t, CheckToken(t), FALSE, done, FALSE) /\ UNCHANGED issued
  <2>1. CheckToken(t) \in BOOLEAN /\ (t \in kept => CheckToken(t))
    BY <1>2 DEF CheckToken, TokenIdAuthed, KeptInv
  <2>2. t \in issued' \cup {NoToken}
    BY <1>1, <1>3 DEF Sends
  <2>3. CheckToken(t) \/ t \notin kept'
    BY <1>2, <2>1
  <2> QED
    BY <1>2, <1>3, <2>1, <2>2, <2>3, AddingKept
<1>4. CASE \E new \in Tokens \ issued :
             issued' = issued \cup {new} /\ Adding(c, new, FALSE, TRUE, done, FALSE)
  <2>1. PICK new \in Tokens \ issued :
          issued' = issued \cup {new} /\ Adding(c, new, FALSE, TRUE, done, FALSE)
    BY <1>4
  <2>2. new \notin kept' /\ new \in issued' \cup {NoToken}
    BY <1>2, <2>1
  <2> QED
    BY <1>2, <2>1, <2>2, AddingKept
<1> QED
  BY <1>1, <1>3, <1>4

LEMMA MessageKept ==
    ASSUME TypeOK, KeptInv, NEW c \in Conns,
           Relogin(c) \/ Verify(c) \/ SetupComplete(c) \/ LoginHandlerRight(c)
    PROVE  KeptInv'
<1>1. CASE Relogin(c) \/ SetupComplete(c)
  <2>1. PICK t \in Ids : \E complete, reload :
          Message(c, t) /\ Adding(c, t, TRUE, FALSE, complete, reload)
    BY <1>1 DEF Relogin, SetupComplete
  <2>2. UNCHANGED <<auth, issued, kept>>
    BY <1>1 DEF Relogin, SetupComplete, maps, history
  <2> QED
    BY <2>1, <2>2, AddingKept DEF Message, Sends
<1>2. CASE Verify(c)
  <2>1. PICK t \in Ids :
          /\ Message(c, t)
          /\ Adding(c, t, h[c].complete, FALSE, h[c].complete, FALSE)
          /\ kept' = IF h[c].complete THEN kept ELSE kept \ {t}
    BY <1>2 DEF Verify
  <2>2. UNCHANGED <<auth, issued>> /\ h[c].complete \in BOOLEAN
    BY <1>2 DEF Verify, maps, TypeOK, Handler
  <2>3. kept' \subseteq kept /\ (h[c].complete \/ t \notin kept')
    BY <2>1
  <2> QED
    BY <2>1, <2>2, <2>3, AddingKept DEF Message, Sends
<1>3. CASE LoginHandlerRight(c)
  <2>1. UNCHANGED <<auth, issued, kept>> /\ h[c].token \in issued \cup {NoToken}
    BY <1>3 DEF LoginHandlerRight, maps, history, KeptInv
  <2>2. CASE h[c].token = NoToken
    <3>1. h' = [h EXCEPT ![c] = Looping(h[c].open, h[c].complete)]
      BY <1>3, <2>2 DEF LoginHandlerRight
    <3> QED
      BY <2>1, <3>1, LoopingDemotes, KeptByHandler DEF NoneNew
  <2>3. CASE h[c].token # NoToken
    <3>1. Adding(c, h[c].token, TRUE, FALSE, h[c].complete, FALSE)
      BY <1>3, <2>3 DEF LoginHandlerRight
    <3> QED
      BY <2>1, <3>1, AddingKept
  <2> QED
    BY <2>2, <2>3
<1> QED
  BY <1>1, <1>2, <1>3

\* Steps whose handler then has no id in hand, or the one it had.
LEMMA ElsewhereKept ==
    ASSUME TypeOK, KeptInv, NEW c \in Conns,
           \/ Connect(c) \/ Leave(c) \/ SetupFails(c) \/ LoginMessage(c) \/ Ends(c)
           \/ WsNilSession(c) \/ LoginHandlerWrong(c)
    PROVE  KeptInv'
<1>1. h[c] \in Handler
  BY DEF TypeOK
<1>2. UNCHANGED <<kept, issued>>
  BY DEF Connect, Leave, SetupFails, LoginMessage, Ends, WsNilSession, LoginHandlerWrong,
         history
<1>3. NoneNew(auth', auth)
  <2>1. CASE WsNilSession(c)
    BY <2>1, MutedNoneNew DEF WsNilSession, NoneNew, TypeOK, MapsTyped
  <2> QED
    BY <2>1 DEF Connect, Leave, SetupFails, LoginMessage, Ends, LoginHandlerWrong, maps, NoneNew
<1>4. CASE \E r \in {Idle, [Idle EXCEPT !.pc = "first", !.open = TRUE],
                     Looping(h[c].open, h[c].complete)} : h' = [h EXCEPT ![c] = r]
  <2>1. PICK r \in {Idle, [Idle EXCEPT !.pc = "first", !.open = TRUE],
                    Looping(h[c].open, h[c].complete)} : h' = [h EXCEPT ![c] = r]
    BY <1>4
  <2>2. Idle.token = NoToken /\ Idle.pc = "idle"
    BY DEF Idle
  <2>3. /\ [Idle EXCEPT !.pc = "first", !.open = TRUE].token = NoToken
        /\ [Idle EXCEPT !.pc = "first", !.open = TRUE].pc = "first"
    BY DEF Idle
  <2>4. CASE r = Looping(h[c].open, h[c].complete)
    <3>1. r.token = NoToken /\ \A t : ~Demotes(r, t)
      BY <2>4, LoopingDemotes
    <3> QED
      BY <1>2, <1>3, <2>1, <3>1, KeptByHandler
  <2>5. CASE r # Looping(h[c].open, h[c].complete)
    <3>1. r.token = NoToken /\ r.pc \in {"idle", "first"}
      BY <2>1, <2>2, <2>3, <2>5
    <3>2. \A t : ~Demotes(r, t)
      BY <3>1 DEF Demotes
    <3> QED
      BY <1>2, <1>3, <2>1, <3>1, <3>2, KeptByHandler
  <2> QED
    BY <2>4, <2>5
<1>5. CASE \E pc \in Pcs \ {"add", "save", "purge"}, t \in issued \cup {NoToken} :
             h' = [h EXCEPT ![c] = [h[c] EXCEPT !.pc = pc, !.token = t]]
  <2>1. PICK pc \in Pcs \ {"add", "save", "purge"} : \E t \in issued \cup {NoToken} :
          h' = [h EXCEPT ![c] = [h[c] EXCEPT !.pc = pc, !.token = t]]
    BY <1>5
  <2>2. PICK t \in issued \cup {NoToken} :
          h' = [h EXCEPT ![c] = [h[c] EXCEPT !.pc = pc, !.token = t]]
    BY <2>1
  <2>3. [h[c] EXCEPT !.pc = pc, !.token = t].pc = pc
        /\ [h[c] EXCEPT !.pc = pc, !.token = t].token = t
    BY <1>1 DEF Handler
  <2> QED
    BY <1>2, <1>3, <2>2, <2>3, KeptByHandler DEF Demotes
<1>6. CASE \E r : /\ h' = [h EXCEPT ![c] = r] /\ r.token = h[c].token
                  /\ r.authed = h[c].authed
                  /\ r.pc = h[c].pc \/ r.pc \in {"muteAuth", "muteUnauth"}
  <2>1. PICK r : /\ h' = [h EXCEPT ![c] = r] /\ r.token = h[c].token
                 /\ r.authed = h[c].authed
                 /\ r.pc = h[c].pc \/ r.pc \in {"muteAuth", "muteUnauth"}
    BY <1>6
  <2>2. \A t \in kept' : ~Demotes(r, t)
    BY <1>2, <2>1 DEF KeptInv, Demotes
  <2>3. r.token \in issued' \cup {NoToken}
    BY <1>2, <2>1 DEF KeptInv
  <2> QED
    BY <1>2, <1>3, <2>1, <2>2, <2>3, KeptByHandler
<1>7. CASE Connect(c) \/ WsNilSession(c) \/ LoginHandlerWrong(c)
  BY <1>4, <1>7 DEF Connect, WsNilSession, LoginHandlerWrong
<1>8. CASE LoginMessage(c)
  <2>1. PICK t \in Ids : Message(c, t) /\ h' = [h EXCEPT ![c].pc = "login", ![c].token = t]
    BY <1>8 DEF LoginMessage
  <2>2. h' = [h EXCEPT ![c] = [h[c] EXCEPT !.pc = "login", !.token = t]]
    BY <2>1 DEF TypeOK
  <2> QED
    BY <1>5, <2>1, <2>2 DEF Message, Sends, Pcs
<1>9. CASE Leave(c) \/ SetupFails(c)
  <2>1. \A open, complete \in BOOLEAN :
          /\ [h[c] EXCEPT !.open = open].token = h[c].token
          /\ [h[c] EXCEPT !.open = open].authed = h[c].authed
          /\ [h[c] EXCEPT !.open = open].pc = h[c].pc
          /\ [h[c] EXCEPT !.complete = complete].token = h[c].token
          /\ [h[c] EXCEPT !.complete = complete].authed = h[c].authed
          /\ [h[c] EXCEPT !.complete = complete].pc = h[c].pc
    BY <1>1 DEF Handler
  <2> QED
    BY <1>6, <1>9, <2>1 DEF Leave, SetupFails, TypeOK, FilesTyped
<1>10. CASE Ends(c)
  <2>1. \A pc \in {"muteAuth", "muteUnauth"} :
          /\ [h[c] EXCEPT !.pc = pc].token = h[c].token
          /\ [h[c] EXCEPT !.pc = pc].authed = h[c].authed
          /\ [h[c] EXCEPT !.pc = pc].pc = pc
    BY <1>1 DEF Handler
  <2> QED
    BY <1>4, <1>6, <1>10, <2>1 DEF Ends
<1> QED
  BY <1>7, <1>8, <1>9, <1>10

\* AddToAuthMap takes an id off the list of the logged-in ones only where it demotes it.
LEMMA AddToAuthMapKept ==
    ASSUME TypeOK, KeptInv, NEW c \in Conns, AddToAuthMap(c)
    PROVE  KeptInv'
<1> DEFINE r == [h[c] EXCEPT !.pc = "save"]
<1>1. h[c] \in Handler /\ auth \in [Ids -> SUBSET Client] /\ kept \subseteq Ids
  BY DEF TypeOK, MapsTyped, HistoryTyped, Ids
<1>2. h' = [h EXCEPT ![c] = r] /\ h[c].pc = "add" /\ UNCHANGED <<issued, kept>>
  BY DEF AddToAuthMap, history
<1>3. r.pc = "save" /\ r.token = h[c].token /\ r.authed = h[c].authed
  BY <1>1 DEF Handler
<1>4. \A t \in kept : ~Demotes(r, t)
  BY <1>2, <1>3 DEF Demotes, KeptInv
<1>5. ASSUME NEW t \in kept PROVE auth'[t] # {}
  <2>1. auth[t] # {} /\ ~Demotes(h[c], t)
    BY DEF KeptInv
  <2>2. CASE h[c].authed
    <3>1. auth' = Joined(auth, h[c].token, c)
      BY <2>2 DEF AddToAuthMap, AddAuthClient
    <3> QED
      BY <1>1, <2>1, <3>1 DEF Joined
  <2>3. CASE ~h[c].authed
    <3>1. auth' = Moved(auth, h[c].token, c)
      BY <2>3 DEF AddToAuthMap, AddUnauthClient
    <3>2. t # h[c].token
      BY <1>2, <2>1, <2>3 DEF Demotes
    <3> QED
      BY <1>1, <2>1, <3>1, <3>2 DEF Moved
  <2> QED
    BY <2>2, <2>3
<1>6. ASSUME NEW d \in Conns
      PROVE  h'[d].token \in issued' \cup {NoToken} /\ \A t \in kept' : ~Demotes(h'[d], t)
  <2>1. CASE d = c
    BY <1>2, <1>3, <1>4, <2>1 DEF TypeOK, KeptInv
  <2>2. CASE d # c
    BY <1>2, <2>2 DEF TypeOK, KeptInv
  <2> QED
    BY <2>1, <2>2
<1> QED
  BY <1>2, <1>5, <1>6 DEF KeptInv

LEMMA AddSessionKept ==
    ASSUME TypeOK, KeptInv, NEW c \in Conns, AddSession(c)
    PROVE  KeptInv'
<1> DEFINE r == [h[c] EXCEPT !.pc = "purge"]
<1>1. h[c] \in Handler
  BY DEF TypeOK
<1>2. h' = [h EXCEPT ![c] = r] /\ h[c].pc = "save" /\ UNCHANGED <<auth, issued, kept>>
  BY DEF AddSession, maps, history
<1>3. r.token = h[c].token /\ r.authed = h[c].authed
  BY <1>1 DEF Handler
<1>4. \A t \in kept' : ~Demotes(r, t)
  BY <1>2, <1>3 DEF Demotes, KeptInv
<1>5. r.token \in issued' \cup {NoToken}
  BY <1>2, <1>3 DEF KeptInv
<1> HIDE DEF r
<1> QED
  BY <1>2, <1>4, <1>5, KeptByHandler DEF NoneNew

\* A handler that ends AddToAuthMap demotes no id that it did not demote before.
LEMMA AddedDemotes ==
    ASSUME TypeOK, NEW c \in Conns, h[c].pc \in {"save", "purge"}, Added(c)
    PROVE  \E r : /\ h' = [h EXCEPT ![c] = r]
                  /\ r.token \in {h[c].token, NoToken}
                  /\ \A t : Demotes(r, t) => Demotes(h[c], t)
<1>1. h[c] \in Handler
  BY DEF TypeOK
<1>2. CASE h[c].again
  <2> DEFINE r == [h[c] EXCEPT !.pc = "add", !.again = FALSE]
  <2>1. r.token = h[c].token /\ r.authed = h[c].authed
    BY <1>1 DEF Handler
  <2>2. h' = [h EXCEPT ![c] = r]
    BY <1>2 DEF Added
  <2>3. \A t : Demotes(r, t) => Demotes(h[c], t)
    BY <2>1 DEF Demotes
  <2> QED
    BY <2>1, <2>2, <2>3
<1>3. CASE ~h[c].again
  <2>1. PICK complete : h' = [h EXCEPT ![c] = Looping(h[c].open, complete)]
    BY <1>3 DEF Added
  <2>2. Looping(h[c].open, complete).token = NoToken /\ Looping(h[c].open, complete).pc = "loop"
    BY DEF Looping, Idle
  <2> QED
    BY <2>1, <2>2 DEF Demotes
<1> QED
  BY <1>2, <1>3

LEMMA AddSessionFailsKept ==
    ASSUME TypeOK, KeptInv, NEW c \in Conns, AddSessionFails(c)
    PROVE  KeptInv'
<1>1. h[c].pc \in {"save", "purge"} /\ Added(c) /\ UNCHANGED <<auth, issued, kept>>
  BY DEF AddSessionFails, maps
<1>2. PICK r : /\ h' = [h EXCEPT ![c] = r]
               /\ r.token \in {h[c].token, NoToken}
               /\ \A t : Demotes(r, t) => Demotes(h[c], t)
  BY <1>1, AddedDemotes
<1>3. r.token \in issued' \cup {NoToken} /\ \A t \in kept' : ~Demotes(r, t)
  BY <1>1, <1>2 DEF KeptInv
<1> QED
  BY <1>1, <1>2, <1>3, KeptByHandler DEF NoneNew

LEMMA PurgeOppositeKept ==
    ASSUME TypeOK, KeptInv, NEW c \in Conns, PurgeOpposite(c)
    PROVE  KeptInv'
<1>1. h[c].pc = "purge" /\ Added(c) /\ UNCHANGED issued
  BY DEF PurgeOpposite
<1>2. PICK r : /\ h' = [h EXCEPT ![c] = r]
               /\ r.token \in {h[c].token, NoToken}
               /\ \A t : Demotes(r, t) => Demotes(h[c], t)
  BY <1>1, AddedDemotes
<1>3. h \in [Conns -> Handler] /\ auth \in [Ids -> SUBSET Client] /\ kept \subseteq Ids
  BY DEF TypeOK, MapsTyped, HistoryTyped, Ids
<1>4. \A t \in kept' : t \in issued /\ auth[t] # {} /\ \A d \in Conns : ~Demotes(h[d], t)
  <2>1. \A t \in kept : t \in issued /\ auth[t] # {} /\ \A d \in Conns : ~Demotes(h[d], t)
    BY DEF KeptInv
  <2>2. ASSUME NEW t \in kept', t \notin kept
        PROVE  t \in issued /\ auth[t] # {} /\ \A d \in Conns : ~Demotes(h[d], t)
    <3>1. t = h[c].token /\ t # NoToken /\ ~Demoting(t) /\ TokenIdAuthed(t)
      BY <2>2 DEF PurgeOpposite
    <3> QED
      BY <3>1 DEF Demoting, Demotes, TokenIdAuthed, KeptInv
  <2> QED
    BY <2>1, <2>2
<1>5. ASSUME NEW t \in kept' PROVE auth'[t] # {}
  <2>1. RemoveFromAuthMap(h[c].token, ~h[c].authed)
    BY DEF PurgeOpposite
  <2>2. CASE h[c].authed
    BY <1>4, <2>1, <2>2 DEF RemoveFromAuthMap
  <2>3. CASE ~h[c].authed
    <3>1. t # h[c].token
      BY <1>1, <1>4, <2>3 DEF Demotes
    <3>2. t \in Ids
      BY <1>4 DEF TypeOK, FilesTyped, HistoryTyped, Ids
    <3>3. UNCHANGED auth \/ auth' = [auth EXCEPT ![h[c].token] = {}]
      BY <2>1 DEF RemoveFromAuthMap
    <3>4. auth'[t] = auth[t]
      BY <1>3, <3>1, <3>2, <3>3
    <3> QED
      BY <1>4, <3>4
  <2> QED
    BY <2>2, <2>3
<1>6. ASSUME NEW d \in Conns
      PROVE  h'[d].token \in issued' \cup {NoToken} /\ \A t \in kept' : ~Demotes(h'[d], t)
  <2>1. CASE d = c
    BY <1>1, <1>2, <1>3, <1>4, <2>1 DEF KeptInv
  <2>2. CASE d # c
    <3>1. h'[d] = h[d]
      BY <1>2, <1>3, <2>2
    <3> QED
      BY <1>1, <1>4, <3>1 DEF KeptInv
  <2> QED
    BY <2>1, <2>2
<1> QED
  BY <1>1, <1>4, <1>5, <1>6 DEF KeptInv

LEMMA NextKept == TypeOK /\ KeptInv /\ [Next]_vars => KeptInv'
<1> SUFFICES ASSUME TypeOK, KeptInv, [Next]_vars PROVE KeptInv'
  OBVIOUS
<1>0. kept \subseteq Ids
  BY DEF TypeOK, HistoryTyped, Ids
<1>1. CASE \E c \in Conns : Runs(c)
  BY <1>1, FirstMessageKept, MessageKept, ElsewhereKept, AddToAuthMapKept, AddSessionKept,
     AddSessionFailsKept, PurgeOppositeKept
  DEF Runs
<1>2. CASE \E c \in Conns : Acts(c)
  <2> PICK c \in Conns : Acts(c)
    BY <1>2
  <2>1. CASE Logout(c)
    <3>1. PICK t \in Ids : RemoveFromAuthMap(t, TRUE) /\ kept' = kept \ {t}
      BY <2>1 DEF Logout
    <3>2. \A u \in kept' : auth'[u] # {}
      BY <1>0, <3>1 DEF RemoveFromAuthMap, KeptInv, TypeOK, MapsTyped
    <3> QED
      BY <2>1, <3>1, <3>2, KeptByOthers DEF Logout
  <2>2. CASE SetupStage(c)
    BY <2>2, KeptByOthers DEF SetupStage, maps, history, KeptInv
  <2> QED
    BY <2>1, <2>2, MessageKept, ElsewhereKept DEF Acts
<1>3. CASE \E c \in Conns : Time(c)
  BY <1>0, <1>3, TimeNoneNew, KeptByOthers DEF history, KeptInv, NoneNew
<1>4. CASE \E e \in Enforcers : Enforce(e)
  BY <1>4, KeptByOthers
  DEF Enforce, EnforceStart, EnforceTick, EnforceRead, EnforceWrite, EnforceEnd,
      EnforceUnchanged, maps, history, KeptInv
<1>5. CASE CleanupStaleSessions
  BY <1>5, KeptByOthers DEF CleanupStaleSessions, TokenIdAuthed
<1>6. CASE Restart
  BY <1>6 DEF Restart, KeptInv, Idle, Demotes
<1>7. CASE UNCHANGED vars
  BY <1>7, KeptByOthers DEF vars, maps, history, KeptInv
<1> QED
  BY <1>1, <1>2, <1>3, <1>4, <1>5, <1>6, <1>7 DEF Next

\* However the tabs interleave, no handler takes a session off the list of the
\* logged-in ones on a check it made before that login was through.
THEOREM SessionKeptHolds == Spec => []SessionKept
<1>1. Init => TypeOK /\ KeptInv
  BY InitTyped, InitKept
<1>2. (TypeOK /\ KeptInv) /\ [Next]_vars => (TypeOK /\ KeptInv)'
  BY NextTyped, NextKept
<1>3. KeptInv => SessionKept
  BY DEF KeptInv, SessionKept
<1> QED
  BY <1>1, <1>2, <1>3, PTL DEF Spec
=============================================================================
