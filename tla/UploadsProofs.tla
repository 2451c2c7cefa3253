--------------------------- MODULE UploadsProofs ---------------------------
(***************************************************************************)
(* Proofs about Uploads, for any archives, pieces, requests and uploads:   *)
(* the types, and that an upload by itself is imported once, whole, or     *)
(* leaves nothing.                                                         *)
(***************************************************************************)
EXTENDS Uploads, FiniteSetTheorems, SequenceTheorems, TLAPS

-----------------------------------------------------------------------------
(* Types                                                                   *)

Pcs == {"idle", "check", "body", "copy", "stat", "open", "join", "drop", "read", "clear"}
          \cup Importing
Statuses == Stages \cup {"", "uploading", "aborted", "completed"}

\* An endpoint, a browser, a request.
Ends == /\ uploadSessions \in [Uploads -> [open : BOOLEAN, remote : BOOLEAN]]
        /\ asks \in [Uploads -> Seq(BOOLEAN)]
Files == part \in [Index -> Contents] /\ (dest = None \/ dest \in [Index -> Contents])
ClientOk(c, u) ==
  /\ c \in Client /\ ((c.pc # "wait") <=> (c.req = None))
  /\ c.pc # "idle" => u \in Planned /\ c.next < Pieces[Arc(u)]
ClientsOk == client \in [Uploads -> Client] /\ \A u \in Uploads : ClientOk(client[u], u)
ReqOk(q) ==
  /\ q \in Request
  /\ q.pc # "idle" => q.up \in Planned \cap Uploads /\ q.k < Pieces[Arc(q.up)]
ReqsOk == req \in [Reqs -> Request] /\ \A r \in Reqs : ReqOk(req[r])
Writers == \A r \in Reqs : req[r].pc \in {"join", "drop"} /\ req[r].holds => dest \in [Index -> Contents]

LEMMA TypeParts ==
  ASSUME TypeOK
  PROVE  /\ Ends /\ Files /\ pier \in Pier /\ upload \in Statuses /\ h \in History
         /\ left \in Budget /\ ClientsOk /\ ReqsOk /\ Writers
BY DEF TypeOK, Ends, Files, Statuses, ClientsOk, ClientOk, ReqsOk, ReqOk, Writers, Busy

LEMMA Typed ==
  ASSUME Ends', Files', pier' \in Pier, upload' \in Statuses, h' \in History,
         left' \in Budget, ClientsOk', ReqsOk', Writers'
  PROVE  TypeOK'
BY DEF TypeOK, Ends, Files, Statuses, ClientsOk, ClientOk, ReqsOk, ReqOk, Writers, Busy

\* The archive of an upload, and the places of its pieces.
LEMMA ArchiveOf ==
  ASSUME left \in Budget, NEW u \in Planned
  PROVE  Arc(u) \in Archives /\ Pieces[Arc(u)] \in Nat \ {0}
BY PiecesAssumption DEF Arc, Planned, Budget

LEMMA IndexOf ==
  ASSUME NEW a \in Archives
  PROVE  Index \subseteq Nat /\ \A i \in Nat : i < Pieces[a] => i \in Index
<1> DEFINE most == CHOOSE n \in {Pieces[b] : b \in Archives} :
                     \A b \in Archives : Pieces[b] <= n
<1>1. \E n \in {Pieces[b] : b \in Archives} : \A b \in Archives : Pieces[b] <= n
  BY PiecesAssumption
<1>2. most \in {Pieces[b] : b \in Archives} /\ \A b \in Archives : Pieces[b] <= most
  BY <1>1
<1>3. most \in Nat /\ Pieces[a] \in Nat /\ Pieces[a] <= most
  BY <1>2, PiecesAssumption
<1>4. Index = 0..(most - 1)
  BY DEF Index
<1> HIDE DEF most
<1> QED
  BY <1>3, <1>4

\* The budget shrinks; the plan stays.
LEMMA SpendOf ==
  ASSUME left \in Budget, NEW what \in {"lost", "faults", "restarts"}, Spend(what)
  PROVE  left' \in Budget /\ left'.plan = left.plan /\ left'.wg = left.wg
<1>1. left' = [left EXCEPT ![what] = left[what] - 1] /\ left[what] > 0
  BY DEF Spend
<1>2. CASE what = "lost"
  BY <1>1, <1>2 DEF Budget
<1>3. CASE what = "faults"
  BY <1>1, <1>3 DEF Budget
<1>4. CASE what = "restarts"
  BY <1>1, <1>4 DEF Budget
<1> QED
  BY <1>2, <1>3, <1>4

LEMMA IdleOf == Idle \in Request /\ Idle.pc = "idle" /\ \A q : q = Idle => q.pc = "idle"
BY DEF Idle, Request

-----------------------------------------------------------------------------
(* Browsers                                                                *)

\* A browser keeps the option it was given, and begins nothing anew.
Tamer(c2, c) == /\ c2.remote = c.remote
                /\ c2.pc \in {"send", "wait"} => c.pc \in {"send", "wait"}
Tame == \A u \in Uploads : Tamer(client'[u], client[u])

LEMMA RetriedOf ==
  ASSUME NEW c, NEW u, ClientOk(c, u), c.pc = "wait"
  PROVE  ClientOk(Retried(c), u) /\ Tamer(Retried(c), c)
<1>1. c \in Client /\ c.tries \in Nat /\ u \in Planned /\ c.next < Pieces[Arc(u)]
  BY ReqsAssumption DEF ClientOk, Client
<1>2. CASE c.tries < RetryLimit
  <2> DEFINE d == [c EXCEPT !.pc = "send", !.tries = @ + 1, !.req = None]
  <2>1. Retried(c) = d
    BY <1>2 DEF Retried
  <2>2. c.tries + 1 \in 0..RetryLimit
    BY <1>1, <1>2, ReqsAssumption
  <2>3. d \in Client /\ d.pc = "send" /\ d.req = None /\ d.next = c.next /\ d.remote = c.remote
    BY <1>1, <2>2 DEF Client
  <2> QED
    BY <1>1, <2>1, <2>3 DEF ClientOk, Tamer
<1>3. CASE ~(c.tries < RetryLimit)
  <2> DEFINE d == [c EXCEPT !.pc = "failed", !.req = None]
  <2>1. Retried(c) = d
    BY <1>3 DEF Retried
  <2>2. d \in Client /\ d.pc = "failed" /\ d.req = None /\ d.next = c.next /\ d.remote = c.remote
    BY <1>1 DEF Client
  <2> QED
    BY <1>1, <2>1, <2>2 DEF ClientOk, Tamer
<1> QED
  BY <1>2, <1>3

LEMMA AcknowledgedOf ==
  ASSUME NEW c, NEW u, ClientOk(c, u), c.pc = "wait", Pieces[Arc(u)] \in Nat
  PROVE  LET d == Acknowledged(c, Pieces[Arc(u)])
         IN  ClientOk(d, u) /\ Tamer(d, c)
<1> DEFINE total == Pieces[Arc(u)]
           pc == IF c.next + 1 = total THEN "done" ELSE "send"
           next == IF c.next + 1 = total THEN c.next ELSE c.next + 1
           d == [c EXCEPT !.pc = pc, !.next = next, !.tries = 0, !.req = None]
<1>1. /\ c \in Client /\ c.next \in Nat /\ u \in Planned /\ c.next < total
      /\ 0 \in 0..RetryLimit
  BY ReqsAssumption DEF ClientOk, Client
<1>2. next \in Nat /\ next < total /\ pc \in {"done", "send"}
  BY <1>1
<1>3. Acknowledged(c, total) = d
  BY DEF Acknowledged
<1> HIDE DEF pc, next, total
<1>4. d \in Client /\ d.pc = pc /\ d.next = next /\ d.req = None /\ d.remote = c.remote
  BY <1>1, <1>2 DEF Client
<1> HIDE DEF d
<1>5. ClientOk(d, u) /\ Tamer(d, c)
  BY <1>1, <1>2, <1>4 DEF ClientOk, Tamer, total
<1> QED
  BY <1>3, <1>5 DEF total

LEMMA HearOf ==
  ASSUME TypeOK, NEW r \in Reqs, NEW ok \in BOOLEAN, Hear(r, ok)
  PROVE  /\ client' \in [Uploads -> Client]
         /\ \A u \in Uploads : ClientOk(client'[u], u)
         /\ Tame
<1>1. client \in [Uploads -> Client] /\ left \in Budget /\ \A u \in Uploads : ClientOk(client[u], u)
  BY TypeParts DEF ClientsOk
<1>2. client' = [u \in Uploads |->
                 IF client[u].req # r THEN client[u]
                 ELSE IF ok THEN Acknowledged(client[u], Pieces[Arc(u)])
                 ELSE Retried(client[u])]
  BY DEF Hear
<1>3. ASSUME NEW u \in Uploads
      PROVE  ClientOk(client'[u], u) /\ Tamer(client'[u], client[u])
  <2>1. CASE client[u].req # r
    BY <1>1, <1>2, <2>1 DEF Tamer
  <2>2. CASE client[u].req = r
    <3>1. client[u].pc = "wait" /\ u \in Planned
      BY <1>1, <2>2, NilsAssumption DEF ClientOk
    <3>2. Pieces[Arc(u)] \in Nat
      BY <1>1, <3>1, ArchiveOf
    <3>3. ClientOk(client[u], u)
      BY <1>1
    <3>4. CASE ok
      <4>1. client'[u] = Acknowledged(client[u], Pieces[Arc(u)])
        BY <1>2, <2>2, <3>4
      <4> QED
        BY <3>1, <3>2, <3>3, <4>1, AcknowledgedOf
    <3>5. CASE ~ok
      <4>1. client'[u] = Retried(client[u])
        BY <1>2, <2>2, <3>5
      <4> QED
        BY <3>1, <3>3, <4>1, RetriedOf
    <3> QED
      BY <3>4, <3>5
  <2> QED
    BY <2>1, <2>2
<1>4. client' \in [Uploads -> Client]
  BY <1>2, <1>3 DEF ClientOk
<1> QED
  BY <1>3, <1>4 DEF Tame
\* Without a response the browsers are as they were.
LEMMA SameClients ==
  ASSUME TypeOK, UNCHANGED client
  PROVE  /\ client' \in [Uploads -> Client] /\ \A u \in Uploads : ClientOk(client'[u], u)
         /\ Tame
BY TypeParts DEF ClientsOk, Tame, Tamer

-----------------------------------------------------------------------------
(* Requests                                                                *)

\* Beside r no request moves; it may lose the file it writes.
Beside(r) ==
  \A x \in Reqs : x # r => /\ req'[x].pc = req[x].pc /\ req'[x].up = req[x].up
                           /\ req'[x].holds => req[x].holds
                           /\ req[x].pc = "idle" => req'[x] = req[x]
Requests(r) ==
  req' \in [Reqs -> Request] /\ (\A x \in Reqs : ReqOk(req'[x])) /\ Beside(r)

LEMMA SetOf ==
  ASSUME ReqsOk, NEW r \in Reqs, NEW q, ReqOk(q), req' = [req EXCEPT ![r] = q]
  PROVE  Requests(r) /\ req'[r] = q /\ \A x \in Reqs : x # r => req'[x] = req[x]
BY DEF ReqsOk, ReqOk, Requests, Beside

LEMMA EndOf ==
  ASSUME ReqsOk, NEW r \in Reqs, req' = [req EXCEPT ![r] = Idle]
  PROVE  /\ Requests(r) /\ req'[r] = Idle /\ req'[r].pc = "idle"
         /\ \A x \in Reqs : x # r => req'[x] = req[x]
<1>1. ReqOk(Idle)
  BY IdleOf DEF ReqOk
<1> QED
  BY <1>1, IdleOf, SetOf

LEMMA GotoOf ==
  ASSUME ReqsOk, NEW r \in Reqs, req[r].pc # "idle", NEW pc \in Pcs, Goto(r, pc)
  PROVE  /\ Requests(r) /\ req'[r].pc = pc /\ req'[r].up = req[r].up /\ req'[r].k = req[r].k
         /\ req'[r].holds = req[r].holds /\ req'[r].remote = req[r].remote
         /\ \A x \in Reqs : x # r => req'[x] = req[x]
<1> DEFINE q == [req[r] EXCEPT !.pc = pc]
<1>1. ReqOk(req[r]) /\ req[r] \in Request
  BY DEF ReqsOk
<1>2. q \in Request /\ q.pc = pc /\ q.up = req[r].up /\ q.k = req[r].k
      /\ q.holds = req[r].holds /\ q.remote = req[r].remote
  BY <1>1 DEF Request, Pcs
<1>3. req' = [req EXCEPT ![r] = q]
  BY DEF Goto
<1> HIDE DEF q
<1>4. ReqOk(q)
  BY <1>1, <1>2 DEF ReqOk
<1> QED
  BY <1>2, <1>3, <1>4, SetOf

\* The requests beside r when some of them lose their file.
LEMMA LoseOf ==
  ASSUME ReqsOk, NEW r \in Reqs, NEW q, ReqOk(q), req' \in [Reqs -> Request], req'[r] = q,
         \A x \in Reqs : x # r => \/ req'[x] = req[x]
                                  \/ /\ req'[x] = [req[x] EXCEPT !.holds = FALSE]
                                     /\ req[x].pc # "idle"
  PROVE  Requests(r)
<1>1. ASSUME NEW x \in Reqs, x # r
      PROVE  /\ ReqOk(req'[x]) /\ req'[x].pc = req[x].pc /\ req'[x].up = req[x].up
             /\ req'[x].holds => req[x].holds
             /\ req[x].pc = "idle" => req'[x] = req[x]
  <2>1. ReqOk(req[x]) /\ req[x] \in Request
    BY DEF ReqsOk
  <2>2. CASE req'[x] = req[x]
    BY <2>1, <2>2
  <2>3. CASE req'[x] = [req[x] EXCEPT !.holds = FALSE] /\ req[x].pc # "idle"
    <3> DEFINE y == [req[x] EXCEPT !.holds = FALSE]
    <3>1. y \in Request /\ y.pc = req[x].pc /\ y.up = req[x].up /\ y.k = req[x].k
          /\ y.holds = FALSE
      BY <2>1 DEF Request
    <3> HIDE DEF y
    <3>2. req'[x] = y
      BY <2>3 DEF y
    <3> QED
      BY <2>1, <2>3, <3>1, <3>2 DEF ReqOk
  <2> QED
    BY <1>1, <2>2, <2>3
<1> QED
  BY <1>1 DEF Requests, Beside

LEMMA ForgetOf ==
  ASSUME ReqsOk, NEW r \in Reqs, NEW q, ReqOk(q), NEW k, NEW pcs, "idle" \notin pcs,
         req' = [Forget(k, pcs) EXCEPT ![r] = q]
  PROVE  Requests(r) /\ req'[r] = q
<1> DEFINE f == Forget(k, pcs)
<1>1. \A x \in Reqs : \/ f[x] = req[x]
                      \/ f[x] = [req[x] EXCEPT !.holds = FALSE] /\ req[x].pc # "idle"
  BY DEF Forget
<1>2. \A x \in Reqs : [req[x] EXCEPT !.holds = FALSE] \in Request /\ req[x] \in Request
  BY DEF ReqsOk, Request
<1>3. f \in [Reqs -> Request]
  <2>1. \A x \in Reqs : f[x] \in Request
    BY <1>1, <1>2
  <2>2. f = [x \in Reqs |-> f[x]]
    BY DEF Forget
  <2> QED
    BY <2>1, <2>2
<1> HIDE DEF f
<1>4. req' = [f EXCEPT ![r] = q]
  BY DEF f
<1>5. req' \in [Reqs -> Request] /\ req'[r] = q /\ \A x \in Reqs : x # r => req'[x] = f[x]
  BY <1>3, <1>4 DEF ReqOk
<1> QED
  BY <1>1, <1>5, LoseOf

LEMMA RemoveArchiveOf ==
  ASSUME ReqsOk, NEW r \in Reqs, NEW q, ReqOk(q), q.pc \notin {"join", "drop"},
         RemoveArchive([req EXCEPT ![r] = q])
  PROVE  /\ Requests(r) /\ req'[r] = q /\ dest' = None
         /\ \A x \in Reqs : req'[x].pc \in {"join", "drop"} => ~req'[x].holds
<1> DEFINE f == [req EXCEPT ![r] = q]
<1>1. f[r] = q /\ \A x \in Reqs : x # r => f[x] = req[x]
  BY DEF ReqsOk
<1> HIDE DEF f
<1>2. /\ dest' = None
      /\ req' = [x \in Reqs |-> IF f[x].pc \in {"join", "drop"}
                                THEN [f[x] EXCEPT !.holds = FALSE] ELSE f[x]]
  BY DEF RemoveArchive, f
<1>3. ASSUME NEW x \in Reqs
      PROVE  req'[x] \in Request /\ (req'[x].pc \in {"join", "drop"} => ~req'[x].holds)
  <2>1. f[x] \in Request
    BY <1>1 DEF ReqsOk, ReqOk
  <2>2. [f[x] EXCEPT !.holds = FALSE] \in Request /\ ~[f[x] EXCEPT !.holds = FALSE].holds
    BY <2>1 DEF Request
  <2> QED
    BY <1>2, <2>1, <2>2
<1>4. req' \in [Reqs -> Request]
  <2>1. req' = [x \in Reqs |-> req'[x]]
    BY <1>2
  <2> QED
    BY <1>3, <2>1
<1>5. req'[r] = q
  BY <1>1, <1>2
<1>6. \A x \in Reqs : x # r => \/ req'[x] = req[x]
                               \/ /\ req'[x] = [req[x] EXCEPT !.holds = FALSE]
                                  /\ req[x].pc # "idle"
  BY <1>1, <1>2
<1> QED
  BY <1>2, <1>3, <1>4, <1>5, <1>6, LoseOf

\* A step that leaves the plan alone keeps what is said of browsers and requests.
LEMMA MovedTyped ==
  ASSUME TypeOK, NEW r \in Reqs, Requests(r),
         client' \in [Uploads -> Client], \A u \in Uploads : ClientOk(client'[u], u),
         left' \in Budget, left'.plan = left.plan,
         Ends', Files', pier' \in Pier, upload' \in Statuses, h' \in History,
         \/ UNCHANGED dest
         \/ \A x \in Reqs : req'[x].pc \in {"join", "drop"} => ~req'[x].holds
         \/ dest' \in [Index -> Contents],
         req'[r].pc \in {"join", "drop"} /\ req'[r].holds => dest' \in [Index -> Contents]
  PROVE  TypeOK'
<1>1. Planned' = Planned /\ \A u : Arc(u)' = Arc(u)
  BY DEF Planned, Arc
<1>2. ClientsOk'
  BY <1>1 DEF ClientsOk, ClientOk
<1>3. ReqsOk'
  BY <1>1 DEF ReqsOk, ReqOk, Requests
<1>4. Writers'
  <2>1. CASE UNCHANGED dest
    BY <2>1, TypeParts DEF Requests, Beside, Writers
  <2>2. CASE ~(UNCHANGED dest)
    BY <2>2 DEF Writers
  <2> QED
    BY <2>1, <2>2
<1> QED
  BY <1>2, <1>3, <1>4, Typed

-----------------------------------------------------------------------------
(* What the handler of a request does                                      *)

Moved(r) == /\ TypeOK' /\ Requests(r) /\ Tame
            /\ left'.plan = left.plan /\ left'.wg = left.wg

LEMMA VerifySessionDoes ==
  ASSUME TypeOK, NEW r \in Reqs, VerifySession(r)
  PROVE  /\ Moved(r) /\ req[r].pc = "check"
         /\ UNCHANGED <<uploadSessions, asks, part, dest, pier, h>>
         /\ \/ /\ uploadSessions[req[r].up].open /\ req'[r].pc = "body"
               /\ req'[r].up = req[r].up /\ upload' = "uploading"
            \/ req'[r].pc = "idle" /\ upload' = "aborted"
<1>1. /\ Ends /\ Files /\ pier \in Pier /\ upload \in Statuses /\ h \in History
      /\ left \in Budget /\ ClientsOk /\ ReqsOk /\ Writers
  BY TypeParts
<1>2. /\ req[r].pc = "check" /\ UNCHANGED left
      /\ UNCHANGED <<uploadSessions, asks, part, dest, pier, h>>
  BY DEF VerifySession, At, files
<1>3. Ends' /\ Files' /\ pier' \in Pier /\ h' \in History /\ left' \in Budget
  BY <1>1, <1>2 DEF Ends, Files
<1>4. CASE uploadSessions[req[r].up].open /\ upload' = "uploading" /\ Goto(r, "body")
           /\ UNCHANGED client
  <2>1. Requests(r) /\ req'[r].pc = "body" /\ req'[r].up = req[r].up
    BY <1>1, <1>2, <1>4, GotoOf DEF Pcs
  <2>2. /\ client' \in [Uploads -> Client] /\ \A u \in Uploads : ClientOk(client'[u], u)
        /\ Tame
    BY <1>4, SameClients
  <2>3. TypeOK'
    BY <1>2, <1>3, <1>4, <2>1, <2>2, MovedTyped DEF Statuses
  <2> QED
    BY <1>2, <1>4, <2>1, <2>2, <2>3 DEF Moved
<1>5. CASE Refuse(r)
  <2>1. Requests(r) /\ req'[r].pc = "idle"
    BY <1>1, <1>5, EndOf DEF Refuse, Respond
  <2>2. /\ client' \in [Uploads -> Client] /\ \A u \in Uploads : ClientOk(client'[u], u)
        /\ Tame
    BY <1>5, HearOf DEF Refuse, Respond
  <2>3. TypeOK'
    BY <1>2, <1>3, <1>5, <2>1, <2>2, MovedTyped DEF Refuse, Statuses
  <2> QED
    BY <1>2, <1>5, <2>1, <2>2, <2>3 DEF Moved, Refuse
<1> QED
  BY <1>4, <1>5 DEF VerifySession

\* Where a request stands: the piece it carries has a place.
LEMMA PlaceOf ==
  ASSUME TypeOK, NEW r \in Reqs, req[r].pc # "idle"
  PROVE  /\ req[r] \in Request /\ req[r].up \in Planned /\ req[r].up \in Uploads
         /\ Arc(req[r].up) \in Archives /\ Total(r) \in Nat \ {0} /\ Total(r) = Pieces[Arc(req[r].up)]
         /\ req[r].k \in Index /\ req[r].k \in Nat /\ req[r].k < Total(r)
<1>1. left \in Budget /\ ReqsOk
  BY TypeParts
<1>2. /\ req[r] \in Request /\ req[r].up \in Planned /\ req[r].up \in Uploads
      /\ req[r].k \in Nat /\ req[r].k < Pieces[Arc(req[r].up)]
  BY <1>1 DEF ReqsOk, ReqOk, Request
<1>3. Arc(req[r].up) \in Archives /\ Pieces[Arc(req[r].up)] \in Nat \ {0}
  BY <1>1, <1>2, ArchiveOf
<1> QED
  BY <1>2, <1>3, IndexOf DEF Total

LEMMA CreatePieceDoes ==
  ASSUME TypeOK, NEW r \in Reqs, CreatePiece(r)
  PROVE  /\ Moved(r) /\ req[r].pc = "body"
         /\ UNCHANGED <<uploadSessions, asks, dest, pier, h>>
         /\ \/ /\ part' = [part EXCEPT ![req[r].k] = Short] /\ UNCHANGED upload
               /\ req'[r].pc = "copy" /\ req'[r].up = req[r].up /\ req'[r].k = req[r].k
               /\ req'[r].holds
            \/ req'[r].pc = "idle" /\ upload' = "aborted" /\ UNCHANGED part
<1>1. /\ Ends /\ Files /\ pier \in Pier /\ upload \in Statuses /\ h \in History
      /\ left \in Budget /\ ClientsOk /\ ReqsOk /\ Writers
  BY TypeParts
<1>2. /\ req[r].pc = "body" /\ UNCHANGED left
      /\ UNCHANGED <<uploadSessions, asks, dest, pier, h>>
  BY DEF CreatePiece, At
<1>3. /\ Ends' /\ pier' \in Pier /\ h' \in History /\ left' \in Budget
  BY <1>1, <1>2 DEF Ends
<1>4. CASE Refuse(r) /\ UNCHANGED part
  <2>1. Requests(r) /\ req'[r].pc = "idle"
    BY <1>1, <1>4, EndOf DEF Refuse, Respond
  <2>2. /\ client' \in [Uploads -> Client] /\ \A u \in Uploads : ClientOk(client'[u], u)
        /\ Tame
    BY <1>4, HearOf DEF Refuse, Respond
  <2>3. upload' = "aborted" /\ Files'
    BY <1>1, <1>2, <1>4 DEF Refuse, Files
  <2>4. TypeOK'
    BY <1>2, <1>3, <2>1, <2>2, <2>3, MovedTyped DEF Statuses
  <2> QED
    BY <1>2, <1>4, <2>1, <2>2, <2>3, <2>4 DEF Moved
<1>5. CASE /\ part' = [part EXCEPT ![req[r].k] = Short]
           /\ req' = [Forget(req[r].k, {"copy"}) EXCEPT ![r].pc = "copy", ![r].holds = TRUE]
           /\ UNCHANGED <<upload, client>>
  <2> DEFINE f == Forget(req[r].k, {"copy"})
             q == [req[r] EXCEPT !.pc = "copy", !.holds = TRUE]
  <2>1. f[r] = req[r]
    BY <1>2 DEF Forget
  <2>2. req' = [f EXCEPT ![r] = q]
    BY <1>5, <2>1
  <2>3. ReqOk(req[r]) /\ req[r] \in Request
    BY <1>1 DEF ReqsOk
  <2>4. /\ q \in Request /\ q.pc = "copy" /\ q.up = req[r].up /\ q.k = req[r].k
        /\ q.holds
    BY <2>3 DEF Request
  <2> HIDE DEF q
  <2>5. ReqOk(q)
    BY <1>2, <2>3, <2>4 DEF ReqOk
  <2>6. Requests(r) /\ req'[r] = q
    BY <1>1, <2>2, <2>5, ForgetOf
  <2>7. Files'
    <3>1. req[r].k \in Index
      BY <1>2, PlaceOf
    <3> QED
      BY <1>1, <1>2, <1>5, <3>1 DEF Files, Contents
  <2>8. /\ client' \in [Uploads -> Client] /\ \A u \in Uploads : ClientOk(client'[u], u)
        /\ Tame
    BY <1>5, SameClients
  <2>9. TypeOK'
    BY <1>1, <1>2, <1>3, <1>5, <2>4, <2>6, <2>7, <2>8, MovedTyped
  <2> QED
    BY <1>2, <1>5, <2>4, <2>6, <2>8, <2>9 DEF Moved
<1> QED
  BY <1>4, <1>5 DEF CreatePiece

LEMMA CopyPieceDoes ==
  ASSUME TypeOK, NEW r \in Reqs, CopyPiece(r)
  PROVE  /\ Moved(r) /\ req[r].pc = "copy"
         /\ UNCHANGED <<uploadSessions, asks, dest, pier, upload>>
         /\ req'[r].pc = "stat" /\ req'[r].up = req[r].up
         /\ \/ /\ UNCHANGED h
               /\ \/ req[r].holds /\ part' = [part EXCEPT ![req[r].k] = Arc(req[r].up)]
                  \/ ~req[r].holds /\ UNCHANGED part
            \/ h' = [h EXCEPT !.short = TRUE] /\ h'.short /\ UNCHANGED part
<1>1. /\ Ends /\ Files /\ pier \in Pier /\ upload \in Statuses /\ h \in History
      /\ left \in Budget /\ ClientsOk /\ ReqsOk /\ Writers
  BY TypeParts
<1>2. /\ req[r].pc = "copy" /\ Goto(r, "stat") /\ UNCHANGED client
      /\ UNCHANGED <<uploadSessions, asks, dest, pier, upload>>
  BY DEF CopyPiece, At
<1>3. /\ Ends' /\ pier' \in Pier /\ upload' \in Statuses
  BY <1>1, <1>2 DEF Ends
<1>4. /\ Requests(r) /\ req'[r].pc = "stat" /\ req'[r].up = req[r].up
  BY <1>1, <1>2, GotoOf DEF Pcs
<1>5. /\ client' \in [Uploads -> Client] /\ \A u \in Uploads : ClientOk(client'[u], u)
      /\ Tame
  BY <1>2, SameClients
<1>6. CASE /\ part' = [part EXCEPT ![req[r].k] = IF req[r].holds THEN Arc(req[r].up) ELSE @]
           /\ UNCHANGED <<h, left>>
  <2>1. /\ req[r].k \in Index /\ Arc(req[r].up) \in Contents
    BY <1>2, PlaceOf DEF Contents
  <2>2. part \in [Index -> Contents]
    BY <1>1 DEF Files
  <2>3. CASE req[r].holds
    <3>1. part' = [part EXCEPT ![req[r].k] = Arc(req[r].up)]
      BY <1>6, <2>3
    <3>2. Files'
      BY <1>1, <1>2, <2>1, <2>2, <3>1 DEF Files
    <3>3. TypeOK'
      BY <1>1, <1>2, <1>3, <1>4, <1>5, <1>6, <3>2, MovedTyped
    <3> QED
      BY <1>2, <1>4, <1>5, <1>6, <2>3, <3>1, <3>3 DEF Moved
  <2>4. CASE ~req[r].holds
    <3>1. UNCHANGED part
      BY <1>6, <2>2, <2>4
    <3>2. Files'
      BY <1>1, <1>2, <3>1 DEF Files
    <3>3. TypeOK'
      BY <1>1, <1>2, <1>3, <1>4, <1>5, <1>6, <3>2, MovedTyped
    <3> QED
      BY <1>2, <1>4, <1>5, <1>6, <2>4, <3>1, <3>3 DEF Moved
  <2> QED
    BY <2>3, <2>4
<1>7. CASE Spend("faults") /\ h' = [h EXCEPT !.short = TRUE] /\ UNCHANGED part
  <2>1. left' \in Budget /\ left'.plan = left.plan /\ left'.wg = left.wg
    BY <1>1, <1>7, SpendOf
  <2>2. Files' /\ h' \in History /\ h'.short
    BY <1>1, <1>2, <1>7 DEF Files, History
  <2>3. TypeOK'
    BY <1>1, <1>2, <1>3, <1>4, <1>5, <2>1, <2>2, MovedTyped
  <2> QED
    BY <1>2, <1>4, <1>5, <1>7, <2>1, <2>2, <2>3 DEF Moved
<1> QED
  BY <1>6, <1>7 DEF CopyPiece

LEMMA CheckChunksDoes ==
  ASSUME TypeOK, NEW r \in Reqs, CheckChunks(r)
  PROVE  /\ Moved(r) /\ req[r].pc = "stat"
         /\ UNCHANGED <<uploadSessions, asks, part, dest, pier, upload, h>>
         /\ \/ allChunksReceived(r) /\ req'[r].pc = "open" /\ req'[r].up = req[r].up
            \/ req'[r].pc = "idle"
<1>1. /\ Ends /\ Files /\ pier \in Pier /\ upload \in Statuses /\ h \in History
      /\ left \in Budget /\ ClientsOk /\ ReqsOk /\ Writers
  BY TypeParts
<1>2. /\ req[r].pc = "stat" /\ UNCHANGED left
      /\ UNCHANGED <<uploadSessions, asks, part, dest, pier, upload, h>>
  BY DEF CheckChunks, At, files
<1>3. Ends' /\ Files' /\ pier' \in Pier /\ upload' \in Statuses /\ h' \in History /\ left' \in Budget
  BY <1>1, <1>2 DEF Ends, Files
<1>4. CASE allChunksReceived(r) /\ Goto(r, "open") /\ UNCHANGED client
  <2>1. Requests(r) /\ req'[r].pc = "open" /\ req'[r].up = req[r].up
    BY <1>1, <1>2, <1>4, GotoOf DEF Pcs
  <2>2. /\ client' \in [Uploads -> Client] /\ \A u \in Uploads : ClientOk(client'[u], u)
        /\ Tame
    BY <1>4, SameClients
  <2>3. TypeOK'
    BY <1>2, <1>3, <2>1, <2>2, MovedTyped
  <2> QED
    BY <1>2, <1>4, <2>1, <2>2, <2>3 DEF Moved
<1>5. CASE Respond(r, TRUE)
  <2>1. Requests(r) /\ req'[r].pc = "idle"
    BY <1>1, <1>5, EndOf DEF Respond
  <2>2. /\ client' \in [Uploads -> Client] /\ \A u \in Uploads : ClientOk(client'[u], u)
        /\ Tame
    BY <1>5, HearOf DEF Respond
  <2>3. TypeOK'
    BY <1>2, <1>3, <2>1, <2>2, MovedTyped
  <2> QED
    BY <1>2, <2>1, <2>2, <2>3 DEF Moved
<1> QED
  BY <1>4, <1>5 DEF CheckChunks

LEMMA CreateArchiveDoes ==
  ASSUME TypeOK, NEW r \in Reqs, CreateArchive(r)
  PROVE  /\ Moved(r) /\ req[r].pc = "open"
         /\ UNCHANGED <<uploadSessions, asks, part, pier, upload, h>>
         /\ dest' = Empty /\ req'[r].pc = "join" /\ req'[r].up = req[r].up
         /\ req'[r].k = 0 /\ req'[r].holds
<1>1. /\ Ends /\ Files /\ pier \in Pier /\ upload \in Statuses /\ h \in History
      /\ left \in Budget /\ ClientsOk /\ ReqsOk /\ Writers
  BY TypeParts
<1>2. /\ req[r].pc = "open" /\ UNCHANGED <<client, left>>
      /\ UNCHANGED <<uploadSessions, asks, part, pier, upload, h>>
      /\ dest' = Empty
  BY DEF CreateArchive, At
<1>3. dest' \in [Index -> Contents]
  BY <1>2 DEF Empty, Contents
<1>4. Ends' /\ Files' /\ pier' \in Pier /\ upload' \in Statuses /\ h' \in History /\ left' \in Budget
  BY <1>1, <1>2, <1>3 DEF Ends, Files
<1> DEFINE q == [req[r] EXCEPT !.pc = "join", !.k = 0, !.holds = TRUE]
<1>5. /\ q \in Request /\ q.pc = "join" /\ q.up = req[r].up /\ q.k = 0 /\ q.holds
  BY <1>2, PlaceOf DEF Request
<1>6. req' = [req EXCEPT ![r] = q]
  BY <1>1 DEF CreateArchive, ReqsOk
<1> HIDE DEF q
<1>7. ReqOk(q)
  <2>1. Total(r) \in Nat \ {0} /\ Total(r) = Pieces[Arc(req[r].up)]
        /\ req[r].up \in Planned \cap Uploads
    BY <1>2, PlaceOf
  <2>2. 0 < Pieces[Arc(req[r].up)]
    BY <2>1
  <2> QED
    BY <1>5, <2>1, <2>2 DEF ReqOk
<1>8. Requests(r) /\ req'[r] = q
  BY <1>1, <1>6, <1>7, SetOf
<1>9. /\ client' \in [Uploads -> Client] /\ \A u \in Uploads : ClientOk(client'[u], u)
      /\ Tame
  BY <1>2, SameClients
<1>10. TypeOK'
  BY <1>2, <1>3, <1>4, <1>8, <1>9, MovedTyped
<1> QED
  BY <1>2, <1>5, <1>8, <1>9, <1>10 DEF Moved

LEMMA JoinPieceDoes ==
  ASSUME TypeOK, NEW r \in Reqs, JoinPiece(r)
  PROVE  /\ Moved(r) /\ req[r].pc = "join"
         /\ UNCHANGED <<uploadSessions, asks, part, pier, h>>
         /\ \/ /\ part[req[r].k] = None /\ req'[r].pc = "idle" /\ upload' = "aborted"
               /\ UNCHANGED dest
            \/ /\ part[req[r].k] # None /\ UNCHANGED upload
               /\ req'[r].pc = "drop" /\ req'[r].up = req[r].up /\ req'[r].k = req[r].k
               /\ req'[r].holds = req[r].holds
               /\ \/ /\ req[r].holds /\ dest \in [Index -> Contents]
                     /\ dest' = [dest EXCEPT ![req[r].k] = Added(req[r].k, part[req[r].k])]
                  \/ ~req[r].holds /\ UNCHANGED dest
<1>1. /\ Ends /\ Files /\ pier \in Pier /\ upload \in Statuses /\ h \in History
      /\ left \in Budget /\ ClientsOk /\ ReqsOk /\ Writers
  BY TypeParts
<1>2. /\ req[r].pc = "join" /\ UNCHANGED left
      /\ UNCHANGED <<uploadSessions, asks, part, pier, h>>
  BY DEF JoinPiece, At
<1>3. /\ Ends' /\ pier' \in Pier /\ h' \in History /\ left' \in Budget
  BY <1>1, <1>2 DEF Ends
<1>4. CASE part[req[r].k] = None /\ Refuse(r) /\ UNCHANGED dest
  <2>1. Requests(r) /\ req'[r].pc = "idle"
    BY <1>1, <1>4, EndOf DEF Refuse, Respond
  <2>2. /\ client' \in [Uploads -> Client] /\ \A u \in Uploads : ClientOk(client'[u], u)
        /\ Tame
    BY <1>4, HearOf DEF Refuse, Respond
  <2>3. upload' = "aborted" /\ Files'
    BY <1>1, <1>2, <1>4 DEF Refuse, Files
  <2>4. TypeOK'
    BY <1>2, <1>3, <1>4, <2>1, <2>2, <2>3, MovedTyped DEF Statuses
  <2> QED
    BY <1>2, <1>4, <2>1, <2>2, <2>3, <2>4 DEF Moved
<1>5. CASE /\ part[req[r].k] # None
           /\ dest' = IF req[r].holds
                      THEN [dest EXCEPT ![req[r].k] = Added(req[r].k, part[req[r].k])] ELSE dest
           /\ Goto(r, "drop")
           /\ UNCHANGED <<upload, client>>
  <2>1. /\ Requests(r) /\ req'[r].pc = "drop" /\ req'[r].up = req[r].up /\ req'[r].k = req[r].k
        /\ req'[r].holds = req[r].holds
    BY <1>1, <1>2, <1>5, GotoOf DEF Pcs
  <2>2. /\ client' \in [Uploads -> Client] /\ \A u \in Uploads : ClientOk(client'[u], u)
        /\ Tame
    BY <1>5, SameClients
  <2>3. CASE req[r].holds
    <3>1. dest \in [Index -> Contents] /\ req[r].k \in Index /\ part \in [Index -> Contents]
      BY <1>1, <1>2, <2>3, PlaceOf DEF Writers, Files
    <3>2. Added(req[r].k, part[req[r].k]) \in Contents
      BY <3>1 DEF Added, Contents
    <3>3. dest' = [dest EXCEPT ![req[r].k] = Added(req[r].k, part[req[r].k])]
      BY <1>5, <2>3
    <3>4. dest' \in [Index -> Contents] /\ Files'
      BY <1>1, <1>2, <3>1, <3>2, <3>3 DEF Files
    <3>5. TypeOK'
      BY <1>1, <1>2, <1>3, <1>5, <2>1, <2>2, <3>4, MovedTyped
    <3> QED
      BY <1>2, <1>5, <2>1, <2>2, <2>3, <3>1, <3>3, <3>5 DEF Moved
  <2>4. CASE ~req[r].holds
    <3>1. UNCHANGED dest /\ Files'
      BY <1>1, <1>2, <1>5, <2>4 DEF Files
    <3>2. TypeOK'
      BY <1>1, <1>2, <1>3, <1>5, <2>1, <2>2, <2>4, <3>1, MovedTyped
    <3> QED
      BY <1>2, <1>5, <2>1, <2>2, <2>4, <3>1, <3>2 DEF Moved
  <2> QED
    BY <2>3, <2>4
<1> QED
  BY <1>4, <1>5 DEF JoinPiece

LEMMA DropPieceDoes ==
  ASSUME TypeOK, NEW r \in Reqs, DropPiece(r)
  PROVE  /\ Moved(r) /\ req[r].pc = "drop"
         /\ UNCHANGED <<uploadSessions, asks, dest, pier, upload, h>>
         /\ part' = [part EXCEPT ![req[r].k] = None]
         /\ req'[r].up = req[r].up /\ req'[r].holds = req[r].holds
         /\ \/ req[r].k + 1 < Total(r) /\ req'[r].pc = "join" /\ req'[r].k = req[r].k + 1
            \/ ~(req[r].k + 1 < Total(r)) /\ req'[r].pc = "read"
<1>1. /\ Ends /\ Files /\ pier \in Pier /\ upload \in Statuses /\ h \in History
      /\ left \in Budget /\ ClientsOk /\ ReqsOk /\ Writers
  BY TypeParts
<1>2. /\ req[r].pc = "drop" /\ UNCHANGED <<client, left>>
      /\ UNCHANGED <<uploadSessions, asks, dest, pier, upload, h>>
      /\ part' = [part EXCEPT ![req[r].k] = None]
  BY DEF DropPiece, At
<1>3. /\ req[r] \in Request /\ req[r].k \in Index /\ req[r].k \in Nat /\ Total(r) \in Nat \ {0}
      /\ Total(r) = Pieces[Arc(req[r].up)] /\ req[r].up \in Planned \cap Uploads
  BY <1>2, PlaceOf
<1>4. Ends' /\ Files' /\ pier' \in Pier /\ upload' \in Statuses /\ h' \in History /\ left' \in Budget
  BY <1>1, <1>2, <1>3 DEF Ends, Files, Contents
<1> DEFINE f == Forget(req[r].k, {"copy"})
           k == IF req[r].k + 1 < Total(r) THEN req[r].k + 1 ELSE 0
           pc == IF req[r].k + 1 < Total(r) THEN "join" ELSE "read"
           q == [req[r] EXCEPT !.k = k, !.pc = pc]
<1>5. f[r] = req[r]
  BY <1>2 DEF Forget
<1>6. req' = [f EXCEPT ![r] = q]
  BY <1>5 DEF DropPiece
<1>7. k \in Nat /\ k < Total(r) /\ pc \in {"join", "read"}
  BY <1>3
<1>8. \/ req[r].k + 1 < Total(r) /\ pc = "join" /\ k = req[r].k + 1
      \/ ~(req[r].k + 1 < Total(r)) /\ pc = "read"
  OBVIOUS
<1> HIDE DEF k, pc
<1>9. /\ q \in Request /\ q.pc = pc /\ q.up = req[r].up /\ q.k = k
      /\ q.holds = req[r].holds
  BY <1>3, <1>7 DEF Request
<1> HIDE DEF q
<1>10. ReqOk(q)
  BY <1>3, <1>7, <1>9 DEF ReqOk
<1>11. Requests(r) /\ req'[r] = q
  BY <1>1, <1>6, <1>10, ForgetOf
<1>12. /\ client' \in [Uploads -> Client] /\ \A u \in Uploads : ClientOk(client'[u], u)
       /\ Tame
  BY <1>2, SameClients
<1>13. req'[r].holds => dest' \in [Index -> Contents]
  BY <1>1, <1>2, <1>9, <1>11 DEF Writers
<1>14. TypeOK'
  BY <1>2, <1>4, <1>11, <1>12, <1>13, MovedTyped
<1> QED
  BY <1>2, <1>8, <1>9, <1>11, <1>12, <1>14 DEF Moved

LEMMA ReadOptionsDoes ==
  ASSUME TypeOK, NEW r \in Reqs, ReadOptions(r)
  PROVE  /\ Moved(r) /\ req[r].pc = "read"
         /\ UNCHANGED <<uploadSessions, asks, part, dest, pier, upload>>
         /\ req'[r].pc = "clear" /\ req'[r].up = req[r].up
         /\ req'[r].remote = uploadSessions[req[r].up].remote
         /\ h' = [h EXCEPT !.late = h.late \/ asks[req[r].up] # <<>>]
<1>1. /\ Ends /\ Files /\ pier \in Pier /\ upload \in Statuses /\ h \in History
      /\ left \in Budget /\ ClientsOk /\ ReqsOk /\ Writers
  BY TypeParts
<1>2. /\ req[r].pc = "read" /\ UNCHANGED <<client, left>>
      /\ UNCHANGED <<uploadSessions, asks, part, dest, pier, upload>>
      /\ h' = [h EXCEPT !.late = h.late \/ asks[req[r].up] # <<>>]
  BY DEF ReadOptions, At, files
<1>3. h' \in History
  BY <1>1, <1>2 DEF History
<1>4. Ends' /\ Files' /\ pier' \in Pier /\ upload' \in Statuses /\ left' \in Budget
  BY <1>1, <1>2 DEF Ends, Files
<1> DEFINE remote == uploadSessions[req[r].up].remote
           q == [req[r] EXCEPT !.pc = "clear", !.remote = remote]
<1>5. req[r] \in Request /\ remote \in BOOLEAN /\ ReqOk(req[r])
  BY <1>1, <1>2, PlaceOf DEF Ends, ReqsOk
<1>6. req' = [req EXCEPT ![r] = q]
  BY <1>1 DEF ReadOptions, ReqsOk
<1> HIDE DEF remote
<1>7. /\ q \in Request /\ q.pc = "clear" /\ q.up = req[r].up /\ q.k = req[r].k
      /\ q.remote = remote
  BY <1>5 DEF Request
<1> HIDE DEF q
<1>8. ReqOk(q)
  BY <1>2, <1>5, <1>7 DEF ReqOk
<1>9. Requests(r) /\ req'[r] = q
  BY <1>1, <1>6, <1>8, SetOf
<1>10. /\ client' \in [Uploads -> Client] /\ \A u \in Uploads : ClientOk(client'[u], u)
       /\ Tame
  BY <1>2, SameClients
<1>11. TypeOK'
  BY <1>2, <1>3, <1>4, <1>7, <1>9, <1>10, MovedTyped
<1> QED
  BY <1>2, <1>7, <1>9, <1>10, <1>11 DEF Moved, remote

LEMMA StartedOf ==
  ASSUME h \in History, NEW u \in Uploads
  PROVE  /\ Started(u) \in History
         /\ Started(u).overlap = (h.overlap \/ Imports # {})
         /\ Started(u).stale = h.stale /\ Started(u).short = h.short /\ Started(u).late = h.late
         /\ Started(u).restarted = h.restarted /\ Started(u).failed = h.failed
         /\ Started(u).imports[u] > 0
         /\ h.imports[u] = 0 => Started(u).imports[u] = 1
         /\ \A v \in Uploads : v # u => Started(u).imports[v] = h.imports[v]
<1> DEFINE n == IF h.imports[u] = 2 THEN 2 ELSE h.imports[u] + 1
           imports == [h.imports EXCEPT ![u] = n]
           o == h.overlap \/ Imports # {}
           s == [h EXCEPT !.imports = imports, !.overlap = o]
<1>1. Started(u) = s
  BY DEF Started, History
<1>2. h.imports \in [Uploads -> 0..2]
  BY DEF History
<1>3. n \in 0..2 /\ n > 0 /\ (h.imports[u] = 0 => n = 1)
  BY <1>2
<1> HIDE DEF n
<1>4. /\ imports \in [Uploads -> 0..2] /\ imports[u] = n
      /\ \A v \in Uploads : v # u => imports[v] = h.imports[v]
  BY <1>2, <1>3
<1>5. o \in BOOLEAN
  BY DEF History
<1> HIDE DEF imports, o
<1>6. /\ s \in History /\ s.imports = imports /\ s.overlap = o /\ s.stale = h.stale
      /\ s.short = h.short /\ s.late = h.late /\ s.restarted = h.restarted /\ s.failed = h.failed
  BY <1>4, <1>5 DEF History
<1> HIDE DEF s
<1> QED
  BY <1>1, <1>3, <1>4, <1>6 DEF o

LEMMA ClearUploadSessionDoes ==
  ASSUME TypeOK, NEW r \in Reqs, ClearUploadSession(r)
  PROVE  /\ Moved(r) /\ req[r].pc = "clear"
         /\ UNCHANGED <<asks, part, dest, pier, upload>>
         /\ uploadSessions' = [uploadSessions EXCEPT ![req[r].up] = Closed]
         /\ req'[r].pc = "create" /\ req'[r].up = req[r].up /\ req'[r].remote = req[r].remote
         /\ h' = Started(req[r].up)
<1>1. /\ Ends /\ Files /\ pier \in Pier /\ upload \in Statuses /\ h \in History
      /\ left \in Budget /\ ClientsOk /\ ReqsOk /\ Writers
  BY TypeParts
<1>2. /\ req[r].pc = "clear" /\ UNCHANGED left /\ Hear(r, TRUE)
      /\ UNCHANGED <<asks, part, dest, pier, upload>>
      /\ uploadSessions' = [uploadSessions EXCEPT ![req[r].up] = Closed]
      /\ req' = [req EXCEPT ![r] = Importer(r)] /\ h' = Started(req[r].up)
  BY DEF ClearUploadSession, At, files
<1>3. /\ req[r] \in Request /\ req[r].up \in Planned \cap Uploads /\ req[r].up \in Nat
      /\ Total(r) \in Nat \ {0} /\ Total(r) = Pieces[Arc(req[r].up)] /\ 0 < Total(r)
  BY <1>2, PlaceOf DEF Request
<1>4. h' \in History
  BY <1>1, <1>2, <1>3, StartedOf
<1>5. Ends' /\ Files' /\ pier' \in Pier /\ upload' \in Statuses /\ left' \in Budget
  BY <1>1, <1>2, <1>3 DEF Ends, Files, Closed
<1> DEFINE q == Importer(r)
<1>6. /\ q \in Request /\ q.pc = "create" /\ q.up = req[r].up /\ q.k = 0
      /\ q.remote = req[r].remote
  BY <1>3 DEF Importer, Idle, Request, Importing
<1> HIDE DEF q
<1>7. ReqOk(q)
  BY <1>3, <1>6 DEF ReqOk
<1>8. Requests(r) /\ req'[r] = q
  BY <1>1, <1>2, <1>7, SetOf DEF q
<1>9. /\ client' \in [Uploads -> Client] /\ \A u \in Uploads : ClientOk(client'[u], u)
      /\ Tame
  BY <1>2, HearOf
<1>10. TypeOK'
  BY <1>2, <1>4, <1>5, <1>6, <1>8, <1>9, MovedTyped
<1> QED
  BY <1>2, <1>6, <1>8, <1>9, <1>10 DEF Moved

-----------------------------------------------------------------------------
(* What an import does                                                     *)

\* A step of an import that only goes on, and one that ends it.
LEMMA GoesOn ==
  ASSUME TypeOK, NEW r \in Reqs, req[r].pc # "idle", NEW pc \in Pcs \ {"join", "drop"},
         Goto(r, pc), UNCHANGED <<uploadSessions, asks, part, dest, client, h>>,
         left' \in Budget, left'.plan = left.plan, left'.wg = left.wg,
         pier' \in Pier, upload' \in Statuses
  PROVE  /\ Moved(r) /\ req'[r].pc = pc /\ req'[r].up = req[r].up
         /\ req'[r].remote = req[r].remote
<1>1. Ends /\ Files /\ h \in History /\ ReqsOk
  BY TypeParts
<1>2. Ends' /\ Files' /\ h' \in History
  BY <1>1 DEF Ends, Files
<1>3. /\ Requests(r) /\ req'[r].pc = pc /\ req'[r].up = req[r].up
      /\ req'[r].remote = req[r].remote
  BY <1>1, GotoOf
<1>4. /\ client' \in [Uploads -> Client] /\ \A u \in Uploads : ClientOk(client'[u], u)
      /\ Tame
  BY SameClients
<1>5. TypeOK'
  BY <1>2, <1>3, <1>4, MovedTyped
<1> QED
  BY <1>3, <1>4, <1>5 DEF Moved

LEMMA EndsSo ==
  ASSUME TypeOK, NEW r \in Reqs, req' = [req EXCEPT ![r] = Idle],
         UNCHANGED <<uploadSessions, asks, part, dest, client, h>>,
         left' \in Budget, left'.plan = left.plan, left'.wg = left.wg,
         pier' \in Pier, upload' \in Statuses
  PROVE  Moved(r) /\ req'[r].pc = "idle"
<1>1. Ends /\ Files /\ h \in History /\ ReqsOk
  BY TypeParts
<1>2. Ends' /\ Files' /\ h' \in History
  BY <1>1 DEF Ends, Files
<1>3. Requests(r) /\ req'[r].pc = "idle"
  BY <1>1, EndOf
<1>4. /\ client' \in [Uploads -> Client] /\ \A u \in Uploads : ClientOk(client'[u], u)
      /\ Tame
  BY SameClients
<1>5. TypeOK'
  BY <1>2, <1>3, <1>4, MovedTyped
<1> QED
  BY <1>3, <1>4, <1>5 DEF Moved

\* It gives up, after a fault or without one.
LEMMA GivenUp ==
  ASSUME TypeOK, NEW r \in Reqs, req[r].pc # "idle", Goto(r, "cleanup"),
         UNCHANGED <<uploadSessions, asks, part, dest, client, h>>,
         Spend("faults") \/ UNCHANGED left,
         pier' \in Pier, upload' \in Statuses
  PROVE  Moved(r) /\ req'[r].pc = "cleanup" /\ req'[r].up = req[r].up /\ req'[r].remote = req[r].remote
<1>1. left \in Budget
  BY TypeParts
<1>2. left' \in Budget /\ left'.plan = left.plan /\ left'.wg = left.wg
  BY <1>1, SpendOf
<1> QED
  BY <1>2, GoesOn DEF Pcs, Importing

LEMMA CreatePierDoes ==
  ASSUME TypeOK, NEW r \in Reqs, CreatePier(r)
  PROVE  /\ Moved(r) /\ req[r].pc = "create"
         /\ UNCHANGED <<uploadSessions, asks, part, dest, h>>
         /\ req'[r].up = req[r].up /\ req'[r].remote = req[r].remote /\ upload' = "creating"
         /\ \/ req'[r].pc = "prepare" /\ pier' = [pier EXCEPT !.conf = TRUE]
            \/ req'[r].pc = "cleanup" /\ UNCHANGED pier
<1>1. pier \in Pier /\ left \in Budget
  BY TypeParts
<1>2. /\ req[r].pc = "create" /\ upload' = "creating"
      /\ UNCHANGED <<uploadSessions, asks, part, dest, client, h>>
  BY DEF CreatePier, At, files
<1>3. upload' \in Statuses
  BY <1>2 DEF Statuses, Stages
<1>4. CASE pier' = [pier EXCEPT !.conf = TRUE] /\ Goto(r, "prepare") /\ UNCHANGED left
  <2>1. pier' \in Pier
    BY <1>1, <1>4 DEF Pier
  <2>2. "prepare" \in Pcs \ {"join", "drop"}
    BY DEF Pcs, Importing
  <2>3. /\ Moved(r) /\ req'[r].pc = "prepare" /\ req'[r].up = req[r].up
        /\ req'[r].remote = req[r].remote
    BY <1>1, <1>2, <1>3, <1>4, <2>1, <2>2, GoesOn
  <2> QED
    BY <1>2, <1>4, <2>3
<1>5. CASE FaultyGiveUp(r)
  <2>1. pier' = pier /\ Goto(r, "cleanup") /\ Spend("faults")
    BY <1>5 DEF FaultyGiveUp, GiveUp
  <2> QED
    BY <1>1, <1>2, <1>3, <2>1, GivenUp
<1> QED
  BY <1>4, <1>5 DEF CreatePier

LEMMA PrepareDoes ==
  ASSUME TypeOK, NEW r \in Reqs, Prepare(r)
  PROVE  /\ Moved(r) /\ req[r].pc = "prepare"
         /\ UNCHANGED <<uploadSessions, asks, part, dest, h>>
         /\ req'[r].up = req[r].up /\ req'[r].remote = req[r].remote
         /\ \/ /\ req'[r].pc = "extract" /\ pier' = [pier EXCEPT !.vol = Short, !.box = "none"]
               /\ upload' = "extracting"
            \/ req'[r].pc = "cleanup" /\ UNCHANGED upload
<1>1. pier \in Pier /\ left \in Budget /\ upload \in Statuses
  BY TypeParts
<1>2. /\ req[r].pc = "prepare"
      /\ UNCHANGED <<uploadSessions, asks, part, dest, client, h>>
  BY DEF Prepare, At, files
<1>3. CASE /\ pier' = [pier EXCEPT !.vol = Short, !.box = "none"] /\ Goto(r, "extract")
           /\ upload' = "extracting" /\ UNCHANGED left
  <2>1. pier' \in Pier /\ upload' \in Statuses
    BY <1>1, <1>3 DEF Pier, Contents, Statuses, Stages
  <2>2. "extract" \in Pcs \ {"join", "drop"}
    BY DEF Pcs, Importing
  <2>3. /\ Moved(r) /\ req'[r].pc = "extract" /\ req'[r].up = req[r].up
        /\ req'[r].remote = req[r].remote
    BY <1>1, <1>2, <1>3, <2>1, <2>2, GoesOn
  <2> QED
    BY <1>2, <1>3, <2>3
<1>4. CASE /\ Spend("faults") /\ pier' = [pier EXCEPT !.vol = None, !.box = "none"]
           /\ Goto(r, "cleanup") /\ UNCHANGED upload
  <2>1. pier' \in Pier
    BY <1>1, <1>4 DEF Pier, Contents
  <2>2. /\ Moved(r) /\ req'[r].pc = "cleanup" /\ req'[r].up = req[r].up
        /\ req'[r].remote = req[r].remote
    BY <1>1, <1>2, <1>4, <2>1, GivenUp
  <2> QED
    BY <1>2, <1>4, <2>2
<1> QED
  BY <1>3, <1>4 DEF Prepare

LEMMA ExtractDoes ==
  ASSUME TypeOK, NEW r \in Reqs, Extract(r)
  PROVE  /\ Moved(r) /\ req[r].pc = "extract"
         /\ UNCHANGED <<uploadSessions, asks, part, dest, upload, h>>
         /\ req'[r].up = req[r].up /\ req'[r].remote = req[r].remote
         /\ \/ /\ req'[r].pc = "restructure"
               /\ \E a \in Archives : Whole(a) /\ pier' = [pier EXCEPT !.vol = a]
            \/ req'[r].pc = "cleanup" /\ UNCHANGED pier
<1>1. pier \in Pier /\ left \in Budget /\ upload \in Statuses
  BY TypeParts
<1>2. /\ req[r].pc = "extract"
      /\ UNCHANGED <<uploadSessions, asks, part, dest, client, upload, h>>
  BY DEF Extract, At, files
<1>3. ASSUME NEW a \in Archives, Whole(a), pier' = [pier EXCEPT !.vol = a],
             Goto(r, "restructure"), UNCHANGED left
      PROVE  /\ Moved(r) /\ req'[r].pc = "restructure" /\ req'[r].up = req[r].up
             /\ req'[r].remote = req[r].remote
  <2>1. pier' \in Pier
    BY <1>1, <1>3 DEF Pier, Contents
  <2>2. "restructure" \in Pcs \ {"join", "drop"}
    BY DEF Pcs, Importing
  <2> QED
    BY <1>1, <1>2, <1>3, <2>1, <2>2, GoesOn
<1>4. CASE GiveUp(r) /\ UNCHANGED left
  <2>1. pier' = pier /\ Goto(r, "cleanup")
    BY <1>4 DEF GiveUp
  <2> QED
    BY <1>1, <1>2, <1>4, <2>1, GivenUp
<1>5. CASE FaultyGiveUp(r)
  <2>1. pier' = pier /\ Goto(r, "cleanup") /\ Spend("faults")
    BY <1>5 DEF FaultyGiveUp, GiveUp
  <2> QED
    BY <1>1, <1>2, <2>1, GivenUp
<1>6. CASE \E a \in Archives : /\ Whole(a)
                               /\ pier' = [pier EXCEPT !.vol = a]
                               /\ Goto(r, "restructure")
                               /\ UNCHANGED left
  BY <1>2, <1>3, <1>6
<1> QED
  BY <1>4, <1>5, <1>6 DEF Extract

LEMMA RestructureDoes ==
  ASSUME TypeOK, NEW r \in Reqs, Restructure(r)
  PROVE  /\ Moved(r) /\ req[r].pc = "restructure"
         /\ UNCHANGED <<uploadSessions, asks, part, dest, pier, h>>
         /\ req'[r].up = req[r].up /\ req'[r].remote = req[r].remote
         /\ \/ req'[r].pc = "boot" /\ upload' = "booting"
            \/ req'[r].pc = "cleanup" /\ UNCHANGED upload
<1>1. pier \in Pier /\ left \in Budget /\ upload \in Statuses
  BY TypeParts
<1>2. /\ req[r].pc = "restructure"
      /\ UNCHANGED <<uploadSessions, asks, part, dest, client, h>>
  BY DEF Restructure, At, files
<1>3. CASE Goto(r, "boot") /\ upload' = "booting" /\ UNCHANGED <<pier, left>>
  <2>1. pier' \in Pier /\ upload' \in Statuses
    BY <1>1, <1>3 DEF Statuses, Stages
  <2>2. "boot" \in Pcs \ {"join", "drop"}
    BY DEF Pcs, Importing
  <2>3. Moved(r) /\ req'[r].pc = "boot" /\ req'[r].up = req[r].up /\ req'[r].remote = req[r].remote
    BY <1>1, <1>2, <1>3, <2>1, <2>2, GoesOn
  <2> QED
    BY <1>2, <1>3, <2>3
<1>4. CASE FaultyGiveUp(r) /\ UNCHANGED upload
  <2>1. pier' = pier /\ Goto(r, "cleanup") /\ Spend("faults")
    BY <1>4 DEF FaultyGiveUp, GiveUp
  <2> QED
    BY <1>1, <1>2, <1>4, <2>1, GivenUp
<1> QED
  BY <1>3, <1>4 DEF Restructure

LEMMA BootDoes ==
  ASSUME TypeOK, NEW r \in Reqs, Boot(r)
  PROVE  /\ Moved(r) /\ req[r].pc = "boot"
         /\ UNCHANGED <<uploadSessions, asks, part, upload, h>>
         /\ req'[r].up = req[r].up /\ req'[r].remote = req[r].remote
         /\ \/ /\ req'[r].pc = "wait" /\ dest' = None
               /\ pier' = [pier EXCEPT !.box = "up"]
            \/ req'[r].pc = "cleanup" /\ UNCHANGED dest
<1>1. /\ Ends /\ Files /\ pier \in Pier /\ upload \in Statuses /\ h \in History
      /\ left \in Budget /\ ClientsOk /\ ReqsOk /\ Writers
  BY TypeParts
<1>2. /\ req[r].pc = "boot"
      /\ UNCHANGED <<uploadSessions, asks, part, client, upload, h>>
  BY DEF Boot, At
<1>3. CASE /\ pier' = [pier EXCEPT !.box = "up"] /\ RemoveArchive([req EXCEPT ![r].pc = "wait"])
           /\ UNCHANGED left
  <2> DEFINE q == [req[r] EXCEPT !.pc = "wait"]
  <2>1. /\ q \in Request /\ q.pc = "wait" /\ q.up = req[r].up /\ q.k = req[r].k
        /\ q.remote = req[r].remote
    BY <1>2, PlaceOf DEF Request, Importing
  <2>2. RemoveArchive([req EXCEPT ![r] = q])
    BY <1>3
  <2> HIDE DEF q
  <2>3. ReqOk(q)
    BY <1>1, <1>2, <2>1 DEF ReqsOk, ReqOk
  <2>4. /\ Requests(r) /\ req'[r] = q /\ dest' = None
        /\ \A x \in Reqs : req'[x].pc \in {"join", "drop"} => ~req'[x].holds
    BY <1>1, <2>1, <2>2, <2>3, RemoveArchiveOf
  <2>5. pier' \in Pier
    BY <1>1, <1>3 DEF Pier
  <2>6. Ends' /\ Files' /\ upload' \in Statuses /\ h' \in History /\ left' \in Budget
    BY <1>1, <1>2, <1>3, <2>4 DEF Ends, Files
  <2>7. /\ client' \in [Uploads -> Client] /\ \A u \in Uploads : ClientOk(client'[u], u)
        /\ Tame
    BY <1>2, SameClients
  <2>8. TypeOK'
    BY <1>3, <2>1, <2>4, <2>5, <2>6, <2>7, MovedTyped
  <2> QED
    BY <1>2, <1>3, <2>1, <2>4, <2>7, <2>8 DEF Moved
<1>4. CASE GiveUp(r) /\ UNCHANGED <<dest, left>>
  <2>1. pier' = pier /\ Goto(r, "cleanup")
    BY <1>4 DEF GiveUp
  <2> QED
    BY <1>1, <1>2, <1>4, <2>1, GivenUp
<1>5. CASE /\ Spend("faults")
           /\ \E box \in {pier.box, "made"} : pier' = [pier EXCEPT !.box = box]
           /\ Goto(r, "cleanup")
           /\ UNCHANGED dest
  <2>1. PICK box \in {pier.box, "made"} : pier' = [pier EXCEPT !.box = box]
    BY <1>5
  <2>2. pier' \in Pier
    BY <1>1, <2>1 DEF Pier
  <2> QED
    BY <1>1, <1>2, <1>5, <2>2, GivenUp
<1> QED
  BY <1>3, <1>4, <1>5 DEF Boot

LEMMA ShipReadyDoes ==
  ASSUME TypeOK, NEW r \in Reqs, ShipReady(r)
  PROVE  /\ Moved(r) /\ req[r].pc = "wait"
         /\ UNCHANGED <<uploadSessions, asks, part, dest, pier, h>>
         /\ \/ /\ left.wg /\ req[r].remote /\ req'[r].pc = "remote" /\ upload' = "remote"
               /\ req'[r].up = req[r].up /\ req'[r].remote = req[r].remote
            \/ ~(left.wg /\ req[r].remote) /\ req'[r].pc = "idle" /\ upload' = "completed"
<1>1. pier \in Pier /\ left \in Budget
  BY TypeParts
<1>2. /\ req[r].pc = "wait" /\ UNCHANGED left
      /\ UNCHANGED <<uploadSessions, asks, part, dest, client, pier, h>>
  BY DEF ShipReady, At, files
<1>3. CASE left.wg /\ req[r].remote /\ upload' = "remote" /\ Goto(r, "remote")
  <2>1. upload' \in Statuses
    BY <1>3 DEF Statuses, Stages
  <2>2. "remote" \in Pcs \ {"join", "drop"}
    BY DEF Pcs, Importing
  <2>3. /\ Moved(r) /\ req'[r].pc = "remote" /\ req'[r].up = req[r].up
        /\ req'[r].remote = req[r].remote
    BY <1>1, <1>2, <1>3, <2>1, <2>2, GoesOn
  <2> QED
    BY <1>2, <1>3, <2>3
<1>4. CASE ~(left.wg /\ req[r].remote) /\ Completed(r)
  <2>1. req' = [req EXCEPT ![r] = Idle] /\ upload' = "completed" /\ upload' \in Statuses
    BY <1>4 DEF Completed, Statuses
  <2> QED
    BY <1>1, <1>2, <1>4, <2>1, EndsSo
<1> QED
  BY <1>3, <1>4 DEF ShipReady

LEMMA ToggleRemoteDoes ==
  ASSUME TypeOK, NEW r \in Reqs, ToggleRemote(r)
  PROVE  /\ Moved(r) /\ req[r].pc = "remote"
         /\ UNCHANGED <<uploadSessions, asks, part, dest, h>>
         /\ \/ /\ req'[r].pc = "idle" /\ upload' = "completed"
               /\ pier' = [pier EXCEPT !.conf = TRUE, !.remote = TRUE, !.box = "up"]
            \/ /\ req'[r].pc = "cleanup" /\ UNCHANGED upload
               /\ req'[r].up = req[r].up /\ req'[r].remote = req[r].remote
<1>1. pier \in Pier /\ left \in Budget /\ upload \in Statuses
  BY TypeParts
<1>2. /\ req[r].pc = "remote"
      /\ UNCHANGED <<uploadSessions, asks, part, dest, client, h>>
  BY DEF ToggleRemote, At, files
<1>3. CASE /\ pier' = [pier EXCEPT !.conf = TRUE, !.remote = TRUE, !.box = "up"]
           /\ Completed(r) /\ UNCHANGED left
  <2>1. req' = [req EXCEPT ![r] = Idle] /\ upload' = "completed" /\ upload' \in Statuses
    BY <1>3 DEF Completed, Statuses
  <2>2. pier' \in Pier
    BY <1>1, <1>3 DEF Pier
  <2> QED
    BY <1>1, <1>2, <1>3, <2>1, <2>2, EndsSo
<1>4. CASE /\ Spend("faults") /\ Goto(r, "cleanup") /\ UNCHANGED upload
           /\ \/ UNCHANGED pier
              \/ \E box \in {"none", "made"} :
                    pier' = [pier EXCEPT !.conf = TRUE, !.remote = TRUE, !.box = box]
  <2>1. pier' \in Pier
    BY <1>1, <1>4 DEF Pier
  <2> QED
    BY <1>1, <1>2, <1>4, <2>1, GivenUp
<1> QED
  BY <1>3, <1>4 DEF ToggleRemote

LEMMA ErrorCleanupDoes ==
  ASSUME TypeOK, NEW r \in Reqs, ErrorCleanup(r)
  PROVE  /\ Moved(r) /\ req[r].pc = "cleanup"
         /\ UNCHANGED <<uploadSessions, asks, part, upload>>
         /\ req'[r].pc = "idle" /\ dest' = None
         /\ pier' = NoPier \/ pier'.box # "none"
         /\ h' = [h EXCEPT !.failed = TRUE]
<1>1. /\ Ends /\ Files /\ pier \in Pier /\ upload \in Statuses /\ h \in History
      /\ left \in Budget /\ ClientsOk /\ ReqsOk /\ Writers
  BY TypeParts
<1>2. /\ req[r].pc = "cleanup" /\ UNCHANGED <<client, left>>
      /\ UNCHANGED <<uploadSessions, asks, part, upload>>
      /\ h' = [h EXCEPT !.failed = TRUE]
      /\ RemoveArchive([req EXCEPT ![r] = Idle])
  BY DEF ErrorCleanup, At
<1>3. pier' \in Pier /\ (pier' = NoPier \/ pier'.box # "none")
  <2>1. pier' = [NoPier EXCEPT !.vol = IF pier.box = "none" THEN None ELSE pier.vol,
                               !.box = pier.box]
    BY DEF ErrorCleanup
  <2>2. CASE pier.box = "none"
    BY <2>1, <2>2 DEF NoPier, Pier, Contents
  <2>3. CASE pier.box # "none"
    BY <1>1, <2>1, <2>3 DEF NoPier, Pier
  <2> QED
    BY <2>2, <2>3
<1>4. ReqOk(Idle) /\ Idle.pc = "idle"
  BY IdleOf DEF ReqOk
<1>5. /\ Requests(r) /\ req'[r] = Idle /\ dest' = None
      /\ \A x \in Reqs : req'[x].pc \in {"join", "drop"} => ~req'[x].holds
  BY <1>1, <1>2, <1>4, RemoveArchiveOf
<1>6. Ends' /\ Files' /\ upload' \in Statuses /\ h' \in History /\ left' \in Budget
  BY <1>1, <1>2, <1>5 DEF Ends, Files, History
<1>7. /\ client' \in [Uploads -> Client] /\ \A u \in Uploads : ClientOk(client'[u], u)
      /\ Tame
  BY <1>2, SameClients
<1>8. TypeOK'
  BY <1>2, <1>3, <1>4, <1>5, <1>6, <1>7, MovedTyped
<1> QED
  BY <1>2, <1>3, <1>4, <1>5, <1>7, <1>8 DEF Moved

-----------------------------------------------------------------------------
(* What happens around them                                                *)

\* What leaves requests, browsers and the budget alone.
LEMMA StillTyped ==
  ASSUME TypeOK, UNCHANGED <<req, dest, left>>, Ends', Files', pier' \in Pier,
         upload' \in Statuses, h' \in History, client' \in [Uploads -> Client],
         \A u \in Uploads : ClientOk(client'[u], u)
  PROVE  TypeOK'
<1>1. left' \in Budget /\ Planned' = Planned /\ \A u : Arc(u)' = Arc(u)
  BY TypeParts DEF Planned, Arc
<1>2. ClientsOk'
  BY <1>1 DEF ClientsOk, ClientOk
<1>3. ReqsOk'
  BY <1>1, TypeParts DEF ReqsOk, ReqOk
<1>4. Writers'
  <2>1. Index' = Index /\ Contents' = Contents
    BY DEF Index, Contents
  <2> QED
    BY <2>1, TypeParts DEF Writers
<1> QED
  BY <1>1, <1>2, <1>3, <1>4, Typed

LEMMA BeginUploadDoes ==
  ASSUME TypeOK, NEW u \in Uploads, BeginUpload(u)
  PROVE  /\ TypeOK' /\ UNCHANGED <<uploadSessions, part, dest, req, pier, upload, left>>
         /\ upload = "" /\ client[u].pc = "idle" /\ client'[u].pc = "send"
         /\ asks'[u] \in {<<client'[u].remote>>, <<~client'[u].remote, client'[u].remote>>}
         /\ \A v \in Uploads : v # u => client'[v] = client[v] /\ asks'[v] = asks[v]
         /\ h' = [h EXCEPT !.stale = h'.stale] /\ (h.stale => h'.stale)
         /\ ~h'.stale => /\ part = Empty /\ dest = None /\ pier = NoPier /\ Busy = {}
                         /\ \A v \in Uploads : client[v].pc \notin {"send", "wait"}
<1>1. /\ Ends /\ Files /\ pier \in Pier /\ upload \in Statuses /\ h \in History
      /\ left \in Budget /\ ClientsOk /\ ReqsOk /\ Writers
  BY TypeParts
<1>2. /\ u \in Planned /\ upload = "" /\ client[u].pc = "idle"
      /\ UNCHANGED <<uploadSessions, part, dest, req, pier, upload, left>>
  BY DEF BeginUpload, files
<1>3. PICK remote \in BOOLEAN, ticked \in {FALSE, left.ticks} :
        /\ asks' = [asks EXCEPT ![u] = IF ticked THEN <<~remote, remote>> ELSE <<remote>>]
        /\ client' = [client EXCEPT ![u] = [Asleep EXCEPT !.pc = "send", !.remote = remote]]
  BY DEF BeginUpload
<1> DEFINE c == [Asleep EXCEPT !.pc = "send", !.remote = remote]
           ask == IF ticked THEN <<~remote, remote>> ELSE <<remote>>
           stale == \/ h.stale
                    \/ <<part, dest, pier>> # <<Empty, None, NoPier>>
                    \/ Busy # {} \/ \E v \in Uploads : client[v].pc \in {"send", "wait"}
<1>4. /\ c \in Client /\ c.pc = "send" /\ c.remote = remote /\ c.next = 0 /\ c.req = None
  <2>1. 0 \in 0..RetryLimit
    BY ReqsAssumption
  <2> QED
    BY <2>1 DEF Asleep, Client
<1>5. ClientOk(c, u)
  <2>1. Pieces[Arc(u)] \in Nat \ {0}
    BY <1>1, <1>2, ArchiveOf
  <2>2. 0 < Pieces[Arc(u)]
    BY <2>1
  <2> QED
    BY <1>2, <1>4, <2>2 DEF ClientOk
<1>6. ask \in Seq(BOOLEAN) /\ ask \in {<<remote>>, <<~remote, remote>>}
  <2>1. <<remote>> \in Seq(BOOLEAN)
    OBVIOUS
  <2>2. <<~remote, remote>> \in Seq(BOOLEAN)
    <3>1. (~remote) \in BOOLEAN
      OBVIOUS
    <3> QED
      BY <3>1
  <2>3. CASE ticked
    BY <2>2, <2>3
  <2>4. CASE ~ticked
    BY <2>1, <2>4
  <2> QED
    BY <2>3, <2>4
<1>7. stale \in BOOLEAN /\ h' = [h EXCEPT !.stale = stale]
  BY <1>1 DEF BeginUpload, History
<1>8. h' \in History /\ h'.stale = stale
  BY <1>1, <1>7 DEF History
<1>9. ~stale => /\ ~h.stale /\ part = Empty /\ dest = None /\ pier = NoPier /\ Busy = {}
                /\ \A v \in Uploads : client[v].pc \notin {"send", "wait"}
  OBVIOUS
<1> HIDE DEF c, ask, stale
<1>10. client' = [client EXCEPT ![u] = c] /\ asks' = [asks EXCEPT ![u] = ask]
  BY <1>3 DEF c, ask
<1>11. client'[u] = c /\ \A v \in Uploads : v # u => client'[v] = client[v] /\ asks'[v] = asks[v]
  BY <1>1, <1>10 DEF ClientsOk, Ends
<1>12. Ends' /\ Files' /\ pier' \in Pier /\ upload' \in Statuses /\ asks'[u] = ask
  BY <1>1, <1>2, <1>6, <1>10 DEF Ends, Files
<1>13. /\ client' \in [Uploads -> Client] /\ \A v \in Uploads : ClientOk(client'[v], v)
  BY <1>1, <1>4, <1>5, <1>10 DEF ClientsOk
<1>14. TypeOK'
  BY <1>2, <1>8, <1>12, <1>13, StillTyped
<1> QED
  BY <1>2, <1>4, <1>6, <1>7, <1>8, <1>9, <1>11, <1>12, <1>14

LEMMA SendDoes ==
  ASSUME TypeOK, NEW u \in Uploads, Send(u)
  PROVE  \E r \in Reqs :
           /\ Moved(r) /\ req[r].pc = "idle" /\ req'[r].pc = "check" /\ req'[r].up = u
           /\ UNCHANGED <<uploadSessions, asks, part, dest, pier, upload>>
           /\ client[u].pc = "send"
           /\ h' = [h EXCEPT !.overlap = h.overlap \/ Busy # {}]
<1>1. /\ Ends /\ Files /\ pier \in Pier /\ upload \in Statuses /\ h \in History
      /\ left \in Budget /\ ClientsOk /\ ReqsOk /\ Writers
  BY TypeParts
<1> DEFINE r == CHOOSE r \in Reqs : r \notin Busy
           q == [Idle EXCEPT !.pc = "check", !.up = u, !.k = client[u].next]
           c == [client[u] EXCEPT !.pc = "wait", !.req = r]
<1>2. /\ client[u].pc = "send" /\ Cardinality(Busy) < left.reqs
      /\ req' = [req EXCEPT ![r] = q] /\ client' = [client EXCEPT ![u] = c]
      /\ UNCHANGED <<uploadSessions, asks, part, dest, pier, upload, left>>
      /\ h' = [h EXCEPT !.overlap = h.overlap \/ Busy # {}]
  <2>1. /\ client[u].pc = "send" /\ Cardinality(Busy) < left.reqs
        /\ req' = [req EXCEPT ![r] = q]
        /\ client' = [client EXCEPT ![u].pc = "wait", ![u].req = r]
        /\ UNCHANGED <<uploadSessions, asks, part, dest, pier, upload, left>>
        /\ h' = [h EXCEPT !.overlap = h.overlap \/ Busy # {}]
    BY DEF Send, files
  <2>2. client \in [Uploads -> Client]
    BY <1>1 DEF ClientsOk
  <2> HIDE DEF r, q
  <2>3. client' = [client EXCEPT ![u] = c]
    BY <2>1, <2>2
  <2> QED
    BY <2>1, <2>3
<1>3. r \in Reqs /\ r \notin Busy
  <2>1. Cardinality(Reqs) \in Nat /\ left.reqs \in 1..Cardinality(Reqs)
    BY <1>1, ReqsAssumption, FS_CardinalityType DEF Budget
  <2>2. Busy # Reqs
    BY <1>2, <2>1
  <2>3. \E x \in Reqs : x \notin Busy
    BY <2>2 DEF Busy
  <2> QED
    BY <2>3
<1>4. /\ client[u] \in Client /\ client[u].next \in Nat /\ u \in Planned
      /\ client[u].next < Pieces[Arc(u)]
  BY <1>1, <1>2 DEF ClientsOk, ClientOk, Client
<1>5. u \in Nat /\ req[r].pc = "idle"
  BY <1>1, <1>3, <1>4 DEF Planned, Busy, Budget
<1> HIDE DEF r
<1>6. /\ q \in Request /\ q.pc = "check" /\ q.up = u /\ q.k = client[u].next
  BY <1>4, <1>5 DEF Idle, Request
<1>7. /\ c \in Client /\ c.pc = "wait" /\ c.req = r /\ c.next = client[u].next
      /\ c.remote = client[u].remote
  BY <1>3, <1>4 DEF Client
<1> HIDE DEF q, c
<1>8. ReqOk(q)
  BY <1>4, <1>6 DEF ReqOk
<1>9. ClientOk(c, u) /\ Tamer(c, client[u])
  BY <1>2, <1>3, <1>4, <1>7, NilsAssumption DEF ClientOk, Tamer
<1>10. Requests(r) /\ req'[r] = q
  BY <1>1, <1>2, <1>3, <1>8, SetOf
<1>11. /\ client' \in [Uploads -> Client] /\ \A v \in Uploads : ClientOk(client'[v], v)
       /\ Tame
  BY <1>1, <1>2, <1>7, <1>9 DEF ClientsOk, Tame, Tamer
<1>12. h' \in History
  BY <1>1, <1>2 DEF History
<1>13. Ends' /\ Files' /\ pier' \in Pier /\ upload' \in Statuses /\ left' \in Budget
  BY <1>1, <1>2 DEF Ends, Files
<1>14. TypeOK'
  BY <1>2, <1>3, <1>6, <1>10, <1>11, <1>12, <1>13, MovedTyped
<1> QED
  BY <1>2, <1>3, <1>5, <1>6, <1>10, <1>11, <1>14 DEF Moved

LEMMA LoseConnectionDoes ==
  ASSUME TypeOK, NEW u \in Uploads, LoseConnection(u)
  PROVE  \E r \in Reqs :
           /\ Moved(r) /\ UNCHANGED <<uploadSessions, asks, part, dest, pier, upload, h>>
           /\ \/ UNCHANGED req
              \/ req[r].pc = "check" /\ req'[r].pc = "idle"
              \/ /\ req[r].pc \in {"check", "body"} /\ req'[r].pc = req[r].pc
                 /\ req'[r].up = req[r].up
<1>1. /\ Ends /\ Files /\ pier \in Pier /\ upload \in Statuses /\ h \in History
      /\ left \in Budget /\ ClientsOk /\ ReqsOk /\ Writers
  BY TypeParts
<1> DEFINE r == client[u].req
<1>2. /\ client[u].pc = "wait" /\ Spend("lost")
      /\ client' = [client EXCEPT ![u] = Retried(client[u])]
      /\ UNCHANGED <<uploadSessions, asks, part, dest, pier, upload, h>>
  BY DEF LoseConnection, files
<1>3. client[u] \in Client /\ ClientOk(client[u], u) /\ r \in Reqs
  BY <1>1, <1>2 DEF ClientsOk, ClientOk, Client
<1>4. left' \in Budget /\ left'.plan = left.plan /\ left'.wg = left.wg
  BY <1>1, <1>2, SpendOf
<1>5. ClientOk(Retried(client[u]), u) /\ Tamer(Retried(client[u]), client[u])
  BY <1>2, <1>3, RetriedOf
<1>6. /\ client' \in [Uploads -> Client] /\ \A v \in Uploads : ClientOk(client'[v], v)
      /\ Tame
  BY <1>1, <1>2, <1>5 DEF ClientsOk, ClientOk, Tame, Tamer
<1>7. Ends' /\ Files' /\ pier' \in Pier /\ upload' \in Statuses /\ h' \in History
  BY <1>1, <1>2 DEF Ends, Files
<1>8. \/ UNCHANGED req
      \/ req[r].pc = "check" /\ req' = [req EXCEPT ![r] = Idle]
      \/ req[r].pc \in {"check", "body"} /\ req' = [req EXCEPT ![r].broken = TRUE]
  BY DEF LoseConnection, At
<1> HIDE DEF r
<1>9. CASE UNCHANGED req
  <2>1. Requests(r)
    BY <1>1, <1>9 DEF Requests, Beside, ReqsOk
  <2>2. req'[r].pc \in {"join", "drop"} /\ req'[r].holds => dest' \in [Index -> Contents]
    BY <1>1, <1>2, <1>3, <1>9 DEF Writers
  <2>3. TypeOK'
    BY <1>2, <1>3, <1>4, <1>6, <1>7, <2>1, <2>2, MovedTyped
  <2> QED
    BY <1>2, <1>3, <1>4, <1>6, <1>9, <2>1, <2>3 DEF Moved
<1>10. CASE req[r].pc = "check" /\ req' = [req EXCEPT ![r] = Idle]
  <2>1. Requests(r) /\ req'[r].pc = "idle"
    BY <1>1, <1>3, <1>10, EndOf
  <2>2. TypeOK'
    BY <1>2, <1>3, <1>4, <1>6, <1>7, <2>1, MovedTyped
  <2> QED
    BY <1>2, <1>3, <1>4, <1>6, <1>10, <2>1, <2>2 DEF Moved
<1>11. CASE req[r].pc \in {"check", "body"} /\ req' = [req EXCEPT ![r].broken = TRUE]
  <2> DEFINE q == [req[r] EXCEPT !.broken = TRUE]
  <2>1. req[r] \in Request /\ ReqOk(req[r])
    BY <1>1, <1>3 DEF ReqsOk
  <2>2. q \in Request /\ q.pc = req[r].pc /\ q.up = req[r].up /\ q.k = req[r].k
    BY <2>1 DEF Request
  <2>3. req' = [req EXCEPT ![r] = q]
    BY <1>11
  <2> HIDE DEF q
  <2>4. ReqOk(q)
    BY <2>1, <2>2 DEF ReqOk
  <2>5. Requests(r) /\ req'[r] = q
    BY <1>1, <1>3, <2>3, <2>4, SetOf
  <2>6. TypeOK'
    BY <1>2, <1>3, <1>4, <1>6, <1>7, <1>11, <2>2, <2>5, MovedTyped
  <2> QED
    BY <1>2, <1>3, <1>4, <1>6, <1>11, <2>2, <2>5, <2>6 DEF Moved
<1> QED
  BY <1>8, <1>9, <1>10, <1>11

LEMMA OpenEndpointDoes ==
  ASSUME TypeOK, NEW u \in Uploads, OpenEndpoint(u)
  PROVE  /\ TypeOK' /\ UNCHANGED <<part, dest, req, pier, upload, client, left>>
         /\ asks[u] # <<>> /\ asks'[u] = Tail(asks[u])
         /\ uploadSessions'[u] = [open |-> TRUE, remote |-> Head(asks[u])]
         /\ \A v \in Uploads : v # u => /\ asks'[v] = asks[v]
                                        /\ uploadSessions'[v] = uploadSessions[v]
         /\ h' = [h EXCEPT !.late = h.late \/ h.imports[u] > 0]
<1>1. /\ Ends /\ Files /\ pier \in Pier /\ upload \in Statuses /\ h \in History
      /\ left \in Budget /\ ClientsOk /\ ReqsOk /\ Writers
  BY TypeParts
<1> DEFINE e == [open |-> TRUE, remote |-> Head(asks[u])]
<1>2. /\ asks[u] # <<>> /\ asks' = [asks EXCEPT ![u] = Tail(asks[u])]
      /\ uploadSessions' = [uploadSessions EXCEPT ![u] = e]
      /\ UNCHANGED <<part, dest, req, pier, upload, client, left>>
      /\ h' = [h EXCEPT !.late = h.late \/ h.imports[u] > 0]
  BY <1>1 DEF OpenEndpoint, Ends, files
<1>3. asks[u] \in Seq(BOOLEAN)
  BY <1>1 DEF Ends
<1>4. Head(asks[u]) \in BOOLEAN /\ Tail(asks[u]) \in Seq(BOOLEAN)
  BY <1>2, <1>3, HeadTailProperties
<1>5. e \in [open : BOOLEAN, remote : BOOLEAN]
  BY <1>4
<1> HIDE DEF e
<1>6. /\ uploadSessions' \in [Uploads -> [open : BOOLEAN, remote : BOOLEAN]]
      /\ asks' \in [Uploads -> Seq(BOOLEAN)]
      /\ asks'[u] = Tail(asks[u]) /\ uploadSessions'[u] = e
      /\ \A v \in Uploads : v # u => /\ asks'[v] = asks[v]
                                     /\ uploadSessions'[v] = uploadSessions[v]
  BY <1>1, <1>2, <1>4, <1>5 DEF Ends
<1>7. h' \in History
  BY <1>1, <1>2 DEF History
<1>8. Ends' /\ Files' /\ pier' \in Pier /\ upload' \in Statuses
  BY <1>1, <1>2, <1>6 DEF Ends, Files
<1>9. client' \in [Uploads -> Client] /\ \A v \in Uploads : ClientOk(client'[v], v)
  BY <1>2, SameClients
<1>10. TypeOK'
  BY <1>2, <1>7, <1>8, <1>9, StillTyped
<1> QED
  BY <1>2, <1>6, <1>10 DEF e

LEMMA ResetDoes ==
  ASSUME TypeOK, Reset
  PROVE  TypeOK' /\ upload' = ""
         /\ UNCHANGED <<uploadSessions, asks, part, dest, req, pier, client, h, left>>
<1>1. /\ UNCHANGED <<uploadSessions, asks, part, dest, req, pier, client, h, left>>
      /\ upload' = "" /\ upload' \in Statuses
  BY DEF Reset, files, Statuses
<1>2. Ends' /\ Files' /\ pier' \in Pier /\ h' \in History
  BY <1>1, TypeParts DEF Ends, Files
<1>3. client' \in [Uploads -> Client] /\ \A v \in Uploads : ClientOk(client'[v], v)
  BY <1>1, SameClients
<1>4. TypeOK'
  BY <1>1, <1>2, <1>3, StillTyped
<1> QED
  BY <1>1, <1>4

LEMMA RestartDoes ==
  ASSUME TypeOK, Restart
  PROVE  /\ TypeOK' /\ h' = [h EXCEPT !.restarted = TRUE] /\ h'.restarted
         /\ \A r \in Reqs : req'[r].pc = "idle"
         /\ \A u \in Uploads : ~uploadSessions'[u].open
<1>1. /\ Ends /\ Files /\ pier \in Pier /\ upload \in Statuses /\ h \in History
      /\ left \in Budget /\ ClientsOk /\ ReqsOk /\ Writers
  BY TypeParts
<1>2. /\ Spend("restarts") /\ uploadSessions' = [u \in Uploads |-> Closed]
      /\ asks' = [u \in Uploads |-> <<>>] /\ req' = [r \in Reqs |-> Idle] /\ upload' = ""
      /\ client' = [u \in Uploads |-> IF client[u].pc = "wait" THEN Retried(client[u])
                                      ELSE client[u]]
      /\ h' = [h EXCEPT !.restarted = TRUE] /\ UNCHANGED <<part, dest, pier>>
  BY DEF Restart, files
<1>3. left' \in Budget /\ left'.plan = left.plan
  BY <1>1, <1>2, SpendOf
<1>4. h' \in History /\ h'.restarted
  BY <1>1, <1>2 DEF History
<1>5. \A u \in Uploads : ~uploadSessions'[u].open
  BY <1>2 DEF Closed
<1>6. /\ Ends' /\ Files' /\ pier' \in Pier /\ upload' \in Statuses
  <2>1. uploadSessions' \in [Uploads -> [open : BOOLEAN, remote : BOOLEAN]]
    BY <1>2 DEF Closed
  <2>2. asks' \in [Uploads -> Seq(BOOLEAN)]
    BY <1>2, EmptySeq
  <2> QED
    BY <1>1, <1>2, <2>1, <2>2 DEF Ends, Files, Statuses
<1>7. Planned' = Planned /\ \A u : Arc(u)' = Arc(u)
  BY <1>3 DEF Planned, Arc
<1>8. ASSUME NEW u \in Uploads
      PROVE  ClientOk(client'[u], u)
  <2>1. ClientOk(client[u], u)
    BY <1>1 DEF ClientsOk
  <2>2. CASE client[u].pc = "wait"
    BY <1>2, <2>1, <2>2, RetriedOf
  <2>3. CASE client[u].pc # "wait"
    BY <1>2, <2>1, <2>3
  <2> QED
    BY <2>2, <2>3
<1>9. ClientsOk'
  <2>1. client' \in [Uploads -> Client]
    BY <1>2, <1>8 DEF ClientOk
  <2> QED
    BY <1>7, <1>8, <2>1 DEF ClientsOk, ClientOk
<1>10. \A r \in Reqs : req'[r] = Idle
  BY <1>2
<1>11. \A r \in Reqs : req'[r].pc = "idle"
  BY <1>10, IdleOf
<1>12. ReqsOk' /\ Writers'
  BY <1>2, <1>11, IdleOf DEF ReqsOk, ReqOk, Writers
<1>13. TypeOK'
  BY <1>3, <1>4, <1>6, <1>9, <1>12, Typed
<1> QED
  BY <1>2, <1>4, <1>5, <1>11, <1>13

LEMMA InitTyped == Init => TypeOK
<1> SUFFICES ASSUME Init PROVE TypeOK
  OBVIOUS
<1>1. \A u \in Uploads : client[u].pc = "idle" /\ client[u].req = None
  BY DEF Init, Asleep
<1>2. client \in [Uploads -> Client]
  <2>1. 0 \in 0..RetryLimit
    BY ReqsAssumption
  <2>2. Asleep \in Client
    BY <2>1 DEF Asleep, Client
  <2> QED
    BY <2>2 DEF Init
<1>3. req \in [Reqs -> Request] /\ \A r \in Reqs : req[r].pc = "idle"
  <2>1. req \in [Reqs -> Request]
    BY IdleOf DEF Init
  <2>2. \A r \in Reqs : req[r] = Idle
    BY DEF Init
  <2> QED
    BY <2>1, <2>2, IdleOf
<1>4. h \in History /\ pier \in Pier /\ left \in Budget
  <2>1. [u \in Uploads |-> 0] \in [Uploads -> 0..2]
    OBVIOUS
  <2>2. h \in History
    BY <2>1 DEF Init, History
  <2>3. pier \in Pier
    BY DEF Init, NoPier, Pier, Contents
  <2>4. left \in Budget
    BY BudgetsAssumption DEF Init
  <2> QED
    BY <2>2, <2>3, <2>4
<1>5. /\ uploadSessions \in [Uploads -> [open : BOOLEAN, remote : BOOLEAN]]
      /\ asks \in [Uploads -> Seq(BOOLEAN)]
  <2>1. Closed \in [open : BOOLEAN, remote : BOOLEAN]
    BY DEF Closed
  <2>2. uploadSessions = [u \in Uploads |-> Closed] /\ asks = [u \in Uploads |-> <<>>]
    BY DEF Init
  <2> QED
    BY <2>1, <2>2, EmptySeq
<1>6. part \in [Index -> Contents] /\ dest = None /\ upload = ""
  BY DEF Init, Empty, Contents
<1> QED
  BY <1>1, <1>2, <1>3, <1>4, <1>5, <1>6 DEF TypeOK, Busy

-----------------------------------------------------------------------------
(* Every step                                                              *)

LEMMA Steps ==
  ASSUME Next
  PROVE  \/ \E u \in Uploads : BeginUpload(u) \/ Send(u) \/ LoseConnection(u) \/ OpenEndpoint(u)
         \/ \E r \in Reqs :
              \/ VerifySession(r) \/ CreatePiece(r) \/ CopyPiece(r) \/ CheckChunks(r)
              \/ CreateArchive(r) \/ JoinPiece(r) \/ DropPiece(r)
              \/ ReadOptions(r) \/ ClearUploadSession(r)
              \/ CreatePier(r) \/ Prepare(r) \/ Extract(r) \/ Restructure(r) \/ Boot(r)
              \/ ShipReady(r) \/ ToggleRemote(r) \/ ErrorCleanup(r)
         \/ Reset \/ Restart
BY DEF Next, Handle, Import

LEMMA TypeStays ==
  ASSUME TypeOK, [Next]_vars
  PROVE  TypeOK'
<1>1. ASSUME NEW r \in Reqs, Handle(r)
      PROVE  TypeOK'
  BY <1>1, VerifySessionDoes, CreatePieceDoes, CopyPieceDoes, CheckChunksDoes, CreateArchiveDoes,
     JoinPieceDoes, DropPieceDoes, ReadOptionsDoes, ClearUploadSessionDoes DEF Handle, Moved
<1>2. ASSUME NEW r \in Reqs, Import(r)
      PROVE  TypeOK'
  BY <1>2, CreatePierDoes, PrepareDoes, ExtractDoes, RestructureDoes, BootDoes, ShipReadyDoes,
     ToggleRemoteDoes, ErrorCleanupDoes DEF Import, Moved
<1>3. ASSUME NEW u \in Uploads,
             BeginUpload(u) \/ Send(u) \/ LoseConnection(u) \/ OpenEndpoint(u)
      PROVE  TypeOK'
  BY <1>3, BeginUploadDoes, SendDoes, LoseConnectionDoes, OpenEndpointDoes DEF Moved
<1>4. CASE Reset \/ Restart
  BY <1>4, ResetDoes, RestartDoes
<1>5. CASE UNCHANGED vars
  <2>1. Ends' /\ Files' /\ pier' \in Pier /\ upload' \in Statuses /\ h' \in History
    BY <1>5, TypeParts DEF vars, files, Ends, Files
  <2>2. UNCHANGED <<client, req, dest, left>>
    BY <1>5 DEF vars, files
  <2> QED
    BY <2>1, <2>2, SameClients, StillTyped
<1> QED
  BY <1>1, <1>2, <1>3, <1>4, <1>5 DEF Next

\* The variables keep their types whatever is lost, fails or overlaps: no request
\* carries a piece that its archive has not, and who joins pieces has the file.
THEOREM TypeCorrect == Spec => []TypeOK
<1>1. TypeOK /\ [Next]_vars => TypeOK'
  BY TypeStays
<1> QED
  BY InitTyped, <1>1, PTL DEF Spec

-----------------------------------------------------------------------------
(* An upload is imported once                                              *)

Handling == {"body", "copy", "stat", "open", "join", "drop", "read", "clear"}
OneRequest == \A r, s \in Busy : r = s

\* While no two requests overlap and no option comes late, there is one request
\* at a time, and an upload that is imported has no endpoint and no handler.
ImportedShut(u) ==
  h.imports[u] > 0 => /\ h.imports[u] = 1 /\ ~uploadSessions[u].open
                      /\ \A r \in Reqs : req[r].up = u => req[r].pc \notin Handling
Once == ~(h.overlap \/ h.late) => OneRequest /\ \A u \in Uploads : ImportedShut(u)

LEMMA OnceInit == Init => Once
<1> SUFFICES ASSUME Init PROVE Once
  OBVIOUS
<1>1. \A r \in Reqs : req[r] = Idle
  BY DEF Init
<1>2. Busy = {}
  BY <1>1, IdleOf DEF Busy
<1>3. \A u \in Uploads : h.imports[u] = 0
  BY DEF Init
<1> QED
  BY <1>2, <1>3 DEF Once, OneRequest, ImportedShut

\* A request that goes on within its part of the way, or ends.
LEMMA OnceMoves ==
  ASSUME TypeOK, Once, NEW r \in Reqs, Moved(r), UNCHANGED uploadSessions,
         h'.imports = h.imports, h'.overlap = h.overlap, h.late => h'.late,
         req'[r].pc # "idle" => req[r].pc # "idle",
         req'[r].pc \in Handling =>
           /\ req'[r].up = req[r].up
           /\ req[r].pc \in Handling \/ uploadSessions[req[r].up].open
  PROVE  Once'
<1> SUFFICES ASSUME ~(h'.overlap \/ h'.late)
             PROVE  OneRequest' /\ \A u \in Uploads : ImportedShut(u)'
  BY DEF Once
<1>1. OneRequest /\ \A u \in Uploads : ImportedShut(u)
  BY DEF Once
<1>2. \A x \in Reqs : x # r => req'[x].pc = req[x].pc /\ req'[x].up = req[x].up
  BY DEF Moved, Requests, Beside
<1>3. OneRequest'
  BY <1>1, <1>2 DEF OneRequest, Busy
<1>4. ASSUME NEW u \in Uploads, h.imports[u] > 0
      PROVE  /\ h.imports[u] = 1 /\ ~uploadSessions[u].open
             /\ \A x \in Reqs : req'[x].up = u => req'[x].pc \notin Handling
  <2>1. /\ h.imports[u] = 1 /\ ~uploadSessions[u].open
        /\ \A x \in Reqs : req[x].up = u => req[x].pc \notin Handling
    BY <1>1, <1>4 DEF ImportedShut
  <2>2. req'[r].up = u => req'[r].pc \notin Handling
    BY <2>1
  <2>3. \A x \in Reqs : x # r /\ req'[x].up = u => req'[x].pc \notin Handling
    BY <1>2, <2>1
  <2> QED
    BY <2>1, <2>2, <2>3
<1> QED
  BY <1>3, <1>4 DEF ImportedShut

LEMMA OnceStays ==
  ASSUME TypeOK, Once, [Next]_vars
  PROVE  Once'
<1>1. h \in History
  BY TypeParts
<1> DEFINE Same == h'.imports = h.imports /\ h'.overlap = h.overlap /\ (h.late => h'.late)
<1>2. ASSUME NEW r \in Reqs,
             \/ VerifySession(r) \/ CreatePiece(r) \/ CheckChunks(r)
             \/ CreateArchive(r) \/ JoinPiece(r) \/ DropPiece(r)
      PROVE  Once'
  <2>1. /\ Moved(r) /\ UNCHANGED <<uploadSessions, h>> /\ req[r].pc # "idle"
        /\ req'[r].pc \in Handling =>
             /\ req'[r].up = req[r].up
             /\ req[r].pc \in Handling \/ uploadSessions[req[r].up].open
    BY <1>2, VerifySessionDoes, CreatePieceDoes, CheckChunksDoes, CreateArchiveDoes,
       JoinPieceDoes, DropPieceDoes DEF Handling
  <2> QED
    BY <2>1, OnceMoves
<1>3. ASSUME NEW r \in Reqs, CopyPiece(r) \/ ReadOptions(r)
      PROVE  Once'
  <2>1. /\ Moved(r) /\ UNCHANGED uploadSessions /\ req[r].pc \in Handling /\ req[r].pc # "idle"
        /\ req'[r].up = req[r].up
        /\ \/ h' = h \/ h' = [h EXCEPT !.short = TRUE]
           \/ h' = [h EXCEPT !.late = h.late \/ asks[req[r].up] # <<>>]
    BY <1>3, CopyPieceDoes, ReadOptionsDoes DEF Handling
  <2>2. Same
    BY <1>1, <2>1 DEF History
  <2> QED
    BY <2>1, <2>2, OnceMoves
<1>4. ASSUME NEW r \in Reqs, ClearUploadSession(r)
      PROVE  Once'
  <2> SUFFICES ASSUME ~(h'.overlap \/ h'.late)
               PROVE  OneRequest' /\ \A u \in Uploads : ImportedShut(u)'
    BY DEF Once
  <2> DEFINE up == req[r].up
  <2>1. /\ Moved(r) /\ req[r].pc = "clear" /\ h' = Started(up)
        /\ uploadSessions' = [uploadSessions EXCEPT ![up] = Closed]
        /\ req'[r].pc = "create" /\ req'[r].up = up
    BY <1>4, ClearUploadSessionDoes
  <2>2. up \in Uploads /\ uploadSessions \in [Uploads -> [open : BOOLEAN, remote : BOOLEAN]]
    BY <2>1, PlaceOf DEF TypeOK
  <2> HIDE DEF up
  <2>3. /\ h'.overlap = (h.overlap \/ Imports # {}) /\ h'.late = h.late
        /\ h.imports[up] = 0 => h'.imports[up] = 1
        /\ \A v \in Uploads : v # up => h'.imports[v] = h.imports[v]
    BY <1>1, <2>1, <2>2, StartedOf
  <2>4. OneRequest /\ \A u \in Uploads : ImportedShut(u)
    BY <2>3 DEF Once
  <2>5. h.imports[up] = 0
    <3>1. ~(h.imports[up] > 0)
      BY <2>1, <2>2, <2>4 DEF ImportedShut, Handling, up
    <3>2. h.imports[up] \in 0..2
      BY <1>1, <2>2 DEF History
    <3> QED
      BY <3>1, <3>2
  <2>6. \A x \in Reqs : x # r => req'[x].pc = "idle"
    BY <2>1, <2>4 DEF Moved, Requests, Beside, OneRequest, Busy
  <2>7. OneRequest'
    BY <2>6 DEF OneRequest, Busy
  <2>8. ~uploadSessions'[up].open
    BY <2>1, <2>2 DEF Closed
  <2>9. \A x \in Reqs : req'[x].pc \notin Handling
    BY <2>1, <2>6 DEF Handling
  <2>10. ASSUME NEW u \in Uploads
         PROVE  ImportedShut(u)'
    <3>1. CASE u = up
      BY <2>3, <2>5, <2>8, <2>9, <3>1 DEF ImportedShut
    <3>2. CASE u # up
      <4>1. h'.imports[u] = h.imports[u] /\ uploadSessions'[u] = uploadSessions[u]
        BY <2>1, <2>2, <2>3, <3>2
      <4>2. ImportedShut(u)
        BY <2>4
      <4> QED
        BY <2>9, <4>1, <4>2 DEF ImportedShut
    <3> QED
      BY <3>1, <3>2
  <2> QED
    BY <2>7, <2>10
<1>5. ASSUME NEW r \in Reqs, Import(r)
      PROVE  Once'
  <2>1. CASE ErrorCleanup(r)
    <3>1. /\ Moved(r) /\ UNCHANGED uploadSessions /\ req'[r].pc = "idle"
          /\ h' = [h EXCEPT !.failed = TRUE]
      BY <2>1, ErrorCleanupDoes
    <3>2. Same
      BY <1>1, <3>1 DEF History
    <3> QED
      BY <3>1, <3>2, OnceMoves DEF Handling
  <2>2. CASE ~ErrorCleanup(r)
    <3>1. /\ Moved(r) /\ UNCHANGED <<uploadSessions, h>> /\ req[r].pc # "idle"
          /\ req'[r].pc \notin Handling
      BY <1>5, <2>2, CreatePierDoes, PrepareDoes, ExtractDoes, RestructureDoes, BootDoes,
         ShipReadyDoes, ToggleRemoteDoes DEF Import, Handling
    <3> QED
      BY <3>1, OnceMoves
  <2> QED
    BY <2>1, <2>2
<1>6. ASSUME NEW u \in Uploads, BeginUpload(u)
      PROVE  Once'
  <2>1. UNCHANGED <<uploadSessions, req>> /\ h' = [h EXCEPT !.stale = h'.stale]
    BY <1>6, BeginUploadDoes
  <2>2. Same /\ h'.late = h.late
    BY <1>1, <2>1 DEF History
  <2> QED
    BY <2>1, <2>2 DEF Once, OneRequest, Busy, ImportedShut
<1>7. ASSUME NEW u \in Uploads, Send(u)
      PROVE  Once'
  <2> SUFFICES ASSUME ~(h'.overlap \/ h'.late)
               PROVE  OneRequest' /\ \A v \in Uploads : ImportedShut(v)'
    BY DEF Once
  <2>1. PICK r \in Reqs :
           /\ Moved(r) /\ req'[r].pc = "check" /\ UNCHANGED uploadSessions
           /\ h' = [h EXCEPT !.overlap = h.overlap \/ Busy # {}]
    BY <1>7, SendDoes
  <2>2. h'.overlap = (h.overlap \/ Busy # {}) /\ h'.late = h.late /\ h'.imports = h.imports
    BY <1>1, <2>1 DEF History
  <2>3. Busy = {} /\ \A v \in Uploads : ImportedShut(v)
    BY <2>2 DEF Once
  <2>4. \A x \in Reqs : x # r => req'[x].pc = "idle"
    BY <2>1, <2>3 DEF Moved, Requests, Beside, Busy
  <2>5. OneRequest' /\ \A x \in Reqs : req'[x].pc \notin Handling
    BY <2>1, <2>4 DEF OneRequest, Busy, Handling
  <2> QED
    BY <2>1, <2>2, <2>3, <2>5 DEF ImportedShut
<1>8. ASSUME NEW u \in Uploads, LoseConnection(u)
      PROVE  Once'
  <2>1. PICK r \in Reqs :
           /\ Moved(r) /\ UNCHANGED <<uploadSessions, h>>
           /\ \/ UNCHANGED req
              \/ req[r].pc = "check" /\ req'[r].pc = "idle"
              \/ /\ req[r].pc \in {"check", "body"} /\ req'[r].pc = req[r].pc
                 /\ req'[r].up = req[r].up
    BY <1>8, LoseConnectionDoes
  <2>2. /\ req'[r].pc # "idle" => req[r].pc # "idle"
        /\ req'[r].pc \in Handling => req'[r].up = req[r].up /\ req[r].pc \in Handling
    BY <2>1 DEF Handling
  <2> QED
    BY <2>1, <2>2, OnceMoves
<1>9. ASSUME NEW u \in Uploads, OpenEndpoint(u)
      PROVE  Once'
  <2> SUFFICES ASSUME ~(h'.overlap \/ h'.late)
               PROVE  OneRequest' /\ \A v \in Uploads : ImportedShut(v)'
    BY DEF Once
  <2>1. /\ UNCHANGED req /\ h' = [h EXCEPT !.late = h.late \/ h.imports[u] > 0]
        /\ \A v \in Uploads : v # u => uploadSessions'[v] = uploadSessions[v]
    BY <1>9, OpenEndpointDoes
  <2>2. /\ h'.late = (h.late \/ h.imports[u] > 0) /\ h'.overlap = h.overlap
        /\ h'.imports = h.imports
    BY <1>1, <2>1 DEF History
  <2>3. OneRequest /\ \A v \in Uploads : ImportedShut(v)
    BY <2>2 DEF Once
  <2> QED
    BY <2>1, <2>2, <2>3 DEF OneRequest, Busy, ImportedShut
<1>10. CASE Reset \/ UNCHANGED vars
  <2>1. UNCHANGED <<uploadSessions, req, h>>
    BY <1>10, ResetDoes DEF vars
  <2> QED
    BY <2>1 DEF Once, OneRequest, Busy, ImportedShut
<1>11. CASE Restart
  <2>1. /\ h' = [h EXCEPT !.restarted = TRUE] /\ \A r \in Reqs : req'[r].pc = "idle"
        /\ \A u \in Uploads : ~uploadSessions'[u].open
    BY <1>11, RestartDoes
  <2>2. Same /\ h'.late = h.late
    BY <1>1, <2>1 DEF History
  <2>3. Busy' = {}
    BY <2>1 DEF Busy
  <2> QED
    BY <2>1, <2>2, <2>3 DEF Once, OneRequest, ImportedShut, Handling
<1> QED
  BY <1>2, <1>3, <1>4, <1>5, <1>6, <1>7, <1>8, <1>9, <1>10, <1>11, Steps DEF Import

\* One upload is imported once, however often its pieces are sent again and
\* whatever is lost, fails or restarts.
THEOREM ImportedOnceHolds == Spec => []ImportedOnce
<1>1. TypeOK /\ Once /\ [Next]_vars => TypeOK' /\ Once'
  BY TypeStays, OnceStays
<1>2. TypeOK /\ Once => ImportedOnce
  <2> SUFFICES ASSUME TypeOK, Once, ~(h.overlap \/ h.late), NEW u \in Uploads
               PROVE  h.imports[u] <= 1
    BY DEF ImportedOnce
  <2>1. h.imports[u] \in 0..2
    BY TypeParts DEF History
  <2>2. h.imports[u] > 0 => h.imports[u] = 1
    BY DEF Once, ImportedShut
  <2> QED
    BY <2>1, <2>2
<1> QED
  BY InitTyped, OnceInit, <1>1, <1>2, PTL DEF Spec

-----------------------------------------------------------------------------
(* An upload by itself                                                     *)

Active(u) == client[u].pc \in {"send", "wait"}
UnderWay(u) == Active(u) \/ \E r \in Busy : req[r].up = u
Unpacking == {"join", "drop", "read", "clear", "create", "prepare", "extract",
              "restructure", "boot", "cleanup"}

\* The archive of which the first n pieces are joined.
Joined(a, n) == [i \in Index |-> IF i < n THEN a ELSE None]
Made(v, box) == pier = [conf |-> TRUE, vol |-> v, box |-> box, remote |-> FALSE]

OneUpload == \A u, v \in Uploads : UnderWay(u) /\ UnderWay(v) => u = v

\* The pieces on disk are of the upload under way, complete but for the one that
\* is being written.
PartsOf(u) ==
  \A i \in Index : part[i] # None =>
    /\ i < Pieces[Arc(u)]
    /\ part[i] = Arc(u) \/ (\E r \in Reqs : At(r, "copy") /\ req[r].k = i)
PartsOk == \A u \in Uploads : UnderWay(u) => PartsOf(u)

\* The last option on its way, or the last that came, is the one chosen.
OptionsOf(u) ==
  /\ asks[u] \in {<<>>, <<client[u].remote>>, <<~client[u].remote, client[u].remote>>}
  /\ uploadSessions[u].open /\ asks[u] = <<>> =>
       uploadSessions[u].remote = client[u].remote
OptionsOk == \A u \in Uploads : OptionsOf(u)

FreshOk == \A u \in Uploads : UnderWay(u) /\ h.imports[u] = 0 => pier = NoPier
DestOk == dest # None => \E r \in Reqs : req[r].pc \in Unpacking
Arrived == \E u \in Planned \cap Uploads : Imported(u)
Settled == pier = NoPier \/ (h.failed /\ pier.box # "none") \/ Arrived
SettledOk == Imports = {} => Settled
CompletedOk == upload = "completed" => Arrived /\ \A r \in Busy : At(r, "check")

\* All pieces are there; from piece k on they wait to be joined.
Filled(r) == \A i \in Index : i < Total(r) => part[i] = Arc(req[r].up)
Waiting(r) ==
  \A i \in Index : /\ req[r].k <= i /\ i < Total(r) => part[i] = Arc(req[r].up)
                   /\ ~(req[r].k <= i /\ i < Total(r)) => part[i] = None

\* What a request finds at each place of its way.
RequestOk(r) ==
  /\ req[r].pc \in Handling => uploadSessions[req[r].up].open
  /\ At(r, "copy") => req[r].holds
  /\ At(r, "open") => Filled(r)
  /\ req[r].pc \in {"join", "drop"} => req[r].holds /\ Waiting(r)
  /\ At(r, "join") => dest = Joined(Arc(req[r].up), req[r].k)
  /\ At(r, "drop") => dest = Joined(Arc(req[r].up), req[r].k + 1)
  /\ req[r].pc \in {"read", "clear", "create", "prepare", "extract"} => Whole(Arc(req[r].up))
  /\ req[r].pc \in Importing => h.imports[req[r].up] > 0
  /\ req[r].pc \in {"clear"} \cup Importing => req[r].remote = client[req[r].up].remote
  /\ At(r, "create") => pier = NoPier
  /\ At(r, "prepare") => Made(None, "none")
  /\ At(r, "extract") => Made(Short, "none")
  /\ req[r].pc \in {"restructure", "boot"} => Made(Arc(req[r].up), "none")
  /\ req[r].pc \in {"wait", "remote"} => Made(Arc(req[r].up), "up")
  /\ At(r, "remote") => left.wg /\ req[r].remote

Calm ==
  /\ OneUpload /\ PartsOk /\ OptionsOk /\ FreshOk /\ DestOk /\ SettledOk /\ CompletedOk
  /\ \A r \in Busy : RequestOk(r)

\* Joining piece after piece.
LEMMA JoinedFirst == ASSUME NEW a \in Archives PROVE Joined(a, 0) = Empty
<1>1. Index \subseteq Nat
  BY IndexOf
<1> QED
  BY <1>1 DEF Joined, Empty

LEMMA JoinedNext ==
  ASSUME NEW a \in Archives, NEW k \in Index
  PROVE  [Joined(a, k) EXCEPT ![k] = a] = Joined(a, k + 1)
<1>1. Index \subseteq Nat
  BY IndexOf
<1>2. ASSUME NEW i \in Index, i # k
      PROVE  i < k <=> i < k + 1
  BY <1>1, <1>2
<1>3. k < k + 1
  BY <1>1
<1> DEFINE f == [Joined(a, k) EXCEPT ![k] = a]
           g == Joined(a, k + 1)
<1>4. f = [i \in Index |-> IF i = k THEN a ELSE IF i < k THEN a ELSE None]
  BY DEF Joined
<1>5. g = [i \in Index |-> IF i < k + 1 THEN a ELSE None]
  BY DEF Joined
<1> HIDE DEF f, g
<1>6. ASSUME NEW i \in Index
      PROVE  f[i] = g[i]
  <2>1. CASE i = k
    BY <1>3, <1>4, <1>5, <2>1
  <2>2. CASE i # k
    BY <1>2, <1>4, <1>5, <2>2
  <2> QED
    BY <2>1, <2>2
<1>7. f = g
  BY <1>4, <1>5, <1>6
<1> QED
  BY <1>7 DEF f, g

LEMMA WholeOf ==
  ASSUME NEW a \in Archives, NEW b \in Archives, Whole(a), Whole(b)
  PROVE  a = b
<1>1. 0 \in Index /\ 0 < Pieces[a] /\ 0 < Pieces[b]
  BY PiecesAssumption, IndexOf
<1>2. dest[0] = a
  BY <1>1 DEF Whole
<1>3. dest[0] = b
  BY <1>1 DEF Whole
<1> QED
  BY <1>2, <1>3

\* What a step of the only request leaves to be shown.
LEMMA OnlyRequest ==
  ASSUME TypeOK, OneRequest, Calm, NEW r \in Reqs, Moved(r), req[r].pc # "idle",
         req'[r].pc # "idle" => req'[r].up = req[r].up
  PROVE  /\ \A x \in Reqs : x # r => req[x].pc = "idle" /\ req'[x].pc = "idle"
         /\ req[r].up \in Uploads /\ UnderWay(req[r].up) /\ RequestOk(r)
         /\ \A u \in Uploads : UnderWay(u)' => u = req[r].up
<1>1. \A x \in Reqs : x # r => req[x].pc = "idle" /\ req'[x].pc = "idle"
  BY DEF OneRequest, Busy, Moved, Requests, Beside
<1>2. req[r].up \in Uploads /\ r \in Busy
  BY PlaceOf DEF Busy
<1>3. UnderWay(req[r].up) /\ RequestOk(r)
  BY <1>2 DEF UnderWay, Calm
<1>4. ASSUME NEW u \in Uploads, UnderWay(u)'
      PROVE  u = req[r].up
  <2>1. CASE Active(u)'
    <3>1. Active(u)
      BY <2>1 DEF Moved, Tame, Tamer, Active
    <3>2. UnderWay(u)
      BY <3>1 DEF UnderWay
    <3> QED
      BY <1>2, <1>3, <3>2 DEF Calm, OneUpload
  <2>2. CASE \E x \in Busy' : req'[x].up = u
    <3>1. PICK x \in Reqs : req'[x].pc # "idle" /\ req'[x].up = u
      BY <2>2 DEF Busy
    <3>2. x = r
      BY <1>1, <3>1
    <3> QED
      BY <3>1, <3>2
  <2> QED
    BY <1>4, <2>1, <2>2 DEF UnderWay
<1> QED
  BY <1>1, <1>2, <1>3, <1>4

\* The pieces stay those of the upload when none of them changes hands.
LEMMA PartsStay ==
  ASSUME TypeOK, OneRequest, Calm, NEW r \in Reqs, Moved(r), req[r].pc \notin {"idle", "copy"},
         req'[r].pc # "idle" => req'[r].up = req[r].up, UNCHANGED part
  PROVE  \A u \in Uploads : u = req[r].up => PartsOf(u)'
<1>1. /\ \A x \in Reqs : x # r => req[x].pc = "idle"
      /\ req[r].up \in Uploads /\ UnderWay(req[r].up)
  BY OnlyRequest
<1>2. PartsOf(req[r].up)
  BY <1>1 DEF Calm, PartsOk
<1>3. \A x \in Reqs : ~At(x, "copy")
  BY <1>1 DEF At
<1>4. Arc(req[r].up)' = Arc(req'[r].up) /\ \A u : Arc(u)' = Arc(u)
  BY DEF Moved, Arc
<1>5. Index' = Index
  BY DEF Index
<1> QED
  BY <1>2, <1>3, <1>4, <1>5 DEF PartsOf

LEMMA OptionsStay ==
  ASSUME Calm, Tame, UNCHANGED <<asks, uploadSessions>>
  PROVE  OptionsOk'
BY DEF Calm, OptionsOk, OptionsOf, Tame, Tamer

LEMMA ArrivedStays ==
  ASSUME Tame, left'.plan = left.plan, left'.wg = left.wg, UNCHANGED pier, Arrived
  PROVE  Arrived'
BY DEF Arrived, Planned, Imported, Arc, Tame, Tamer

\* A step of the handler, which the import has not begun.
LEMMA HandledCalm ==
  ASSUME TypeOK, OneRequest, Calm, NEW r \in Reqs, Moved(r), UNCHANGED <<asks, uploadSessions, pier>>,
         req[r].pc \in {"check"} \cup Handling, req'[r].pc \in {"idle", "check"} \cup Handling,
         h'.imports = h.imports, h'.failed = h.failed,
         req'[r].pc # "idle" => req'[r].up = req[r].up /\ RequestOk(r)',
         \A u \in Uploads : u = req[r].up => PartsOf(u)',
         dest' # None => req'[r].pc \in Unpacking,
         upload' = "completed" => upload = "completed" /\ req'[r].pc \in {"idle", "check"}
  PROVE  Calm'
<1>1. req[r].pc # "idle"
  BY DEF Handling
<1>2. /\ \A x \in Reqs : x # r => req[x].pc = "idle" /\ req'[x].pc = "idle"
      /\ UnderWay(req[r].up) /\ req[r].up \in Uploads
      /\ \A u \in Uploads : UnderWay(u)' => u = req[r].up
  BY <1>1, OnlyRequest
<1>3. OneUpload' /\ PartsOk'
  BY <1>2 DEF OneUpload, PartsOk
<1>4. OptionsOk'
  BY OptionsStay DEF Moved
<1>5. FreshOk'
  BY <1>2 DEF Calm, FreshOk
<1>6. DestOk'
  BY DEF DestOk
<1>7. SettledOk'
  <2>1. Imports = {}
    BY <1>2 DEF Imports, Importing, Handling
  <2>2. Settled
    BY <2>1 DEF Calm, SettledOk
  <2>3. Arrived => Arrived'
    BY ArrivedStays DEF Moved
  <2> QED
    BY <2>2, <2>3 DEF SettledOk, Settled
<1>8. CompletedOk'
  <2> SUFFICES ASSUME upload' = "completed"
               PROVE  Arrived' /\ \A x \in Busy' : At(x, "check")'
    BY DEF CompletedOk
  <2>1. Arrived
    BY DEF Calm, CompletedOk
  <2>2. Arrived'
    BY <2>1, ArrivedStays DEF Moved
  <2> QED
    BY <1>2, <2>2 DEF Busy, At
<1>9. \A x \in Busy' : RequestOk(x)'
  BY <1>2 DEF Busy
<1> QED
  BY <1>3, <1>4, <1>5, <1>6, <1>7, <1>8, <1>9 DEF Calm

\* A step of the import.
LEMMA ImportedCalm ==
  ASSUME TypeOK, OneRequest, Calm, NEW r \in Reqs, Moved(r),
         UNCHANGED <<asks, uploadSessions, part>>,
         req[r].pc \in Importing, req'[r].pc \in {"idle"} \cup Importing,
         h'.imports = h.imports,
         req'[r].pc # "idle" => req'[r].up = req[r].up /\ RequestOk(r)',
         dest' # None => req'[r].pc \in Unpacking,
         req'[r].pc = "idle" => Settled',
         upload' = "completed" => \/ UNCHANGED upload
                                  \/ req'[r].pc = "idle" /\ Arrived'
  PROVE  Calm'
<1>1. req[r].pc \notin {"idle", "copy", "check"}
  BY DEF Importing
<1>2. /\ \A x \in Reqs : x # r => req[x].pc = "idle" /\ req'[x].pc = "idle"
      /\ UnderWay(req[r].up) /\ req[r].up \in Uploads /\ RequestOk(r)
      /\ \A u \in Uploads : UnderWay(u)' => u = req[r].up
  BY <1>1, OnlyRequest
<1>3. OneUpload' /\ PartsOk'
  <2>1. \A u \in Uploads : u = req[r].up => PartsOf(u)'
    BY <1>1, PartsStay
  <2> QED
    BY <1>2, <2>1 DEF OneUpload, PartsOk
<1>4. OptionsOk'
  BY OptionsStay DEF Moved
<1>5. FreshOk'
  <2>1. h.imports[req[r].up] > 0 /\ h.imports[req[r].up] \in Nat
    BY <1>2, TypeParts DEF RequestOk, History
  <2> QED
    BY <1>2, <2>1 DEF FreshOk
<1>6. DestOk'
  BY DEF DestOk
<1>7. SettledOk'
  BY DEF SettledOk, Imports
<1>8. CompletedOk'
  <2>1. upload # "completed"
    BY <1>1 DEF Calm, CompletedOk, At, Busy
  <2> QED
    BY <1>2, <2>1 DEF CompletedOk, Busy
<1>9. \A x \in Busy' : RequestOk(x)'
  BY <1>2 DEF Busy
<1> QED
  BY <1>3, <1>4, <1>5, <1>6, <1>7, <1>8, <1>9 DEF Calm

\* The pieces of the only request: complete, unless it is just writing one.
LEMMA PiecesOf ==
  ASSUME TypeOK, OneRequest, Calm, NEW r \in Reqs, req[r].pc # "idle"
  PROVE  /\ RequestOk(r)
         /\ \A i \in Index : part[i] # None =>
              i < Total(r) /\ (part[i] = Arc(req[r].up) \/ (At(r, "copy") /\ req[r].k = i))
<1>1. r \in Busy /\ RequestOk(r) /\ req[r].up \in Uploads
  BY PlaceOf DEF Busy, Calm
<1>2. PartsOf(req[r].up)
  BY <1>1 DEF Calm, PartsOk, UnderWay
<1>3. ASSUME NEW i \in Index, part[i] # None
      PROVE  i < Total(r) /\ (part[i] = Arc(req[r].up) \/ (At(r, "copy") /\ req[r].k = i))
  <2>1. i < Pieces[Arc(req[r].up)]
    BY <1>2, <1>3 DEF PartsOf
  <2>2. CASE part[i] = Arc(req[r].up)
    BY <2>1, <2>2 DEF Total
  <2>3. CASE part[i] # Arc(req[r].up)
    <3>1. PICK x \in Reqs : At(x, "copy") /\ req[x].k = i
      BY <1>2, <1>3, <2>3 DEF PartsOf
    <3>2. x = r
      BY <1>1, <3>1 DEF OneRequest, Busy, At
    <3> QED
      BY <2>1, <3>1, <3>2 DEF Total
  <2> QED
    BY <2>2, <2>3
<1> QED
  BY <1>1, <1>3

LEMMA VerifySessionCalm ==
  ASSUME TypeOK, OneRequest, Calm, NEW r \in Reqs, VerifySession(r)
  PROVE  Calm'
<1>1. /\ Moved(r) /\ req[r].pc = "check"
      /\ UNCHANGED <<uploadSessions, asks, part, dest, pier, h>>
      /\ \/ /\ uploadSessions[req[r].up].open /\ req'[r].pc = "body"
            /\ req'[r].up = req[r].up /\ upload' = "uploading"
         \/ req'[r].pc = "idle" /\ upload' = "aborted"
  BY VerifySessionDoes
<1>2. req'[r].pc # "idle" => req'[r].up = req[r].up /\ RequestOk(r)'
  BY <1>1 DEF RequestOk, At, Importing
<1>3. \A u \in Uploads : u = req[r].up => PartsOf(u)'
  BY <1>1, <1>2, PartsStay
<1>4. dest = None
  BY <1>1 DEF Calm, DestOk, OneRequest, Busy, Unpacking
<1> QED
  BY <1>1, <1>2, <1>3, <1>4, HandledCalm DEF Handling

LEMMA CreatePieceCalm ==
  ASSUME TypeOK, OneRequest, Calm, NEW r \in Reqs, CreatePiece(r)
  PROVE  Calm'
<1>1. /\ Moved(r) /\ req[r].pc = "body"
      /\ UNCHANGED <<uploadSessions, asks, dest, pier, h>>
      /\ \/ /\ part' = [part EXCEPT ![req[r].k] = Short] /\ UNCHANGED upload
            /\ req'[r].pc = "copy" /\ req'[r].up = req[r].up /\ req'[r].k = req[r].k
            /\ req'[r].holds
         \/ req'[r].pc = "idle" /\ upload' = "aborted" /\ UNCHANGED part
  BY CreatePieceDoes
<1>2. RequestOk(r)
  BY <1>1 DEF Calm, Busy
<1>3. req'[r].pc # "idle" => req'[r].up = req[r].up /\ RequestOk(r)'
  BY <1>1, <1>2 DEF RequestOk, At, Importing, Handling
<1>4. dest = None
  BY <1>1 DEF Calm, DestOk, OneRequest, Busy, Unpacking
<1>5. upload' # "completed"
  BY <1>1 DEF Calm, CompletedOk, Busy, At
<1>6. \A u \in Uploads : u = req[r].up => PartsOf(u)'
  <2>1. CASE UNCHANGED part
    BY <1>1, <1>3, <2>1, PartsStay
  <2>2. CASE /\ part' = [part EXCEPT ![req[r].k] = Short] /\ req'[r].pc = "copy"
             /\ req'[r].k = req[r].k
    <3>1. /\ req[r].k \in Index /\ req[r].k < Total(r)
          /\ Total(r) = Pieces[Arc(req[r].up)] /\ part \in [Index -> Contents]
      BY <1>1, PlaceOf, TypeParts DEF Files
    <3>2. /\ \A i \in Index : part[i] # None => i < Total(r) /\ part[i] = Arc(req[r].up)
      BY <1>1, PiecesOf DEF At
    <3>3. Arc(req[r].up) = left'.plan[req[r].up] /\ Index' = Index
      BY <1>1 DEF Moved, Arc, Index
    <3>4. ASSUME NEW i \in Index, part'[i] # None
          PROVE  /\ i < Pieces[Arc(req[r].up)]
                 /\ part'[i] = Arc(req[r].up) \/ \E x \in Reqs : At(x, "copy")' /\ req'[x].k = i
      <4>1. CASE i = req[r].k
        BY <2>2, <3>1, <4>1 DEF At
      <4>2. CASE i # req[r].k
        <5>1. part'[i] = part[i]
          BY <2>2, <3>1, <4>2
        <5> QED
          BY <3>1, <3>2, <3>4, <5>1
      <4> QED
        BY <4>1, <4>2
    <3> QED
      BY <3>3, <3>4 DEF PartsOf, Arc
  <2> QED
    BY <1>1, <2>1, <2>2
<1> QED
  BY <1>1, <1>3, <1>4, <1>5, <1>6, HandledCalm DEF Handling

LEMMA CopyPieceCalm ==
  ASSUME TypeOK, OneRequest, Calm, NEW r \in Reqs, CopyPiece(r), ~h'.short
  PROVE  Calm'
<1>1. /\ Moved(r) /\ req[r].pc = "copy"
      /\ UNCHANGED <<uploadSessions, asks, dest, pier, upload>>
      /\ req'[r].pc = "stat" /\ req'[r].up = req[r].up
      /\ UNCHANGED h
      /\ \/ req[r].holds /\ part' = [part EXCEPT ![req[r].k] = Arc(req[r].up)]
         \/ ~req[r].holds /\ UNCHANGED part
  BY CopyPieceDoes
<1>2. RequestOk(r)
  BY <1>1 DEF Calm, Busy
<1>3. part' = [part EXCEPT ![req[r].k] = Arc(req[r].up)]
  BY <1>1, <1>2 DEF RequestOk, At
<1>4. RequestOk(r)'
  BY <1>1, <1>2 DEF RequestOk, At, Importing, Handling
<1>5. dest = None
  BY <1>1 DEF Calm, DestOk, OneRequest, Busy, Unpacking
<1>6. upload' # "completed"
  BY <1>1 DEF Calm, CompletedOk, Busy, At
<1>7. \A u \in Uploads : u = req[r].up => PartsOf(u)'
  <2>1. /\ req[r].k \in Index /\ req[r].k < Total(r)
        /\ Total(r) = Pieces[Arc(req[r].up)] /\ part \in [Index -> Contents]
    BY <1>1, PlaceOf, TypeParts DEF Files
  <2>2. \A i \in Index : part[i] # None =>
          i < Total(r) /\ (part[i] = Arc(req[r].up) \/ req[r].k = i)
    BY <1>1, PiecesOf
  <2>3. Arc(req[r].up) = left'.plan[req[r].up] /\ Index' = Index
    BY <1>1 DEF Moved, Arc, Index
  <2>4. ASSUME NEW i \in Index, part'[i] # None
        PROVE  i < Pieces[Arc(req[r].up)] /\ part'[i] = Arc(req[r].up)
    <3>1. CASE i = req[r].k
      BY <1>3, <2>1, <3>1
    <3>2. CASE i # req[r].k
      <4>1. part'[i] = part[i]
        BY <1>3, <2>1, <3>2
      <4> QED
        BY <2>1, <2>2, <2>4, <3>2, <4>1
    <3> QED
      BY <3>1, <3>2
  <2> QED
    BY <2>3, <2>4 DEF PartsOf, Arc
<1> QED
  BY <1>1, <1>4, <1>5, <1>6, <1>7, HandledCalm DEF Handling

LEMMA CheckChunksCalm ==
  ASSUME TypeOK, OneRequest, Calm, NEW r \in Reqs, CheckChunks(r)
  PROVE  Calm'
<1>1. /\ Moved(r) /\ req[r].pc = "stat"
      /\ UNCHANGED <<uploadSessions, asks, part, dest, pier, upload, h>>
      /\ \/ allChunksReceived(r) /\ req'[r].pc = "open" /\ req'[r].up = req[r].up
         \/ req'[r].pc = "idle"
  BY CheckChunksDoes
<1>2. RequestOk(r) /\ uploadSessions[req[r].up].open
  BY <1>1 DEF Calm, Busy, RequestOk, Handling
<1>3. req'[r].pc # "idle" => req'[r].up = req[r].up /\ RequestOk(r)'
  <2> SUFFICES ASSUME allChunksReceived(r), req'[r].pc = "open", req'[r].up = req[r].up
               PROVE  RequestOk(r)'
    BY <1>1
  <2>1. Filled(r)
    <3>1. Index \subseteq Nat /\ Total(r) \in Nat
      BY <1>1, PlaceOf, IndexOf
    <3>2. \A i \in Index : i < Total(r) => part[i] # None
      BY <3>1 DEF allChunksReceived
    <3>3. \A i \in Index : part[i] # None => part[i] = Arc(req[r].up)
      BY <1>1, PiecesOf DEF At
    <3> QED
      BY <3>2, <3>3 DEF Filled
  <2>2. Filled(r)'
    BY <1>1, <2>1 DEF Filled, Total, Arc, Moved, Index
  <2> QED
    BY <1>1, <1>2, <2>2 DEF RequestOk, At, Importing
<1>4. dest = None
  BY <1>1 DEF Calm, DestOk, OneRequest, Busy, Unpacking
<1>5. upload' # "completed"
  BY <1>1 DEF Calm, CompletedOk, Busy, At
<1>6. \A u \in Uploads : u = req[r].up => PartsOf(u)'
  BY <1>1, <1>3, PartsStay
<1> QED
  BY <1>1, <1>3, <1>4, <1>5, <1>6, HandledCalm DEF Handling

LEMMA CreateArchiveCalm ==
  ASSUME TypeOK, OneRequest, Calm, NEW r \in Reqs, CreateArchive(r)
  PROVE  Calm'
<1>1. /\ Moved(r) /\ req[r].pc = "open"
      /\ UNCHANGED <<uploadSessions, asks, part, pier, upload, h>>
      /\ dest' = Empty /\ req'[r].pc = "join" /\ req'[r].up = req[r].up
      /\ req'[r].k = 0 /\ req'[r].holds
  BY CreateArchiveDoes
<1>2. uploadSessions[req[r].up].open /\ Filled(r)
  BY <1>1 DEF Calm, Busy, RequestOk, Handling, At
<1>3. /\ Arc(req[r].up) \in Archives /\ Index \subseteq Nat
      /\ Total(r) = Pieces[Arc(req[r].up)] /\ Total(r) \in Nat
  BY <1>1, PlaceOf, IndexOf
<1>4. Arc(req[r].up) = left'.plan[req[r].up] /\ Index' = Index
  BY <1>1 DEF Moved, Arc, Index
<1>5. \A i \in Index : /\ 0 <= i /\ i < Total(r) => part[i] = Arc(req[r].up)
                       /\ ~(0 <= i /\ i < Total(r)) => part[i] = None
  <2>1. \A i \in Index : part[i] # None => i < Total(r)
    BY <1>1, PiecesOf
  <2> QED
    BY <1>2, <1>3, <2>1 DEF Filled
<1>6. Waiting(r)'
  BY <1>1, <1>3, <1>4, <1>5 DEF Waiting, Total, Arc
<1>7. dest' = Joined(Arc(req[r].up), 0)
  BY <1>1, <1>3, JoinedFirst
<1>8. RequestOk(r)'
  BY <1>1, <1>2, <1>4, <1>6, <1>7 DEF RequestOk, At, Importing, Arc, Joined
<1>9. upload' # "completed"
  BY <1>1 DEF Calm, CompletedOk, Busy, At
<1>10. \A u \in Uploads : u = req[r].up => PartsOf(u)'
  BY <1>1, PartsStay
<1> QED
  BY <1>1, <1>8, <1>9, <1>10, HandledCalm DEF Handling, Unpacking

LEMMA JoinPieceCalm ==
  ASSUME TypeOK, OneRequest, Calm, NEW r \in Reqs, JoinPiece(r)
  PROVE  Calm'
<1>1. /\ Moved(r) /\ req[r].pc = "join"
      /\ UNCHANGED <<uploadSessions, asks, part, pier, h>>
      /\ \/ /\ part[req[r].k] = None /\ req'[r].pc = "idle" /\ upload' = "aborted"
            /\ UNCHANGED dest
         \/ /\ part[req[r].k] # None /\ UNCHANGED upload
            /\ req'[r].pc = "drop" /\ req'[r].up = req[r].up /\ req'[r].k = req[r].k
            /\ req'[r].holds = req[r].holds
            /\ \/ /\ req[r].holds /\ dest \in [Index -> Contents]
                  /\ dest' = [dest EXCEPT ![req[r].k] = Added(req[r].k, part[req[r].k])]
               \/ ~req[r].holds /\ UNCHANGED dest
  BY JoinPieceDoes
<1> DEFINE k == req[r].k
           a == Arc(req[r].up)
<1>2. /\ uploadSessions[req[r].up].open /\ req[r].holds /\ Waiting(r) /\ dest = Joined(a, k)
  BY <1>1 DEF Calm, Busy, RequestOk, Handling, At
<1>3. /\ a \in Archives /\ k \in Nat /\ k \in Index /\ k < Total(r)
      /\ Total(r) = Pieces[a] /\ Total(r) \in Nat
  BY <1>1, PlaceOf
<1>4. part[k] = a
  <2>1. k <= k
    BY <1>3
  <2> QED
    BY <1>2, <1>3, <2>1 DEF Waiting
<1>5. part[k] # None
  BY <1>3, <1>4, NilsAssumption
<1>6. /\ UNCHANGED upload /\ req'[r].pc = "drop" /\ req'[r].up = req[r].up /\ req'[r].k = k
      /\ req'[r].holds /\ dest' = [dest EXCEPT ![k] = Added(k, a)]
  BY <1>1, <1>2, <1>4, <1>5
<1>7. Added(k, a) = a
  <2>1. ~(k < k)
    BY <1>3
  <2>2. dest[k] = None
    BY <1>2, <1>3, <2>1 DEF Joined
  <2> QED
    BY <2>2, NilsAssumption DEF Added
<1>8. dest' = Joined(a, k + 1)
  BY <1>2, <1>3, <1>6, <1>7, JoinedNext
<1>9. a = left'.plan[req[r].up] /\ Index' = Index
  BY <1>1 DEF Moved, Arc, Index
<1>10. Waiting(r)'
  BY <1>1, <1>2, <1>6, <1>9 DEF Waiting, Total, Arc
<1>11. RequestOk(r)'
  BY <1>1, <1>2, <1>6, <1>8, <1>9, <1>10 DEF RequestOk, At, Importing, Arc, Joined
<1>12. upload' # "completed"
  BY <1>1 DEF Calm, CompletedOk, Busy, At
<1>13. \A u \in Uploads : u = req[r].up => PartsOf(u)'
  BY <1>1, PartsStay
<1> QED
  BY <1>1, <1>6, <1>11, <1>12, <1>13, HandledCalm DEF Handling, Unpacking

LEMMA DropPieceCalm ==
  ASSUME TypeOK, OneRequest, Calm, NEW r \in Reqs, DropPiece(r)
  PROVE  Calm'
<1>1. /\ Moved(r) /\ req[r].pc = "drop"
      /\ UNCHANGED <<uploadSessions, asks, dest, pier, upload, h>>
      /\ part' = [part EXCEPT ![req[r].k] = None]
      /\ req'[r].up = req[r].up /\ req'[r].holds = req[r].holds
      /\ \/ req[r].k + 1 < Total(r) /\ req'[r].pc = "join" /\ req'[r].k = req[r].k + 1
         \/ ~(req[r].k + 1 < Total(r)) /\ req'[r].pc = "read"
  BY DropPieceDoes
<1> DEFINE k == req[r].k
           a == Arc(req[r].up)
<1>2. /\ uploadSessions[req[r].up].open /\ req[r].holds /\ Waiting(r) /\ dest = Joined(a, k + 1)
  BY <1>1 DEF Calm, Busy, RequestOk, Handling, At
<1>3. /\ a \in Archives /\ Index \subseteq Nat /\ k \in Index /\ k < Total(r) /\ k \in Nat
      /\ Total(r) = Pieces[a] /\ Total(r) \in Nat /\ part \in [Index -> Contents]
  BY <1>1, PlaceOf, IndexOf, TypeParts DEF Files
<1>4. a = left'.plan[req[r].up] /\ Index' = Index
  BY <1>1 DEF Moved, Arc, Index
<1>5. part'[k] = None /\ \A i \in Index : i # k => part'[i] = part[i]
  BY <1>1, <1>3
<1>6. \A i \in Index : /\ k + 1 <= i /\ i < Total(r) => part'[i] = a
                       /\ ~(k + 1 <= i /\ i < Total(r)) => part'[i] = None
  <2> SUFFICES ASSUME NEW i \in Index
               PROVE  /\ k + 1 <= i /\ i < Total(r) => part'[i] = a
                      /\ ~(k + 1 <= i /\ i < Total(r)) => part'[i] = None
    OBVIOUS
  <2>1. CASE i = k
    BY <1>3, <1>5, <2>1
  <2>2. CASE i # k
    <3>1. k <= i <=> k + 1 <= i
      <4>1. i \in Nat
        BY <1>3
      <4> HIDE DEF k
      <4> QED
        BY <1>3, <2>2, <4>1
    <3>2. part'[i] = part[i]
      BY <1>5, <2>2
    <3>3. /\ k <= i /\ i < Total(r) => part[i] = a
          /\ ~(k <= i /\ i < Total(r)) => part[i] = None
      BY <1>2 DEF Waiting
    <3> QED
      BY <3>1, <3>2, <3>3
  <2> QED
    BY <2>1, <2>2
<1>7. RequestOk(r)'
  <2>1. CASE k + 1 < Total(r) /\ req'[r].pc = "join" /\ req'[r].k = k + 1
    <3>1. Waiting(r)'
      BY <1>1, <1>4, <1>6, <2>1 DEF Waiting, Total, Arc
    <3> QED
      BY <1>1, <1>2, <1>4, <2>1, <3>1 DEF RequestOk, At, Importing, Arc, Joined
  <2>2. CASE ~(k + 1 < Total(r)) /\ req'[r].pc = "read"
    <3>1. k + 1 = Pieces[a]
      BY <1>3, <2>2
    <3>2. Whole(a)
      BY <1>2, <3>1 DEF Joined, Whole
    <3>3. Whole(a)'
      BY <1>1, <1>4, <3>2 DEF Whole, Arc
    <3> QED
      BY <1>1, <1>2, <1>4, <2>2, <3>3 DEF RequestOk, At, Importing, Arc
  <2> QED
    BY <1>1, <2>1, <2>2
<1>8. upload' # "completed"
  BY <1>1 DEF Calm, CompletedOk, Busy, At
<1>9. \A u \in Uploads : u = req[r].up => PartsOf(u)'
  <2>1. \A i \in Index : part'[i] # None => i < Pieces[a] /\ part'[i] = a
    BY <1>3, <1>6
  <2> QED
    BY <1>4, <2>1 DEF PartsOf, Arc
<1> QED
  BY <1>1, <1>7, <1>8, <1>9, HandledCalm DEF Handling, Unpacking

LEMMA ReadOptionsCalm ==
  ASSUME TypeOK, OneRequest, Calm, NEW r \in Reqs, ReadOptions(r), ~h'.late
  PROVE  Calm'
<1>1. /\ Moved(r) /\ req[r].pc = "read"
      /\ UNCHANGED <<uploadSessions, asks, part, dest, pier, upload>>
      /\ req'[r].pc = "clear" /\ req'[r].up = req[r].up
      /\ req'[r].remote = uploadSessions[req[r].up].remote
      /\ h' = [h EXCEPT !.late = h.late \/ asks[req[r].up] # <<>>]
  BY ReadOptionsDoes
<1>2. /\ uploadSessions[req[r].up].open /\ Whole(Arc(req[r].up)) /\ req[r].up \in Uploads
  BY <1>1, PlaceOf DEF Calm, Busy, RequestOk, Handling
<1>3. asks[req[r].up] = <<>> /\ h'.imports = h.imports /\ h'.failed = h.failed
  BY <1>1, TypeParts DEF History
<1>4. uploadSessions[req[r].up].remote = client[req[r].up].remote
  BY <1>2, <1>3 DEF Calm, OptionsOk, OptionsOf
<1>5. client'[req[r].up].remote = client[req[r].up].remote
  BY <1>1, <1>2 DEF Moved, Tame, Tamer
<1>6. Arc(req[r].up) = left'.plan[req[r].up] /\ Index' = Index
  BY <1>1 DEF Moved, Arc, Index
<1>7. RequestOk(r)'
  BY <1>1, <1>2, <1>4, <1>5, <1>6 DEF RequestOk, At, Importing, Arc, Whole
<1>8. upload' # "completed"
  BY <1>1 DEF Calm, CompletedOk, Busy, At
<1>9. \A u \in Uploads : u = req[r].up => PartsOf(u)'
  BY <1>1, PartsStay
<1> QED
  BY <1>1, <1>3, <1>7, <1>8, <1>9, HandledCalm DEF Handling, Unpacking

LEMMA ClearUploadSessionCalm ==
  ASSUME TypeOK, OneRequest, \A u \in Uploads : ImportedShut(u), Calm,
         NEW r \in Reqs, ClearUploadSession(r)
  PROVE  Calm'
<1> DEFINE up == req[r].up
<1>1. /\ Moved(r) /\ req[r].pc = "clear"
      /\ UNCHANGED <<asks, part, dest, pier, upload>>
      /\ uploadSessions' = [uploadSessions EXCEPT ![up] = Closed]
      /\ req'[r].pc = "create" /\ req'[r].up = up /\ req'[r].remote = req[r].remote
      /\ h' = Started(up)
  BY ClearUploadSessionDoes
<1>2. up \in Uploads /\ uploadSessions \in [Uploads -> [open : BOOLEAN, remote : BOOLEAN]]
  BY <1>1, PlaceOf, TypeParts DEF Ends
<1>3. /\ \A x \in Reqs : x # r => req[x].pc = "idle" /\ req'[x].pc = "idle"
      /\ UnderWay(up) /\ RequestOk(r)
      /\ \A u \in Uploads : UnderWay(u)' => u = up
  BY <1>1, OnlyRequest
<1>4. h.imports[up] = 0
  <2>1. ~(h.imports[up] > 0)
    BY <1>1, <1>2 DEF ImportedShut, Handling
  <2>2. h.imports[up] \in 0..2
    BY <1>2, TypeParts DEF History
  <2> QED
    BY <2>1, <2>2
<1>5. h'.imports[up] > 0 /\ h'.imports[up] \in Nat
  BY <1>1, <1>2, <1>4, TypeParts, StartedOf
<1>6. pier = NoPier /\ Whole(Arc(up)) /\ req[r].remote = client[up].remote
  BY <1>1, <1>2, <1>3, <1>4 DEF Calm, FreshOk, RequestOk
<1>7. client'[up].remote = client[up].remote
  BY <1>1, <1>2 DEF Moved, Tame, Tamer
<1>8. Arc(up) = left'.plan[up] /\ Index' = Index
  BY <1>1 DEF Moved, Arc, Index
<1>9. RequestOk(r)'
  BY <1>1, <1>5, <1>6, <1>7, <1>8 DEF RequestOk, At, Importing, Handling, Arc, Whole, NoPier
<1>10. OneUpload' /\ PartsOk'
  <2>1. \A u \in Uploads : u = up => PartsOf(u)'
    BY <1>1, PartsStay
  <2> QED
    BY <1>3, <2>1 DEF OneUpload, PartsOk
<1>11. OptionsOk'
  <2>1. ASSUME NEW u \in Uploads
        PROVE  OptionsOf(u)'
    <3>1. OptionsOf(u) /\ client'[u].remote = client[u].remote
      BY <1>1 DEF Calm, OptionsOk, Moved, Tame, Tamer
    <3>2. uploadSessions'[u].open => uploadSessions'[u] = uploadSessions[u]
      BY <1>1, <1>2 DEF Closed
    <3> QED
      BY <1>1, <3>1, <3>2 DEF OptionsOf
  <2> QED
    BY <2>1 DEF OptionsOk
<1>12. FreshOk'
  BY <1>3, <1>5 DEF FreshOk
<1>13. DestOk'
  BY <1>1 DEF DestOk, Unpacking
<1>14. SettledOk'
  BY <1>1 DEF SettledOk, Imports, Importing
<1>15. CompletedOk'
  BY <1>1 DEF Calm, CompletedOk, Busy, At
<1>16. \A x \in Busy' : RequestOk(x)'
  BY <1>3, <1>9 DEF Busy
<1> QED
  BY <1>10, <1>11, <1>12, <1>13, <1>14, <1>15, <1>16 DEF Calm

\* In the import: the options and the count of imports stay.
LEMMA ImportKeeps ==
  ASSUME TypeOK, OneRequest, Calm, NEW r \in Reqs, Moved(r), req[r].pc \in Importing,
         req'[r].up = req[r].up, req'[r].remote = req[r].remote, h'.imports = h.imports
  PROVE  /\ RequestOk(r) /\ Arc(req[r].up) = left'.plan[req[r].up] /\ Index' = Index
         /\ Arc(req[r].up) \in Archives
         /\ h'.imports[req'[r].up] > 0 /\ req'[r].remote = client'[req'[r].up].remote
         /\ req[r].remote = client[req[r].up].remote
<1>1. req[r].pc # "idle"
  BY DEF Importing
<1>2. RequestOk(r) /\ req[r].up \in Uploads /\ Arc(req[r].up) \in Archives
  BY <1>1, PlaceOf DEF Calm, Busy
<1>3. client'[req[r].up].remote = client[req[r].up].remote
  BY <1>2 DEF Moved, Tame, Tamer
<1> QED
  BY <1>2, <1>3 DEF RequestOk, Moved, Arc, Index

LEMMA CreatePierCalm ==
  ASSUME TypeOK, OneRequest, Calm, NEW r \in Reqs, CreatePier(r)
  PROVE  Calm'
<1>1. /\ Moved(r) /\ req[r].pc = "create"
      /\ UNCHANGED <<uploadSessions, asks, part, dest, h>>
      /\ req'[r].up = req[r].up /\ req'[r].remote = req[r].remote /\ upload' = "creating"
      /\ \/ req'[r].pc = "prepare" /\ pier' = [pier EXCEPT !.conf = TRUE]
         \/ req'[r].pc = "cleanup" /\ UNCHANGED pier
  BY CreatePierDoes
<1>2. /\ RequestOk(r) /\ Arc(req[r].up) = left'.plan[req[r].up] /\ Index' = Index
      /\ h'.imports[req'[r].up] > 0 /\ req'[r].remote = client'[req'[r].up].remote
  BY <1>1, ImportKeeps DEF Importing
<1>3. Whole(Arc(req[r].up)) /\ pier = NoPier
  BY <1>1, <1>2 DEF RequestOk, At
<1>4. RequestOk(r)'
  <2>1. CASE req'[r].pc = "prepare" /\ pier' = [pier EXCEPT !.conf = TRUE]
    <3>1. Made(None, "none")'
      BY <1>3, <2>1 DEF Made, NoPier
    <3> QED
      BY <1>1, <1>2, <1>3, <2>1, <3>1 DEF RequestOk, At, Importing, Handling, Whole, Arc
  <2>2. CASE req'[r].pc = "cleanup"
    BY <1>1, <1>2, <2>2 DEF RequestOk, At, Importing, Handling
  <2> QED
    BY <1>1, <2>1, <2>2
<1> QED
  BY <1>1, <1>4, ImportedCalm DEF Importing, Unpacking

LEMMA PrepareCalm ==
  ASSUME TypeOK, OneRequest, Calm, NEW r \in Reqs, Prepare(r)
  PROVE  Calm'
<1>1. /\ Moved(r) /\ req[r].pc = "prepare"
      /\ UNCHANGED <<uploadSessions, asks, part, dest, h>>
      /\ req'[r].up = req[r].up /\ req'[r].remote = req[r].remote
      /\ \/ /\ req'[r].pc = "extract" /\ pier' = [pier EXCEPT !.vol = Short, !.box = "none"]
            /\ upload' = "extracting"
         \/ req'[r].pc = "cleanup" /\ UNCHANGED upload
  BY PrepareDoes
<1>2. /\ RequestOk(r) /\ Arc(req[r].up) = left'.plan[req[r].up] /\ Index' = Index
      /\ h'.imports[req'[r].up] > 0 /\ req'[r].remote = client'[req'[r].up].remote
  BY <1>1, ImportKeeps DEF Importing
<1>3. Whole(Arc(req[r].up)) /\ Made(None, "none")
  BY <1>1, <1>2 DEF RequestOk, At
<1>4. RequestOk(r)'
  <2>1. CASE req'[r].pc = "extract" /\ pier' = [pier EXCEPT !.vol = Short, !.box = "none"]
    <3>1. Made(Short, "none")'
      BY <1>3, <2>1 DEF Made
    <3> QED
      BY <1>1, <1>2, <1>3, <2>1, <3>1 DEF RequestOk, At, Importing, Handling, Whole, Arc
  <2>2. CASE req'[r].pc = "cleanup"
    BY <1>1, <1>2, <2>2 DEF RequestOk, At, Importing, Handling
  <2> QED
    BY <1>1, <2>1, <2>2
<1> QED
  BY <1>1, <1>4, ImportedCalm DEF Importing, Unpacking

LEMMA ExtractCalm ==
  ASSUME TypeOK, OneRequest, Calm, NEW r \in Reqs, Extract(r)
  PROVE  Calm'
<1>1. /\ Moved(r) /\ req[r].pc = "extract"
      /\ UNCHANGED <<uploadSessions, asks, part, dest, upload, h>>
      /\ req'[r].up = req[r].up /\ req'[r].remote = req[r].remote
      /\ \/ /\ req'[r].pc = "restructure"
            /\ \E a \in Archives : Whole(a) /\ pier' = [pier EXCEPT !.vol = a]
         \/ req'[r].pc = "cleanup" /\ UNCHANGED pier
  BY ExtractDoes
<1>2. /\ RequestOk(r) /\ Arc(req[r].up) = left'.plan[req[r].up] /\ Index' = Index
      /\ h'.imports[req'[r].up] > 0 /\ req'[r].remote = client'[req'[r].up].remote
      /\ Arc(req[r].up) \in Archives
  BY <1>1, ImportKeeps DEF Importing
<1>3. Whole(Arc(req[r].up)) /\ Made(Short, "none")
  BY <1>1, <1>2 DEF RequestOk, At
<1>4. RequestOk(r)'
  <2>1. CASE /\ req'[r].pc = "restructure"
             /\ \E a \in Archives : Whole(a) /\ pier' = [pier EXCEPT !.vol = a]
    <3>1. PICK a \in Archives : Whole(a) /\ pier' = [pier EXCEPT !.vol = a]
      BY <2>1
    <3>2. a = Arc(req[r].up)
      BY <1>2, <1>3, <3>1, WholeOf
    <3>3. pier' = [conf |-> TRUE, vol |-> Arc(req[r].up), box |-> "none", remote |-> FALSE]
      BY <1>3, <3>1, <3>2 DEF Made
    <3>4. Made(Arc(req[r].up), "none")'
      BY <1>1, <1>2, <3>3 DEF Made, Arc
    <3> QED
      BY <1>1, <1>2, <2>1, <3>4 DEF RequestOk, At, Importing, Handling
  <2>2. CASE req'[r].pc = "cleanup"
    BY <1>1, <1>2, <2>2 DEF RequestOk, At, Importing, Handling
  <2> QED
    BY <1>1, <2>1, <2>2
<1> QED
  BY <1>1, <1>4, ImportedCalm DEF Importing, Unpacking

LEMMA RestructureCalm ==
  ASSUME TypeOK, OneRequest, Calm, NEW r \in Reqs, Restructure(r)
  PROVE  Calm'
<1>1. /\ Moved(r) /\ req[r].pc = "restructure"
      /\ UNCHANGED <<uploadSessions, asks, part, dest, pier, h>>
      /\ req'[r].up = req[r].up /\ req'[r].remote = req[r].remote
      /\ \/ req'[r].pc = "boot" /\ upload' = "booting"
         \/ req'[r].pc = "cleanup" /\ UNCHANGED upload
  BY RestructureDoes
<1>2. /\ RequestOk(r) /\ Arc(req[r].up) = left'.plan[req[r].up] /\ Index' = Index
      /\ h'.imports[req'[r].up] > 0 /\ req'[r].remote = client'[req'[r].up].remote
  BY <1>1, ImportKeeps DEF Importing
<1>3. Made(Arc(req[r].up), "none")
  BY <1>1, <1>2 DEF RequestOk
<1>4. Made(Arc(req[r].up), "none")'
  BY <1>1, <1>2, <1>3 DEF Made, Arc
<1>5. RequestOk(r)'
  <2>1. CASE req'[r].pc = "boot"
    BY <1>1, <1>2, <1>4, <2>1 DEF RequestOk, At, Importing, Handling
  <2>2. CASE req'[r].pc = "cleanup"
    BY <1>1, <1>2, <2>2 DEF RequestOk, At, Importing, Handling
  <2> QED
    BY <1>1, <2>1, <2>2
<1> QED
  BY <1>1, <1>5, ImportedCalm DEF Importing, Unpacking

LEMMA BootCalm ==
  ASSUME TypeOK, OneRequest, Calm, NEW r \in Reqs, Boot(r)
  PROVE  Calm'
<1>1. /\ Moved(r) /\ req[r].pc = "boot"
      /\ UNCHANGED <<uploadSessions, asks, part, upload, h>>
      /\ req'[r].up = req[r].up /\ req'[r].remote = req[r].remote
      /\ \/ /\ req'[r].pc = "wait" /\ dest' = None
            /\ pier' = [pier EXCEPT !.box = "up"]
         \/ req'[r].pc = "cleanup" /\ UNCHANGED dest
  BY BootDoes
<1>2. /\ RequestOk(r) /\ Arc(req[r].up) = left'.plan[req[r].up] /\ Index' = Index
      /\ h'.imports[req'[r].up] > 0 /\ req'[r].remote = client'[req'[r].up].remote
  BY <1>1, ImportKeeps DEF Importing
<1>3. Made(Arc(req[r].up), "none")
  BY <1>1, <1>2 DEF RequestOk
<1>4. RequestOk(r)'
  <2>1. CASE req'[r].pc = "wait" /\ pier' = [pier EXCEPT !.box = "up"]
    <3>1. pier' = [conf |-> TRUE, vol |-> Arc(req[r].up), box |-> "up", remote |-> FALSE]
      BY <1>3, <2>1 DEF Made
    <3>2. Made(Arc(req[r].up), "up")'
      BY <1>1, <1>2, <3>1 DEF Made, Arc
    <3> QED
      BY <1>1, <1>2, <2>1, <3>2 DEF RequestOk, At, Importing, Handling
  <2>2. CASE req'[r].pc = "cleanup"
    BY <1>1, <1>2, <2>2 DEF RequestOk, At, Importing, Handling
  <2> QED
    BY <1>1, <2>1, <2>2
<1> QED
  BY <1>1, <1>4, ImportedCalm DEF Importing, Unpacking

\* The archive is away once the ship is there.
LEMMA ArchiveGone ==
  ASSUME TypeOK, OneRequest, Calm, NEW r \in Reqs, req[r].pc \in {"wait", "remote"}
  PROVE  dest = None
BY DEF Calm, DestOk, OneRequest, Busy, Unpacking

LEMMA ShipReadyCalm ==
  ASSUME TypeOK, OneRequest, Calm, NEW r \in Reqs, ShipReady(r)
  PROVE  Calm'
<1>1. /\ Moved(r) /\ req[r].pc = "wait"
      /\ UNCHANGED <<uploadSessions, asks, part, dest, pier, h>>
      /\ \/ /\ left.wg /\ req[r].remote /\ req'[r].pc = "remote" /\ upload' = "remote"
            /\ req'[r].up = req[r].up /\ req'[r].remote = req[r].remote
         \/ ~(left.wg /\ req[r].remote) /\ req'[r].pc = "idle" /\ upload' = "completed"
  BY ShipReadyDoes
<1>2. PICK up \in Planned \cap Uploads :
        up = req[r].up /\ RequestOk(r) /\ req[r].remote \in BOOLEAN
  BY <1>1, PlaceOf DEF Calm, Busy, Request
<1>3. /\ Arc(up) = left'.plan[up] /\ client'[up].remote = client[up].remote
      /\ req[r].remote = client[up].remote /\ left'.wg = left.wg /\ h.imports[up] > 0
      /\ Planned' = Planned
  BY <1>1, <1>2 DEF Moved, Arc, Tame, Tamer, RequestOk, Importing, Planned
<1>4. pier = [conf |-> TRUE, vol |-> Arc(up), box |-> "up", remote |-> FALSE]
  BY <1>1, <1>2 DEF RequestOk, Made
<1>5. dest' = None
  BY <1>1, ArchiveGone
<1>6. CASE left.wg /\ req[r].remote /\ req'[r].pc = "remote" /\ upload' = "remote"
  <2>1. req'[r].up = req[r].up /\ req'[r].remote = req[r].remote
    BY <1>1, <1>6
  <2>2. Made(Arc(req[r].up), "up")'
    BY <1>1, <1>2, <1>3, <1>4, <2>1 DEF Made, Arc
  <2>3. RequestOk(r)'
    BY <1>1, <1>2, <1>3, <1>6, <2>1, <2>2 DEF RequestOk, At, Importing, Handling
  <2> QED
    BY <1>1, <1>5, <1>6, <2>1, <2>3, ImportedCalm DEF Importing
<1>7. CASE ~(left.wg /\ req[r].remote) /\ req'[r].pc = "idle" /\ upload' = "completed"
  <2>1. (left'.wg /\ client'[up].remote) = FALSE
    BY <1>3, <1>7
  <2>2. Imported(up)'
    <3>1. pier' = [conf |-> TRUE, vol |-> left'.plan[up], box |-> "up", remote |-> FALSE]
      BY <1>1, <1>3, <1>4
    <3>2. pier' = [conf |-> TRUE, vol |-> left'.plan[up], box |-> "up",
                   remote |-> left'.wg /\ client'[up].remote]
      BY <2>1, <3>1
    <3> QED
      BY <3>2 DEF Imported, Arc
  <2>3. Arrived' /\ Settled'
    BY <1>2, <1>3, <2>2 DEF Arrived, Settled
  <2> QED
    BY <1>1, <1>5, <1>7, <2>3, ImportedCalm DEF Importing
<1> QED
  BY <1>1, <1>6, <1>7

LEMMA ToggleRemoteCalm ==
  ASSUME TypeOK, OneRequest, Calm, NEW r \in Reqs, ToggleRemote(r)
  PROVE  Calm'
<1>1. /\ Moved(r) /\ req[r].pc = "remote"
      /\ UNCHANGED <<uploadSessions, asks, part, dest, h>>
      /\ \/ /\ req'[r].pc = "idle" /\ upload' = "completed"
            /\ pier' = [pier EXCEPT !.conf = TRUE, !.remote = TRUE, !.box = "up"]
         \/ /\ req'[r].pc = "cleanup" /\ UNCHANGED upload
            /\ req'[r].up = req[r].up /\ req'[r].remote = req[r].remote
  BY ToggleRemoteDoes
<1>2. PICK up \in Planned \cap Uploads : up = req[r].up /\ RequestOk(r)
  BY <1>1, PlaceOf DEF Calm, Busy
<1>3. /\ Arc(up) = left'.plan[up] /\ client'[up].remote = client[up].remote
      /\ req[r].remote = client[up].remote /\ left'.wg = left.wg /\ left.wg /\ req[r].remote
      /\ Planned' = Planned
  BY <1>1, <1>2 DEF Moved, Arc, Tame, Tamer, RequestOk, Importing, Planned, At
<1>4. pier = [conf |-> TRUE, vol |-> Arc(up), box |-> "up", remote |-> FALSE]
  BY <1>1, <1>2 DEF RequestOk, Made
<1>5. dest' = None
  BY <1>1, ArchiveGone
<1>6. CASE req'[r].pc = "cleanup"
  <2>1. /\ UNCHANGED upload /\ req'[r].up = req[r].up /\ req'[r].remote = req[r].remote
    BY <1>1, <1>6
  <2>2. h'.imports[req'[r].up] > 0 /\ req'[r].remote = client'[req'[r].up].remote
    BY <1>1, <2>1, ImportKeeps DEF Importing
  <2>3. RequestOk(r)'
    BY <1>6, <2>2 DEF RequestOk, At, Importing, Handling
  <2> QED
    BY <1>1, <1>5, <1>6, <2>1, <2>3, ImportedCalm DEF Importing
<1>7. CASE /\ req'[r].pc = "idle" /\ upload' = "completed"
           /\ pier' = [pier EXCEPT !.conf = TRUE, !.remote = TRUE, !.box = "up"]
  <2>1. pier' = [conf |-> TRUE, vol |-> left'.plan[up], box |-> "up", remote |-> TRUE]
    BY <1>3, <1>4, <1>7
  <2>2. (left'.wg /\ client'[up].remote) = TRUE
    BY <1>3
  <2>3. Imported(up)'
    <3>1. pier' = [conf |-> TRUE, vol |-> left'.plan[up], box |-> "up",
                   remote |-> left'.wg /\ client'[up].remote]
      BY <2>1, <2>2
    <3> QED
      BY <3>1 DEF Imported, Arc
  <2>4. Arrived' /\ Settled'
    BY <1>2, <1>3, <2>3 DEF Arrived, Settled
  <2> QED
    BY <1>1, <1>5, <1>7, <2>4, ImportedCalm DEF Importing
<1> QED
  BY <1>1, <1>6, <1>7

LEMMA ErrorCleanupCalm ==
  ASSUME TypeOK, OneRequest, Calm, NEW r \in Reqs, ErrorCleanup(r)
  PROVE  Calm'
<1>1. /\ Moved(r) /\ req[r].pc = "cleanup"
      /\ UNCHANGED <<uploadSessions, asks, part, upload>>
      /\ req'[r].pc = "idle" /\ dest' = None
      /\ pier' = NoPier \/ pier'.box # "none"
      /\ h' = [h EXCEPT !.failed = TRUE]
  BY ErrorCleanupDoes
<1>2. h'.failed /\ h'.imports = h.imports
  BY <1>1, TypeParts DEF History
<1>3. Settled'
  BY <1>1, <1>2 DEF Settled
<1> QED
  BY <1>1, <1>2, <1>3, ImportedCalm DEF Importing

\* Only the browser moves.
LEMMA BrowserCalm ==
  ASSUME Calm, Tame, left'.plan = left.plan, left'.wg = left.wg,
         UNCHANGED <<uploadSessions, asks, part, dest, req, pier, h>>,
         \A r \in Busy : req[r].up \in Uploads,
         upload' = "completed" => upload = "completed"
  PROVE  Calm'
<1>1. Busy' = Busy /\ Imports' = Imports /\ Index' = Index /\ \A u : Arc(u)' = Arc(u)
  BY DEF Busy, Imports, Index, Arc
<1>2. \A u \in Uploads : UnderWay(u)' => UnderWay(u)
  BY <1>1 DEF UnderWay, Active, Tame, Tamer
<1>3. OneUpload'
  BY <1>2 DEF OneUpload, Calm
<1>4. PartsOk'
  BY <1>1, <1>2 DEF PartsOk, PartsOf, Calm, At
<1>5. OptionsOk'
  BY OptionsStay
<1>6. FreshOk' /\ DestOk'
  BY <1>2 DEF FreshOk, DestOk, Calm
<1>7. Arrived => Arrived'
  BY ArrivedStays
<1>8. SettledOk' /\ CompletedOk'
  BY <1>1, <1>7 DEF SettledOk, Settled, CompletedOk, Calm, At
<1>9. ASSUME NEW r \in Busy
      PROVE  RequestOk(r)'
  <2>1. RequestOk(r) /\ client'[req[r].up].remote = client[req[r].up].remote
    BY DEF Calm, Tame, Tamer
  <2>2. Total(r)' = Total(r) /\ Arc(req[r].up)' = Arc(req[r].up)
    BY DEF Total, Arc
  <2>3. /\ Filled(r)' <=> Filled(r)
        /\ Waiting(r)' <=> Waiting(r)
    BY <1>1, <2>2 DEF Filled, Waiting
  <2>4. /\ \A a : Whole(a)' <=> Whole(a)
        /\ \A a, n : Joined(a, n)' = Joined(a, n)
        /\ \A v, box : Made(v, box)' <=> Made(v, box)
    BY <1>1 DEF Whole, Joined, Made
  <2>5. \A pc : At(r, pc)' <=> At(r, pc)
    BY DEF At
  <2> QED
    BY <2>1, <2>2, <2>3, <2>4, <2>5 DEF RequestOk
<1> QED
  BY <1>1, <1>3, <1>4, <1>5, <1>6, <1>8, <1>9 DEF Calm

\* Messages on their way.
LEMMA OneAsk == \A c : <<c>> # <<>>
<1>1. \A c : Len(<<c>>) = 1
  OBVIOUS
<1>2. Len(<<>>) = 0
  OBVIOUS
<1> QED
  BY <1>1, <1>2

LEMMA TwoAsks == \A c, d : <<d, c>> # <<>>
<1>1. \A c, d : Len(<<d, c>>) = 2
  OBVIOUS
<1>2. Len(<<>>) = 0
  OBVIOUS
<1> QED
  BY <1>1, <1>2

LEMMA BeginUploadCalm ==
  ASSUME TypeOK, Calm, NEW u \in Uploads, BeginUpload(u), ~h'.stale
  PROVE  Calm'
<1>1. /\ UNCHANGED <<uploadSessions, part, dest, req, pier, upload, left>>
      /\ upload = ""
      /\ asks'[u] \in {<<client'[u].remote>>, <<~client'[u].remote, client'[u].remote>>}
      /\ \A v \in Uploads : v # u => client'[v] = client[v] /\ asks'[v] = asks[v]
      /\ part = Empty /\ dest = None /\ pier = NoPier /\ Busy = {}
      /\ \A v \in Uploads : client[v].pc \notin {"send", "wait"}
  BY BeginUploadDoes
<1>2. Busy' = {}
  BY <1>1 DEF Busy
<1>3. \A v \in Uploads : UnderWay(v)' => v = u
  BY <1>1, <1>2 DEF UnderWay, Active
<1>4. OneUpload' /\ FreshOk' /\ DestOk'
  BY <1>1, <1>3 DEF OneUpload, FreshOk, DestOk
<1>5. PartsOk'
  BY <1>1 DEF PartsOk, PartsOf, Empty, Index
<1>6. OptionsOk'
  <2>1. asks'[u] # <<>>
    BY <1>1, OneAsk, TwoAsks
  <2>2. OptionsOf(u)'
    BY <1>1, <2>1 DEF OptionsOf
  <2>3. \A v \in Uploads : v # u => OptionsOf(v)'
    BY <1>1 DEF Calm, OptionsOk, OptionsOf
  <2> QED
    BY <2>2, <2>3 DEF OptionsOk
<1>7. SettledOk' /\ CompletedOk'
  BY <1>1 DEF SettledOk, Settled, CompletedOk, NoPier
<1> QED
  BY <1>2, <1>4, <1>5, <1>6, <1>7 DEF Calm

LEMMA SendCalm ==
  ASSUME TypeOK, Calm, NEW u \in Uploads, Send(u), ~h'.overlap
  PROVE  Calm'
<1>1. PICK r \in Reqs :
         /\ Moved(r) /\ req[r].pc = "idle" /\ req'[r].pc = "check" /\ req'[r].up = u
         /\ UNCHANGED <<uploadSessions, asks, part, dest, pier, upload>>
         /\ client[u].pc = "send"
         /\ h' = [h EXCEPT !.overlap = h.overlap \/ Busy # {}]
  BY SendDoes
<1>2. Busy = {} /\ h'.imports = h.imports /\ h'.failed = h.failed
  BY <1>1, TypeParts DEF History
<1>3. \A x \in Reqs : /\ req[x].pc = "idle"
                      /\ x # r => req'[x].pc = "idle"
  BY <1>1, <1>2 DEF Moved, Requests, Beside, Busy
<1>4. \A v \in Uploads : UnderWay(v)' => UnderWay(v)
  <2>1. \A v \in Uploads : Active(v)' => Active(v)
    BY <1>1 DEF Active, Moved, Tame, Tamer
  <2>2. Active(u)
    BY <1>1 DEF Active
  <2> QED
    BY <1>1, <1>3, <2>1, <2>2 DEF UnderWay, Busy
<1>5. OneUpload' /\ FreshOk'
  BY <1>1, <1>2, <1>4 DEF OneUpload, FreshOk, Calm
<1>6. PartsOk'
  <2>1. Index' = Index /\ \A v : Arc(v)' = Arc(v)
    BY <1>1 DEF Index, Moved, Arc
  <2>2. \A x \in Reqs : ~At(x, "copy")
    BY <1>3 DEF At
  <2> QED
    BY <1>1, <1>4, <2>1, <2>2 DEF PartsOk, PartsOf, Calm
<1>7. OptionsOk'
  BY <1>1, OptionsStay DEF Moved
<1>8. DestOk'
  BY <1>1, <1>3 DEF DestOk, Calm, Unpacking
<1>9. Arrived => Arrived'
  BY <1>1, ArrivedStays DEF Moved
<1>10. Settled
  BY <1>3 DEF Calm, SettledOk, Imports, Importing
<1>11. SettledOk' /\ CompletedOk'
  BY <1>1, <1>2, <1>3, <1>9, <1>10 DEF SettledOk, Settled, CompletedOk, Calm, At, Busy
<1>12. \A x \in Busy' : RequestOk(x)'
  BY <1>1, <1>3 DEF Busy, RequestOk, At, Handling, Importing
<1> QED
  BY <1>5, <1>6, <1>7, <1>8, <1>11, <1>12 DEF Calm

LEMMA LoseConnectionCalm ==
  ASSUME TypeOK, OneRequest, Calm, NEW u \in Uploads, LoseConnection(u)
  PROVE  Calm'
<1>1. PICK r \in Reqs :
         /\ Moved(r) /\ UNCHANGED <<uploadSessions, asks, part, dest, pier, upload, h>>
         /\ \/ UNCHANGED req
            \/ req[r].pc = "check" /\ req'[r].pc = "idle"
            \/ /\ req[r].pc \in {"check", "body"} /\ req'[r].pc = req[r].pc
               /\ req'[r].up = req[r].up
  BY LoseConnectionDoes
<1>2. CASE UNCHANGED req
  <2>1. \A x \in Busy : req[x].up \in Uploads
    BY PlaceOf DEF Busy
  <2> QED
    BY <1>1, <1>2, <2>1, BrowserCalm DEF Moved
<1>3. CASE /\ req[r].pc \in {"check", "body"} /\ req'[r].pc \in {"idle", req[r].pc}
           /\ req'[r].pc # "idle" => req'[r].up = req[r].up
  <2>1. RequestOk(r)
    BY <1>3 DEF Calm, Busy
  <2>2. req'[r].pc # "idle" => RequestOk(r)'
    BY <1>1, <1>3, <2>1 DEF RequestOk, At, Handling, Importing
  <2>3. \A v \in Uploads : v = req[r].up => PartsOf(v)'
    BY <1>1, <1>3, PartsStay
  <2>4. dest = None
    BY <1>3 DEF Calm, DestOk, OneRequest, Busy, Unpacking
  <2>5. upload' = "completed" => upload = "completed" /\ req'[r].pc \in {"idle", "check"}
    BY <1>1, <1>3 DEF Calm, CompletedOk, Busy, At
  <2> QED
    BY <1>1, <1>3, <2>2, <2>3, <2>4, <2>5, HandledCalm DEF Handling
<1> QED
  BY <1>1, <1>2, <1>3

LEMMA OpenEndpointCalm ==
  ASSUME TypeOK, Calm, NEW u \in Uploads, OpenEndpoint(u), ~h'.late
  PROVE  Calm'
<1>1. /\ UNCHANGED <<part, dest, req, pier, upload, client, left>>
      /\ asks[u] # <<>> /\ asks'[u] = Tail(asks[u])
      /\ uploadSessions'[u] = [open |-> TRUE, remote |-> Head(asks[u])]
      /\ \A v \in Uploads : v # u => /\ asks'[v] = asks[v]
                                     /\ uploadSessions'[v] = uploadSessions[v]
      /\ h' = [h EXCEPT !.late = h.late \/ h.imports[u] > 0]
  BY OpenEndpointDoes
<1>2. h'.imports = h.imports /\ h'.failed = h.failed
  BY <1>1, TypeParts DEF History
<1>3. Busy' = Busy /\ Imports' = Imports /\ Index' = Index /\ Planned' = Planned
  BY <1>1 DEF Busy, Imports, Index, Planned
<1>4. /\ \A v : UnderWay(v)' <=> UnderWay(v)
      /\ \A v : Imported(v)' <=> Imported(v)
      /\ \A v : PartsOf(v)' <=> PartsOf(v)
  BY <1>1, <1>3 DEF UnderWay, Active, Imported, Arc, PartsOf, At
<1>5. OneUpload' /\ PartsOk' /\ FreshOk' /\ DestOk'
  BY <1>1, <1>2, <1>4 DEF Calm, OneUpload, PartsOk, FreshOk, DestOk
<1>6. SettledOk' /\ CompletedOk'
  BY <1>1, <1>2, <1>3, <1>4 DEF Calm, SettledOk, Settled, Arrived, CompletedOk, At
<1>7. OptionsOk'
  <2> DEFINE c == client[u].remote
  <2>1. asks[u] = <<c>> \/ asks[u] = <<~c, c>>
    <3>1. asks[u] \in {<<>>, <<c>>, <<~c, c>>}
      BY DEF Calm, OptionsOk, OptionsOf
    <3> HIDE DEF c
    <3> QED
      BY <1>1, <3>1
  <2>2. client'[u].remote = c
    BY <1>1
  <2>3. ASSUME asks[u] = <<c>> PROVE OptionsOf(u)'
    <3> HIDE DEF c
    <3>1. asks'[u] = <<>> /\ Head(asks[u]) = c
      BY <1>1, <2>3
    <3>2. uploadSessions'[u].remote = c
      BY <1>1, <3>1
    <3> QED
      BY <2>2, <3>1, <3>2 DEF OptionsOf
  <2>4. ASSUME asks[u] = <<~c, c>> PROVE OptionsOf(u)'
    <3> HIDE DEF c
    <3>1. asks'[u] = <<c>>
      BY <1>1, <2>4
    <3>2. asks'[u] # <<>>
      BY <3>1, OneAsk
    <3> QED
      BY <2>2, <3>1, <3>2 DEF OptionsOf
  <2>5. OptionsOf(u)'
    BY <2>1, <2>3, <2>4
  <2>6. \A v \in Uploads : v # u => OptionsOf(v)'
    BY <1>1 DEF Calm, OptionsOk, OptionsOf
  <2> QED
    BY <2>5, <2>6 DEF OptionsOk
<1>8. ASSUME NEW r \in Busy
      PROVE  RequestOk(r)'
  <2>1. RequestOk(r) /\ req[r].up \in Uploads
    BY PlaceOf DEF Calm, Busy
  <2>2. Total(r)' = Total(r) /\ Arc(req[r].up)' = Arc(req[r].up)
    BY <1>1 DEF Total, Arc
  <2>3. /\ Filled(r)' <=> Filled(r)
        /\ Waiting(r)' <=> Waiting(r)
    BY <1>1, <1>3, <2>2 DEF Filled, Waiting
  <2>4. /\ \A a : Whole(a)' <=> Whole(a)
        /\ \A a, n : Joined(a, n)' = Joined(a, n)
        /\ \A v, box : Made(v, box)' <=> Made(v, box)
    BY <1>1, <1>3 DEF Whole, Joined, Made
  <2>5. \A pc : At(r, pc)' <=> At(r, pc)
    BY <1>1 DEF At
  <2>6. uploadSessions[req[r].up].open => uploadSessions'[req[r].up].open
    BY <1>1, <2>1
  <2> QED
    BY <1>1, <1>2, <2>1, <2>2, <2>3, <2>4, <2>5, <2>6 DEF RequestOk
<1> QED
  BY <1>3, <1>5, <1>6, <1>7, <1>8 DEF Calm

-----------------------------------------------------------------------------
(* The invariant, and what it implies                                      *)

CalmInv == TypeOK /\ Once /\ (Disturbed \/ Calm)

LEMMA CalmInit == Init => Calm
<1> SUFFICES ASSUME Init PROVE Calm
  OBVIOUS
<1>1. \A r \in Reqs : req[r].pc = "idle"
  BY IdleOf DEF Init
<1>2. Busy = {}
  BY <1>1 DEF Busy
<1>3. \A u \in Uploads : client[u].pc = "idle" /\ client[u].remote = FALSE
  BY DEF Init, Asleep
<1>4. \A u \in Uploads : ~UnderWay(u)
  BY <1>2, <1>3 DEF UnderWay, Active
<1>5. OneUpload /\ PartsOk /\ FreshOk
  BY <1>4 DEF OneUpload, PartsOk, FreshOk
<1>6. OptionsOk
  BY DEF Init, OptionsOk, OptionsOf, Closed
<1>7. DestOk /\ SettledOk /\ CompletedOk
  BY DEF Init, DestOk, SettledOk, Settled, CompletedOk
<1> QED
  BY <1>2, <1>5, <1>6, <1>7 DEF Calm

LEMMA Initially == Init => CalmInv
BY InitTyped, OnceInit, CalmInit DEF CalmInv

\* What was disturbed stays so.
LEMMA DisturbedStays ==
  ASSUME TypeOK, [Next]_vars, Disturbed
  PROVE  Disturbed'
<1>1. h \in History
  BY TypeParts
<1> DEFINE Later == Disturbed'
<1>2. ASSUME NEW r \in Reqs, Handle(r)
      PROVE  Later
  <2>1. CASE ClearUploadSession(r)
    <3>1. h' = Started(req[r].up) /\ req[r].up \in Uploads
      BY <2>1, ClearUploadSessionDoes, PlaceOf
    <3>2. /\ h'.overlap = (h.overlap \/ Imports # {}) /\ h'.stale = h.stale
          /\ h'.short = h.short /\ h'.late = h.late /\ h'.restarted = h.restarted
      BY <1>1, <3>1, StartedOf
    <3> QED
      BY <3>2 DEF Disturbed
  <2>2. CASE ReadOptions(r)
    <3>1. h' = [h EXCEPT !.late = h.late \/ asks[req[r].up] # <<>>]
      BY <2>2, ReadOptionsDoes
    <3> QED
      BY <1>1, <3>1 DEF Disturbed, History
  <2>3. CASE CopyPiece(r)
    <3>1. UNCHANGED h \/ h'.short
      BY <2>3, CopyPieceDoes
    <3> QED
      BY <3>1 DEF Disturbed
  <2>4. CASE ~(ClearUploadSession(r) \/ ReadOptions(r) \/ CopyPiece(r))
    <3>1. UNCHANGED h
      BY <1>2, <2>4, VerifySessionDoes, CreatePieceDoes, CheckChunksDoes, CreateArchiveDoes,
         JoinPieceDoes, DropPieceDoes DEF Handle
    <3> QED
      BY <3>1 DEF Disturbed
  <2> QED
    BY <2>1, <2>2, <2>3, <2>4
<1>3. ASSUME NEW r \in Reqs, Import(r)
      PROVE  Later
  <2>1. UNCHANGED h \/ h' = [h EXCEPT !.failed = TRUE]
    BY <1>3, CreatePierDoes, PrepareDoes, ExtractDoes, RestructureDoes, BootDoes, ShipReadyDoes,
       ToggleRemoteDoes, ErrorCleanupDoes DEF Import
  <2> QED
    BY <1>1, <2>1 DEF Disturbed, History
<1>4. ASSUME NEW u \in Uploads, BeginUpload(u)
      PROVE  Later
  <2>1. h' = [h EXCEPT !.stale = h'.stale] /\ (h.stale => h'.stale)
    BY <1>4, BeginUploadDoes
  <2>2. /\ h'.overlap = h.overlap /\ h'.short = h.short /\ h'.late = h.late
        /\ h'.restarted = h.restarted
    BY <1>1, <2>1 DEF History
  <2> QED
    BY <2>1, <2>2 DEF Disturbed
<1>5. ASSUME NEW u \in Uploads, Send(u)
      PROVE  Later
  <2>1. h' = [h EXCEPT !.overlap = h.overlap \/ Busy # {}]
    BY <1>5, SendDoes
  <2> QED
    BY <1>1, <2>1 DEF Disturbed, History
<1>6. ASSUME NEW u \in Uploads, OpenEndpoint(u)
      PROVE  Later
  <2>1. h' = [h EXCEPT !.late = h.late \/ h.imports[u] > 0]
    BY <1>6, OpenEndpointDoes
  <2> QED
    BY <1>1, <2>1 DEF Disturbed, History
<1>7. ASSUME NEW u \in Uploads, LoseConnection(u)
      PROVE  Later
  BY <1>7, LoseConnectionDoes DEF Disturbed
<1>8. CASE Reset \/ Restart \/ UNCHANGED vars
  BY <1>8, ResetDoes, RestartDoes DEF Disturbed, vars
<1> QED
  BY <1>2, <1>3, <1>4, <1>5, <1>6, <1>7, <1>8 DEF Next

LEMMA CalmStays ==
  ASSUME CalmInv, [Next]_vars
  PROVE  CalmInv'
<1>1. TypeOK' /\ Once'
  BY TypeStays, OnceStays DEF CalmInv
<1> SUFFICES ASSUME ~Disturbed'
             PROVE  Calm'
  BY <1>1 DEF CalmInv
<1>2. TypeOK /\ Calm /\ ~Disturbed
  BY DisturbedStays DEF CalmInv
<1>3. OneRequest /\ \A u \in Uploads : ImportedShut(u)
  BY <1>2 DEF CalmInv, Once, Disturbed
<1>4. ~h'.overlap /\ ~h'.stale /\ ~h'.short /\ ~h'.late /\ ~h'.restarted
  BY DEF Disturbed
<1>5. ASSUME NEW r \in Reqs, Handle(r)
      PROVE  Calm'
  BY <1>2, <1>3, <1>4, <1>5, VerifySessionCalm, CreatePieceCalm, CopyPieceCalm, CheckChunksCalm,
     CreateArchiveCalm, JoinPieceCalm, DropPieceCalm, ReadOptionsCalm, ClearUploadSessionCalm
     DEF Handle
<1>6. ASSUME NEW r \in Reqs, Import(r)
      PROVE  Calm'
  BY <1>2, <1>3, <1>6, CreatePierCalm, PrepareCalm, ExtractCalm, RestructureCalm, BootCalm,
     ShipReadyCalm, ToggleRemoteCalm, ErrorCleanupCalm DEF Import
<1>7. ASSUME NEW u \in Uploads,
             BeginUpload(u) \/ Send(u) \/ LoseConnection(u) \/ OpenEndpoint(u)
      PROVE  Calm'
  BY <1>2, <1>3, <1>4, <1>7, BeginUploadCalm, SendCalm, LoseConnectionCalm, OpenEndpointCalm
<1>8. CASE Reset \/ UNCHANGED vars
  <2>1. /\ UNCHANGED <<uploadSessions, asks, part, dest, req, pier, client, h, left>>
        /\ upload' = upload \/ upload' = ""
    BY <1>2, <1>8, ResetDoes DEF vars, files
  <2>2. Tame /\ \A r \in Busy : req[r].up \in Uploads
    BY <1>2, <2>1, PlaceOf DEF Tame, Tamer, Busy
  <2> QED
    BY <1>2, <2>1, <2>2, BrowserCalm
<1>9. CASE Restart
  BY <1>2, <1>4, <1>9, RestartDoes
<1> QED
  BY <1>5, <1>6, <1>7, <1>8, <1>9 DEF Next

\* The archive that is unpacked is whole and of its upload, although pieces are
\* found by name and counted by existence.
THEOREM WholeArchiveHolds == Spec => []WholeArchive
<1>1. CalmInv => WholeArchive
  BY DEF CalmInv, Calm, WholeArchive, RequestOk, Busy, At
<1> QED
  BY Initially, CalmStays, <1>1, PTL DEF Spec

\* What is shown as completed is there.
THEOREM CompletedIsRealHolds == Spec => []CompletedIsReal
<1>1. CalmInv => CompletedIsReal
  BY DEF CalmInv, Calm, CompletedIsReal, CompletedOk, Arrived
<1> QED
  BY Initially, CalmStays, <1>1, PTL DEF Spec

\* When nothing is in progress, an import has left the whole ship or nothing.
THEOREM AllOrNothingHolds == Spec => []AllOrNothing
<1>1. CalmInv => AllOrNothing
  <2> SUFFICES ASSUME CalmInv, Busy = {}, ~Disturbed
               PROVE  /\ \/ pier = NoPier \/ (h.failed /\ pier.box # "none")
                         \/ \E u \in Planned : Imported(u)
                      /\ dest = None
    BY DEF AllOrNothing
  <2>1. Imports = {} /\ \A r \in Reqs : req[r].pc \notin Unpacking
    BY DEF Busy, Imports, Importing, Unpacking
  <2>2. Calm
    BY DEF CalmInv
  <2> QED
    BY <2>1, <2>2 DEF Calm, SettledOk, Settled, Arrived, DestOk
<1> QED
  BY Initially, CalmStays, <1>1, PTL DEF Spec

=============================================================================
