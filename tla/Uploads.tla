------------------------------ MODULE Uploads ------------------------------
(***************************************************************************)
(* The import of a pier that a browser uploads: importer/importer.go,      *)
(* importer/extract.go, handler/upload.go and rectify/importer.go.         *)
(*                                                                         *)
(* The browser opens an endpoint over its websocket and posts the archive  *)
(* in pieces, one request after the other; it sends a piece again when the *)
(* connection breaks, while the first request is still being handled.  The *)
(* handler that finds all pieces joins them and becomes the import.  Files *)
(* are named after the archive, not after the endpoint, so what two        *)
(* requests, two uploads or an import do to the same file interleaves.     *)
(* Written from the code; the client is Dropzone as the front end sets it  *)
(* up.  Bytes are reduced to whether a piece is complete.                  *)
(***************************************************************************)
EXTENDS Naturals, Sequences, FiniteSets

CONSTANTS
    Archives,      \* archives the user may upload under the same file name
    Pieces,        \* how many pieces each is cut into
    Reqs,          \* requests and imports in progress at once (bound)
    Uploads,       \* uploads that may be begun, each from a page of its own
    RetryLimit,    \* times Dropzone sends a piece again (retryChunksLimit)
    None, Short,   \* no piece; a piece that is not complete
    Budgets        \* bounds: the archives that are uploaded, in turn, and how
                   \* many connections break, calls fail, restarts there are;
                   \* whether options change late; whether StarTram is on

ASSUME NilsAssumption ==
    None \notin Archives \cup Reqs /\ Short \notin Archives /\ None # Short
ASSUME PiecesAssumption ==
    /\ Pieces \in [Archives -> Nat \ {0}]
    /\ Archives # {} => \E b \in Archives : \A a \in Archives : Pieces[a] <= Pieces[b]
ASSUME ReqsAssumption == IsFiniteSet(Reqs) /\ RetryLimit \in Nat
ASSUME UploadsAssumption == Uploads = 1..Cardinality(Uploads)
Budget ==
    [plan : Seq(Archives), reqs : 1..Cardinality(Reqs), lost : Nat, faults : Nat,
     restarts : Nat, ticks : BOOLEAN, wg : BOOLEAN]
ASSUME BudgetsAssumption == Budgets \subseteq Budget

VARIABLES
    uploadSessions,  \* endpoint -> open or not, and the option "remote"
    asks,            \* endpoint -> "open-endpoint" messages on their way
    part,            \* the pieces in the directory "temp"
    dest,            \* the archive in "uploads": its pieces, or None
    req,             \* the requests and the imports
    pier,            \* the ship that is imported
    upload,          \* upload.status of the broadcast state
    client,          \* the browser's side of every upload
    h,               \* history
    left             \* what is left of the budget

files == <<part, dest>>
vars == <<uploadSessions, asks, part, dest, req, pier, upload, client, h, left>>

Planned == 1..Len(left.plan)
Arc(u) == left.plan[u]
Index == 0..(CHOOSE n \in {Pieces[a] : a \in Archives} :
                \A a \in Archives : Pieces[a] <= n) - 1
Contents == Archives \cup {None, Short}
Empty == [i \in Index |-> None]

\* The archive is joined from complete pieces of one upload.
Whole(a) == dest = [i \in Index |-> IF i < Pieces[a] THEN a ELSE None]

NoPier == [conf |-> FALSE, vol |-> None, box |-> "none", remote |-> FALSE]
Closed == [open |-> FALSE, remote |-> FALSE]

\* holds: the file it writes is still the one at its path.
Idle == [pc |-> "idle", up |-> 0, k |-> 0, broken |-> FALSE, holds |-> FALSE,
         remote |-> FALSE]
Asleep == [pc |-> "idle", next |-> 0, tries |-> 0, req |-> None, remote |-> FALSE]

Stages == {"creating", "extracting", "booting", "remote"}
Importing == {"create", "prepare", "extract", "restructure", "boot", "wait", "remote", "cleanup"}
Imports == {r \in Reqs : req[r].pc \in Importing}
Busy == {r \in Reqs : req[r].pc # "idle"}

At(r, pc) == req[r].pc = pc
Goto(r, pc) == req' = [req EXCEPT ![r].pc = pc]
Spend(what) == left[what] > 0 /\ left' = [left EXCEPT ![what] = @ - 1]

-----------------------------------------------------------------------------
(* The browser *)

\* The page offers the upload while no status is shown.  The endpoint is drawn
\* anew; the user may still tick a box between the choice and the upload.
BeginUpload(u) ==
    /\ u \in Planned /\ upload = "" /\ client[u].pc = "idle"
    /\ \A v \in 1..(u - 1) : client[v].pc # "idle"
    /\ \E remote \in BOOLEAN, ticked \in {FALSE, left.ticks} :
        /\ asks' = [asks EXCEPT ![u] = IF ticked THEN <<~remote, remote>> ELSE <<remote>>]
        /\ client' = [client EXCEPT ![u] = [Asleep EXCEPT !.pc = "send", !.remote = remote]]
    /\ h' = [h EXCEPT !.stale = @ \/ <<part, dest, pier>> # <<Empty, None, NoPier>>
                                 \/ Busy # {} \/ \E v \in Uploads : client[v].pc \in {"send", "wait"}]
    /\ UNCHANGED <<uploadSessions, files, req, pier, upload, left>>

Send(u) ==
    /\ client[u].pc = "send"
    /\ Cardinality(Busy) < left.reqs
    /\ LET r == CHOOSE r \in Reqs : r \notin Busy IN
        /\ req' = [req EXCEPT ![r] = [Idle EXCEPT !.pc = "check", !.up = u,
                                                   !.k = client[u].next]]
        /\ client' = [client EXCEPT ![u].pc = "wait", ![u].req = r]
    /\ h' = [h EXCEPT !.overlap = @ \/ Busy # {}]
    /\ UNCHANGED <<uploadSessions, asks, files, pier, upload, left>>

Retried(c) ==
    IF c.tries < RetryLimit THEN [c EXCEPT !.pc = "send", !.tries = @ + 1, !.req = None]
    ELSE [c EXCEPT !.pc = "failed", !.req = None]

Acknowledged(c, total) ==
    [c EXCEPT !.pc = IF c.next + 1 = total THEN "done" ELSE "send",
              !.next = IF c.next + 1 = total THEN @ ELSE @ + 1,
              !.tries = 0, !.req = None]

\* The response to r, of which a client that has gone on hears nothing.
Hear(r, ok) ==
    client' = [u \in Uploads |->
                 IF client[u].req # r THEN client[u]
                 ELSE IF ok THEN Acknowledged(client[u], Pieces[Arc(u)])
                 ELSE Retried(client[u])]

\* The connection breaks: the request is lost, or arrives in part, or the
\* handler goes on and its response is lost.
LoseConnection(u) ==
    /\ client[u].pc = "wait" /\ Spend("lost")
    /\ client' = [client EXCEPT ![u] = Retried(@)]
    /\ LET r == client[u].req IN
        \/ UNCHANGED req
        \/ At(r, "check") /\ req' = [req EXCEPT ![r] = Idle]
        \/ req[r].pc \in {"check", "body"} /\ req' = [req EXCEPT ![r].broken = TRUE]
    /\ UNCHANGED <<uploadSessions, asks, files, pier, upload, h>>

-----------------------------------------------------------------------------
(* handler/upload.go *)

\* SetUploadSession, which opens an endpoint anew after it has been cleared.
OpenEndpoint(u) ==
    /\ asks[u] # <<>>
    /\ asks' = [asks EXCEPT ![u] = Tail(@)]
    /\ uploadSessions' = [uploadSessions EXCEPT ![u] = [open |-> TRUE, remote |-> Head(asks[u])]]
    /\ h' = [h EXCEPT !.late = @ \/ h.imports[u] > 0]
    /\ UNCHANGED <<files, req, pier, upload, client, left>>

\* The page offers it in two of the statuses.
Reset ==
    /\ upload \in {"aborted", "completed"}
    /\ upload' = ""
    /\ UNCHANGED <<uploadSessions, asks, files, req, pier, client, h, left>>

-----------------------------------------------------------------------------
(* HTTPUploadHandler *)

Respond(r, ok) == req' = [req EXCEPT ![r] = Idle] /\ Hear(r, ok)
Refuse(r) == upload' = "aborted" /\ Respond(r, FALSE)

VerifySession(r) ==
    /\ At(r, "check")
    /\ \/ /\ uploadSessions[req[r].up].open
          /\ upload' = "uploading" /\ Goto(r, "body")
          /\ UNCHANGED client
       \/ /\ ~uploadSessions[req[r].up].open
          /\ Refuse(r)
    /\ UNCHANGED <<uploadSessions, asks, files, pier, h, left>>

\* The requests that write piece k, or that join pieces and have come to it.
Forget(k, pcs) ==
    [r \in Reqs |-> IF req[r].pc \in pcs /\ req[r].k = k THEN [req[r] EXCEPT !.holds = FALSE]
                    ELSE req[r]]

\* os.Create truncates a piece that is there, under whoever writes it.
CreatePiece(r) ==
    /\ At(r, "body")
    /\ \/ /\ req[r].broken
          /\ Refuse(r)
          /\ UNCHANGED part
       \/ /\ ~req[r].broken
          /\ part' = [part EXCEPT ![req[r].k] = Short]
          /\ req' = [Forget(req[r].k, {"copy"}) EXCEPT ![r].pc = "copy", ![r].holds = TRUE]
          /\ UNCHANGED <<upload, client>>
    /\ UNCHANGED <<uploadSessions, asks, dest, pier, h, left>>

\* The error of io.Copy is dropped.
CopyPiece(r) ==
    /\ At(r, "copy")
    /\ Goto(r, "stat")
    /\ \/ /\ part' = [part EXCEPT ![req[r].k] = IF req[r].holds THEN Arc(req[r].up) ELSE @]
          /\ UNCHANGED <<h, left>>
       \/ /\ Spend("faults")
          /\ h' = [h EXCEPT !.short = TRUE]
          /\ UNCHANGED part
    /\ UNCHANGED <<uploadSessions, asks, dest, pier, upload, client>>

Total(r) == Pieces[Arc(req[r].up)]

\* Mutant: one piece too many is asked for.
AllChunksAndOne(r) == \A i \in 0..Total(r) : i \in Index /\ part[i] # None

\* The pieces are looked up by name, whoever sent them.
allChunksReceived(r) == \A i \in 0..(Total(r) - 1) : part[i] # None

CheckChunks(r) ==
    /\ At(r, "stat")
    /\ \/ /\ allChunksReceived(r)
          /\ Goto(r, "open")
          /\ UNCHANGED client
       \/ /\ ~allChunksReceived(r)
          /\ Respond(r, TRUE)
    /\ UNCHANGED <<uploadSessions, asks, files, pier, upload, h, left>>

-----------------------------------------------------------------------------
(* combineChunks *)

\* Mutant: the first piece is left out.
CreateArchiveFromOne(r) ==
    /\ At(r, "open")
    /\ dest' = Empty
    /\ req' = [req EXCEPT ![r].pc = "join", ![r].k = Total(r) - 1, ![r].holds = TRUE]
    /\ UNCHANGED <<uploadSessions, asks, part, pier, upload, client, h, left>>

CreateArchive(r) ==
    /\ At(r, "open")
    /\ dest' = Empty
    /\ req' = [req EXCEPT ![r].pc = "join", ![r].k = 0, ![r].holds = TRUE]
    /\ UNCHANGED <<uploadSessions, asks, part, pier, upload, client, h, left>>

\* What is added at an offset that is off stays wrong.
Added(i, content) == IF dest[i] = Short THEN Short ELSE content

JoinPiece(r) ==
    /\ At(r, "join")
    /\ \/ /\ part[req[r].k] = None
          /\ Refuse(r)
          /\ UNCHANGED dest
       \/ /\ part[req[r].k] # None
          /\ dest' = IF req[r].holds
                     THEN [dest EXCEPT ![req[r].k] = Added(req[r].k, part[req[r].k])] ELSE dest
          /\ Goto(r, "drop")
          /\ UNCHANGED <<upload, client>>
    /\ UNCHANGED <<uploadSessions, asks, part, pier, h, left>>

DropPiece(r) ==
    /\ At(r, "drop")
    /\ part' = [part EXCEPT ![req[r].k] = None]
    /\ req' = [Forget(req[r].k, {"copy"}) EXCEPT
                 ![r].k = IF req[r].k + 1 < Total(r) THEN req[r].k + 1 ELSE 0,
                 ![r].pc = IF req[r].k + 1 < Total(r) THEN "join" ELSE "read"]
    /\ UNCHANGED <<uploadSessions, asks, dest, pier, upload, client, h, left>>

\* Mutant: the endpoint is cleared before its options are read.
ReadOptionsCleared(r) ==
    /\ At(r, "read")
    /\ Goto(r, "clear")
    /\ uploadSessions' = [uploadSessions EXCEPT ![req[r].up] = Closed]
    /\ UNCHANGED <<asks, files, pier, upload, client, h, left>>

\* Without a session the options are those of the zero value.
ReadOptions(r) ==
    /\ At(r, "read")
    /\ req' = [req EXCEPT ![r].pc = "clear", ![r].remote = uploadSessions[req[r].up].remote]
    /\ h' = [h EXCEPT !.late = @ \/ asks[req[r].up] # <<>>]
    /\ UNCHANGED <<uploadSessions, asks, files, pier, upload, client, left>>

Importer(r) == [Idle EXCEPT !.pc = "create", !.up = req[r].up, !.remote = req[r].remote]
Started(u) == [h EXCEPT !.imports[u] = IF h.imports[u] = 2 THEN 2 ELSE h.imports[u] + 1,
                        !.overlap = @ \/ Imports # {}]

\* Mutant: the endpoint stays open.
ClearUploadSessionNot(r) ==
    /\ At(r, "clear")
    /\ req' = [req EXCEPT ![r] = Importer(r)]
    /\ h' = Started(req[r].up)
    /\ Hear(r, TRUE)
    /\ UNCHANGED <<uploadSessions, asks, files, pier, upload, left>>

ClearUploadSession(r) ==
    /\ At(r, "clear")
    /\ uploadSessions' = [uploadSessions EXCEPT ![req[r].up] = Closed]
    /\ req' = [req EXCEPT ![r] = Importer(r)]
    /\ h' = Started(req[r].up)
    /\ Hear(r, TRUE)
    /\ UNCHANGED <<asks, files, pier, upload, left>>

-----------------------------------------------------------------------------
(* configureUploadedPier *)

GiveUp(r) == Goto(r, "cleanup") /\ UNCHANGED pier
FaultyGiveUp(r) == Spend("faults") /\ GiveUp(r)

\* The configuration and the entry in system.json; see the module Piers.
CreatePier(r) ==
    /\ At(r, "create")
    /\ upload' = "creating"
    /\ \/ /\ pier' = [pier EXCEPT !.conf = TRUE]
          /\ Goto(r, "prepare")
          /\ UNCHANGED left
       \/ FaultyGiveUp(r)
    /\ UNCHANGED <<uploadSessions, asks, files, client, h>>

\* The container and the volume of a ship of that name go.
Prepare(r) ==
    /\ At(r, "prepare")
    /\ \/ /\ pier' = [pier EXCEPT !.vol = Short, !.box = "none"]
          /\ Goto(r, "extract")
          /\ upload' = "extracting"
          /\ UNCHANGED left
       \/ /\ Spend("faults")
          /\ pier' = [pier EXCEPT !.vol = None, !.box = "none"]
          /\ Goto(r, "cleanup")
          /\ UNCHANGED upload
    /\ UNCHANGED <<uploadSessions, asks, files, client, h>>

\* An archive with a hole, or of pieces of two, fails the checksums.
Extract(r) ==
    /\ At(r, "extract")
    /\ \/ \E a \in Archives :
            /\ Whole(a)
            /\ pier' = [pier EXCEPT !.vol = a]
            /\ Goto(r, "restructure")
            /\ UNCHANGED left
       \/ /\ \A a \in Archives : ~Whole(a)
          /\ GiveUp(r)
          /\ UNCHANGED left
       \/ FaultyGiveUp(r)
    /\ UNCHANGED <<uploadSessions, asks, files, upload, client, h>>

\* restructureDirectory: one pier, wherever it was in the archive, moves to its
\* place; with none or several in it the import fails.
Restructure(r) ==
    /\ At(r, "restructure")
    /\ \/ Goto(r, "boot") /\ upload' = "booting" /\ UNCHANGED <<pier, left>>
       \/ FaultyGiveUp(r) /\ UNCHANGED upload
    /\ UNCHANGED <<uploadSessions, asks, files, client, h>>

RemoveArchive(reqs) ==
    /\ dest' = None
    /\ req' = [x \in Reqs |-> IF reqs[x].pc \in {"join", "drop"}
                              THEN [reqs[x] EXCEPT !.holds = FALSE] ELSE reqs[x]]

\* A container that does not start may have been created.
Boot(r) ==
    /\ At(r, "boot")
    /\ \/ /\ pier.conf
          /\ pier' = [pier EXCEPT !.box = "up"]
          /\ RemoveArchive([req EXCEPT ![r].pc = "wait"])
          /\ UNCHANGED left
       \/ ~pier.conf /\ GiveUp(r) /\ UNCHANGED <<dest, left>>
       \/ /\ pier.conf /\ Spend("faults")
          /\ \E box \in {pier.box, "made"} : pier' = [pier EXCEPT !.box = box]
          /\ Goto(r, "cleanup")
          /\ UNCHANGED dest
    /\ UNCHANGED <<uploadSessions, asks, part, upload, client, h>>

\* Mutant: the end is not announced.
CompletedNot(r) == req' = [req EXCEPT ![r] = Idle] /\ UNCHANGED upload

Completed(r) == req' = [req EXCEPT ![r] = Idle] /\ upload' = "completed"

\* waitForShipReady: the ship runs and tells its code.
ShipReady(r) ==
    /\ At(r, "wait") /\ pier.box = "up"
    /\ \/ /\ left.wg /\ req[r].remote
          /\ upload' = "remote" /\ Goto(r, "remote")
       \/ /\ ~(left.wg /\ req[r].remote)
          /\ Completed(r)
    /\ UNCHANGED <<uploadSessions, asks, files, pier, client, h, left>>

\* importShipToggleRemote returns at its first tick whatever the subdomains are
\* like; the ship moves to the other network.
ToggleRemote(r) ==
    /\ At(r, "remote")
    /\ \/ /\ pier' = [pier EXCEPT !.conf = TRUE, !.remote = TRUE, !.box = "up"]
          /\ Completed(r)
          /\ UNCHANGED left
       \/ /\ Spend("faults")
          /\ \/ UNCHANGED pier
             \/ \E box \in {"none", "made"} :
                    pier' = [pier EXCEPT !.conf = TRUE, !.remote = TRUE, !.box = box]
          /\ Goto(r, "cleanup")
          /\ UNCHANGED upload
    /\ UNCHANGED <<uploadSessions, asks, files, client, h>>

\* Mutant: the volume stays.
ErrorCleanupVolumeNot(r) ==
    /\ At(r, "cleanup")
    /\ pier' = [NoPier EXCEPT !.vol = pier.vol, !.box = pier.box]
    /\ RemoveArchive([req EXCEPT ![r] = Idle])
    /\ h' = [h EXCEPT !.failed = TRUE]
    /\ UNCHANGED <<uploadSessions, asks, part, upload, client, left>>

\* errorCleanup, which reports nothing.  Docker keeps a volume that is in use.
ErrorCleanup(r) ==
    /\ At(r, "cleanup")
    /\ pier' = [NoPier EXCEPT !.vol = IF pier.box = "none" THEN None ELSE pier.vol,
                              !.box = pier.box]
    /\ RemoveArchive([req EXCEPT ![r] = Idle])
    /\ h' = [h EXCEPT !.failed = TRUE]
    /\ UNCHANGED <<uploadSessions, asks, part, upload, client, left>>

-----------------------------------------------------------------------------
\* Endpoints, requests and imports are in memory only.
Restart ==
    /\ Spend("restarts")
    /\ uploadSessions' = [u \in Uploads |-> Closed]
    /\ asks' = [u \in Uploads |-> <<>>]
    /\ req' = [r \in Reqs |-> Idle]
    /\ upload' = ""
    /\ client' = [u \in Uploads |-> IF client[u].pc = "wait" THEN Retried(client[u])
                                    ELSE client[u]]
    /\ h' = [h EXCEPT !.restarted = TRUE]
    /\ UNCHANGED <<files, pier>>

Init ==
    /\ left \in Budgets
    /\ uploadSessions = [u \in Uploads |-> Closed]
    /\ asks = [u \in Uploads |-> <<>>]
    /\ part = Empty
    /\ dest = None
    /\ req = [r \in Reqs |-> Idle]
    /\ pier = NoPier
    /\ upload = ""
    /\ client = [u \in Uploads |-> Asleep]
    /\ h = [overlap |-> FALSE, stale |-> FALSE, short |-> FALSE, late |-> FALSE,
            restarted |-> FALSE, failed |-> FALSE,
            imports |-> [u \in Uploads |-> 0]]

Handle(r) ==
    \/ VerifySession(r) \/ CreatePiece(r) \/ CopyPiece(r) \/ CheckChunks(r)
    \/ CreateArchive(r) \/ JoinPiece(r) \/ DropPiece(r)
    \/ ReadOptions(r) \/ ClearUploadSession(r)

Import(r) ==
    \/ CreatePier(r) \/ Prepare(r) \/ Extract(r) \/ Restructure(r) \/ Boot(r)
    \/ ShipReady(r) \/ ToggleRemote(r) \/ ErrorCleanup(r)

Next ==
    \/ \E u \in Uploads : BeginUpload(u) \/ Send(u) \/ LoseConnection(u) \/ OpenEndpoint(u)
    \/ \E r \in Reqs : Handle(r) \/ Import(r)
    \/ Reset \/ Restart

Spec == Init /\ [][Next]_vars

\* The goroutines go on, the ship boots once it runs, and a browser that has
\* begun an upload sends it.
FairSpec ==
    /\ Spec
    /\ \A r \in Reqs : WF_vars(Handle(r) \/ Import(r))
    /\ WF_vars(\E u \in Uploads : Send(u) \/ OpenEndpoint(u))

-----------------------------------------------------------------------------
(* Properties *)

\* Nothing out of the ordinary has happened: requests one after the other, no
\* remains of an earlier upload, no failed write, no late option, no restart.
Disturbed == h.overlap \/ h.stale \/ h.short \/ h.late \/ h.restarted

Request ==
    [pc : {"idle", "check", "body", "copy", "stat", "open", "join", "drop", "read", "clear"}
            \cup Importing,
     up : Nat, k : Nat, broken : BOOLEAN, holds : BOOLEAN, remote : BOOLEAN]
Client ==
    [pc : {"idle", "send", "wait", "failed", "done"}, next : Nat, tries : 0..RetryLimit,
     req : Reqs \cup {None}, remote : BOOLEAN]
Pier ==
    [conf : BOOLEAN, vol : Contents, box : {"none", "made", "up"}, remote : BOOLEAN]
History ==
    [overlap : BOOLEAN, stale : BOOLEAN, short : BOOLEAN, late : BOOLEAN,
     restarted : BOOLEAN, failed : BOOLEAN, imports : [Uploads -> 0..2]]

\* The variables keep their types: a browser never asks for a piece that is not
\* there, waits for a request when it has one, and who writes the archive finds it.
TypeOK ==
    /\ uploadSessions \in [Uploads -> [open : BOOLEAN, remote : BOOLEAN]]
    /\ asks \in [Uploads -> Seq(BOOLEAN)]
    /\ part \in [Index -> Contents]
    /\ dest = None \/ dest \in [Index -> Contents]
    /\ pier \in Pier
    /\ upload \in Stages \cup {"", "uploading", "aborted", "completed"}
    /\ h \in History /\ left \in Budget
    /\ client \in [Uploads -> Client]
    /\ \A u \in Uploads : /\ (client[u].pc # "wait") <=> (client[u].req = None)
                          /\ client[u].pc # "idle" => /\ u \in Planned
                                                      /\ client[u].next < Pieces[Arc(u)]
    /\ req \in [Reqs -> Request]
    /\ \A r \in Busy : /\ req[r].up \in Planned \cap Uploads
                       /\ req[r].k < Pieces[Arc(req[r].up)]
    /\ \A r \in Reqs : req[r].pc \in {"join", "drop"} /\ req[r].holds => dest \in [Index -> Contents]

\* The archive that is unpacked consists of the complete pieces of the upload it
\* belongs to, although pieces are found by name and counted by existence.
WholeArchive ==
    \A r \in Reqs : At(r, "extract") /\ ~Disturbed => Whole(Arc(req[r].up))

\* One upload is imported once, however often its pieces are sent again.
ImportedOnce == h.overlap \/ h.late \/ \A u \in Uploads : h.imports[u] <= 1

Imported(u) ==
    pier = [conf |-> TRUE, vol |-> Arc(u), box |-> "up",
            remote |-> left.wg /\ client[u].remote]

\* What is shown as completed is there: the ship of the archive, running, with
\* the option chosen in the browser.
CompletedIsReal ==
    upload = "completed" /\ ~Disturbed => \E u \in Planned : Imported(u)

\* When nothing is in progress, an import has left the whole ship or nothing,
\* unless it failed with a container there, for which docker keeps the volume;
\* and no archive is left.
AllOrNothing ==
    Busy = {} /\ ~Disturbed =>
        /\ pier = NoPier \/ (h.failed /\ pier.box # "none") \/ \E u \in Planned : Imported(u)
        /\ dest = None

\* An upload that has begun is imported, or the browser has given up on it, or
\* the page has shown it as aborted: it does not just stop, unless another one
\* joins its pieces, or the program restarts while a late handler joins them.
UploadEnds ==
    \A u \in Uploads :
        client[u].pc = "send" ~> \/ client[u].pc = "failed" \/ upload = "aborted"
                                \/ h.imports[u] > 0 \/ h.stale
                                \/ (h.overlap /\ h.restarted)

\* The page does not show a stage of an import for ever: the import ends and
\* says so, or a restart ends it, except after errorCleanup, which leaves the
\* last stage on the page, and when another import takes the container away.
ProgressEnds == upload \in Stages ~> upload \notin Stages \/ h.failed \/ h.overlap
=============================================================================
