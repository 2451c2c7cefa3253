------------------------------ MODULE Exports ------------------------------
(***************************************************************************)
(* The export of a ship: the case "export-ship" of handler/urbit.go and    *)
(* exporter/exporter.go, next to the packs of PackSchedule, which start    *)
(* and stop the same container.                                            *)
(*                                                                         *)
(* The handler takes the ship down, lists the token of the browser that    *)
(* asked and shows "ready".  Every page that sees "ready" posts its token; *)
(* the request waits for the ship to be down, and makes the archive.       *)
(* Written from the code; the page is the front end's ExportModal, and the *)
(* bus of transitions is taken to be immediate.                            *)
(***************************************************************************)
EXTENDS PackSchedule, Sequences

CONSTANTS
    Browsers,  \* browsers with the ship's page open, each with its own token
    None       \* no token

ASSUME NoneAssumption == None \notin Browsers

VARIABLES
    whitelist,   \* the token that is listed for the ship
    exportShip,  \* the transition of the ship's export
    page,        \* what each page shows of it, and what is on its way
    job,         \* the handlers of "export-ship", one for each browser
    request,     \* ExportHandler, one for each browser (bound)
    x            \* history

exportVars == <<whitelist, exportShip, page, job, request, x>>
allVars == <<vars, exportVars>>

Ongoing == \E b \in Browsers : job[b] # "idle" \/ request[b] # "idle"
\* Every change is sent to every page, in order.
Show(event) ==
    /\ exportShip' = event
    /\ page' = [b \in Browsers |-> [page[b] EXCEPT !.feed = Append(@, event)]]
Started == Off /\ ship'.run \in {"up", "pack"}

-----------------------------------------------------------------------------
(* UrbitHandler *)

\* The button is enabled while the page shows no export.
AskExport(b) ==
    /\ page[b].shows = "" /\ job[b] = "idle" /\ Spend("exports")
    /\ job' = [job EXCEPT ![b] = "mark"]
    /\ Show("stopping")
    /\ x' = [x EXCEPT !.overlap = @ \/ Ongoing \/ \E c \in Browsers : page[c].feed # <<>>]
    /\ UNCHANGED <<now, conf, ship, loop, timer, scheduledPacks, want, h>>
    /\ UNCHANGED <<whitelist, request>>

MarkNoboot(b) ==
    /\ job[b] = "mark"
    /\ Set([conf EXCEPT !.boot = "noboot"])
    /\ h' = [h EXCEPT !.raced = Raced]
    /\ job' = [job EXCEPT ![b] = "stop"]
    /\ UNCHANGED <<now, ship, loop, timer, scheduledPacks, left>>
    /\ UNCHANGED <<whitelist, exportShip, page, request, x>>

StopShip(b) ==
    /\ job[b] = "stop" /\ ship.run # "gone"
    /\ TakeDown
    /\ job' = [job EXCEPT ![b] = "list"]
    /\ UNCHANGED <<now, conf, loop, timer, scheduledPacks, want, h, left>>
    /\ UNCHANGED <<whitelist, exportShip, page, request, x>>

\* The pier file cannot be written, docker does not answer, or there is no
\* container to stop: the handler returns and leaves "stopping" on show.
Abandon(b) ==
    /\ \/ job[b] \in {"mark", "stop"} /\ Spend("faults")
       \/ job[b] = "stop" /\ ship.run = "gone" /\ UNCHANGED left
    /\ job' = [job EXCEPT ![b] = "idle"]
    /\ x' = [x EXCEPT !.abandoned = TRUE]
    /\ UNCHANGED <<now, conf, ship, loop, timer, scheduledPacks, want, h>>
    /\ UNCHANGED <<whitelist, exportShip, page, request>>

WhitelistContainer(b) ==
    /\ job[b] = "list"
    /\ whitelist' = b
    /\ job' = [job EXCEPT ![b] = "show"]
    /\ UNCHANGED <<vars, exportShip, page, request, x>>

ShowReady(b) ==
    /\ job[b] = "show"
    /\ Show("ready")
    /\ job' = [job EXCEPT ![b] = "idle"]
    /\ UNCHANGED <<vars, whitelist, request, x>>

\* A change of the loom of a ship that is off deletes its container and makes
\* no new one.
EditOffShip ==
    /\ ship.run = "down" /\ conf.boot = "noboot" /\ Spend("exports")
    /\ ship' = [ship EXCEPT !.run = "gone"]
    /\ UNCHANGED <<now, conf, loop, timer, scheduledPacks, want, h, exportVars>>

-----------------------------------------------------------------------------
(* The page *)

\* A page that goes on to "ready" posts its token.
See(b) ==
    /\ page[b].feed # <<>>
    /\ LET event == Head(page[b].feed) IN
        /\ page' = [page EXCEPT ![b] = [shows |-> event, feed |-> Tail(@.feed)]]
        /\ IF event = "ready" /\ page[b].shows # event
           THEN request[b] = "idle" /\ request' = [request EXCEPT ![b] = "check"]
           ELSE UNCHANGED request
    /\ UNCHANGED <<vars, whitelist, exportShip, job, x>>

-----------------------------------------------------------------------------
(* ExportHandler *)

\* A token that is not the listed one ends what the page shows as well.
CheckToken(b) ==
    /\ request[b] = "check"
    /\ request' = [request EXCEPT ![b] = IF whitelist = b THEN "wait" ELSE "idle"]
    /\ IF whitelist \in {b, None} THEN UNCHANGED <<exportShip, page>> ELSE Show("")
    /\ UNCHANGED <<vars, whitelist, job, x>>

\* Mutant: any container that is not up will do.
WaitNotAtAll(b) ==
    /\ request[b] = "wait"
    /\ request' = [request EXCEPT ![b] = "zip"]
    /\ UNCHANGED <<vars, whitelist, exportShip, page, job, x>>

\* "Exited", which a container that is gone never is.
WaitExited(b) ==
    /\ request[b] = "wait" /\ ship.run = "down"
    /\ request' = [request EXCEPT ![b] = "zip"]
    /\ UNCHANGED <<vars, whitelist, exportShip, page, job, x>>

\* The archive is made, or docker's status or a file cannot be read.
CompressVolume(b) ==
    /\ \/ request[b] = "zip" /\ UNCHANGED left
       \/ request[b] \in {"wait", "zip"} /\ Spend("faults")
    /\ request' = [request EXCEPT ![b] = "unlist"]
    /\ UNCHANGED <<now, conf, ship, loop, timer, scheduledPacks, want, h>>
    /\ UNCHANGED <<whitelist, exportShip, page, job, x>>

RemoveContainerFromWhitelist(b) ==
    /\ request[b] = "unlist"
    /\ whitelist' = None
    /\ request' = [request EXCEPT ![b] = "clear"]
    /\ UNCHANGED <<vars, exportShip, page, job, x>>

\* Mutant: the transition is left as it is.
ClearNothing(b) ==
    /\ request[b] = "clear"
    /\ request' = [request EXCEPT ![b] = "idle"]
    /\ UNCHANGED <<vars, whitelist, exportShip, page, job, x>>

ClearTransition(b) ==
    /\ request[b] = "clear"
    /\ Show("")
    /\ request' = [request EXCEPT ![b] = "idle"]
    /\ UNCHANGED <<vars, whitelist, job, x>>

-----------------------------------------------------------------------------
ExportStep(b) ==
    \/ AskExport(b) \/ MarkNoboot(b) \/ StopShip(b) \/ Abandon(b)
    \/ WhitelistContainer(b) \/ ShowReady(b) \/ See(b)
    \/ CheckToken(b) \/ WaitExited(b) \/ CompressVolume(b)
    \/ RemoveContainerFromWhitelist(b) \/ ClearTransition(b)

\* What a start of the ship by a user, a timer or LoadUrbits does to an export.
PackStep ==
    /\ Step
    /\ x' = [x EXCEPT !.started = @ \/ (Started /\ Ongoing)]
    /\ UNCHANGED <<whitelist, exportShip, page, job, request>>

\* The handlers, the requests and the broadcast state are gone.
RestartAll ==
    /\ Restart
    /\ whitelist' = None /\ exportShip' = ""
    /\ page' = [b \in Browsers |-> 
                  [page[b] EXCEPT !.feed = IF page[b].shows = "" THEN <<>> ELSE <<"">>]]
    /\ job' = [b \in Browsers |-> "idle"] /\ request' = [b \in Browsers |-> "idle"]
    /\ UNCHANGED x

ExportInit ==
    /\ Init
    /\ whitelist = None /\ exportShip = ""
    /\ page = [b \in Browsers |-> [shows |-> "", feed |-> <<>>]]
    /\ job = [b \in Browsers |-> "idle"] /\ request = [b \in Browsers |-> "idle"]
    /\ x = [overlap |-> FALSE, abandoned |-> FALSE, started |-> FALSE]

ExportNext == (\E b \in Browsers : ExportStep(b)) \/ EditOffShip \/ PackStep \/ RestartAll

ExportSpec == ExportInit /\ [][ExportNext]_allVars

-----------------------------------------------------------------------------
(* Properties *)

Events == {"", "stopping", "ready"}

\* The parts of the state of both the packs and the exports.
TypeOK ==
    /\ PackTypeOK
    /\ whitelist \in Browsers \cup {None}
    /\ exportShip \in Events
    /\ page \in [Browsers -> [shows : Events, feed : Seq(Events)]]
    /\ job \in [Browsers -> {"idle", "mark", "stop", "list", "show"}]
    /\ request \in [Browsers -> {"idle", "check", "wait", "zip", "unlist", "clear"}]
    /\ x \in [overlap : BOOLEAN, abandoned : BOOLEAN, started : BOOLEAN]

\* An archive is made of a ship at rest, unless something started the ship
\* while the export was under way: the power switch, a pack, or LoadUrbits.
ZipAtRest ==
    \A b \in Browsers : request[b] = "zip" /\ ~Off => x.started

\* When no handler and no request is left, and the pages have seen all,
\* nothing shows an export any more and no token is listed, unless an export
\* was asked for before the last was over, or the handler returned early.
NothingLeft ==
    (~Ongoing /\ \A b \in Browsers : page[b].feed = <<>>) /\ ~x.overlap /\ ~x.abandoned
        => exportShip = "" /\ whitelist = None
=============================================================================
