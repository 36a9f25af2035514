------------------------------ MODULE MCAccount ------------------------------
(***************************************************************************)
(* What the app does with an account, side by side: the import of its      *)
(* subscriptions as profiles, its session, the origin document, and the    *)
(* transports of subscriptions and of requests to the panel.  "part" says  *)
(* which of them moves in a behaviour; the variables of the others have    *)
(* the value None.  The import moves in two ways, with old profiles and no *)
(* crossing update or with both.                                           *)
(***************************************************************************)
EXTENDS Integers, FiniteSets, Sequences

CONSTANTS
    None, Accounts, Profiles, Common, Legacy, Logins, MayLogout, Callers,
    Downloads, Hosts, Endpoints, Paths,
    NSubs, NUrls, Bases, Digits, MaxDigits, MaxChoices,
    Bodies, MaxRevision, MaxKills, MaxRequests, MaxShifts

VARIABLES
    part,
    title, row, pc, url, target, dups, failed, stage, doomed, acts,
    status, token, meta, db, timer, booting, login, who, sync, refresh,
    asked, waiter, importing, want, out, crossed, cleared,
    config, stored, pool, doing, writes, poolLost, kills,
    routes, proxied, inFlight, cooling, base, probing, place, host, serving, changes,
    speed, preferred, progress, racing, late, winner, requests, shifts

Rotation == INSTANCE ProfileImport WITH
    Distinct <- 1..NSubs, Updates <- FALSE, MaxActs <- 0
Update == INSTANCE ProfileImport WITH
    NUrls <- NSubs, Distinct <- 1..NSubs, Updates <- TRUE, MaxActs <- MaxChoices
Session == INSTANCE AuthSession WITH NoOne <- None
Origin == INSTANCE OriginConfig WITH MayThrow <- FALSE
Serial == INSTANCE OriginConfig WITH MayThrow <- TRUE
Downloading == INSTANCE SubscriptionDownload WITH
    MaxChanges <- 0, pc <- place, target <- serving
Transport == INSTANCE AuthTransport WITH
    MaxChanges <- MaxShifts, stage <- progress, changes <- shifts

ASSUME ImportsAssumption == Rotation!ImportAssumption /\ Update!ImportAssumption
ASSUME SessionsAssumption == Session!SessionAssumption
ASSUME OriginsAssumption ==
    /\ Origin!OriginAssumption /\ Serial!OriginAssumption
    /\ Callers # {}
ASSUME PathsAssumption == Downloading!DownloadAssumption /\ Transport!PathAssumption

importVars == <<title, row, pc, url, target, dups, failed, stage, doomed, acts>>
sessionVars == <<status, token, meta, db, timer, booting, login, who, sync, refresh,
                 asked, waiter, importing, want, out, crossed, cleared>>
originVars == <<config, stored, pool, doing, writes, poolLost, kills>>
downloadVars == <<routes, proxied, inFlight, cooling, base, probing, place, host,
                  serving, changes>>
transportVars == <<speed, preferred, progress, racing, late, winner, requests, shifts>>
vars == <<part, importVars, sessionVars, originVars, downloadVars, transportVars>>

NoImport ==
    /\ title = None /\ row = None /\ pc = None /\ url = None /\ target = None
    /\ dups = None /\ failed = None /\ stage = None /\ doomed = None /\ acts = None
NoSession ==
    /\ status = None /\ token = None /\ meta = None /\ db = None /\ timer = None
    /\ booting = None /\ login = None /\ who = None /\ sync = None /\ refresh = None
    /\ asked = None /\ waiter = None /\ importing = None /\ want = None
    /\ out = None /\ crossed = None /\ cleared = None
NoOrigin ==
    /\ config = None /\ stored = None /\ pool = None /\ doing = None
    /\ writes = None /\ poolLost = None /\ kills = None
NoDownload ==
    /\ routes = None /\ proxied = None /\ inFlight = None /\ cooling = None
    /\ base = None /\ probing = None /\ place = None /\ host = None
    /\ serving = None /\ changes = None
NoTransport ==
    /\ speed = None /\ preferred = None /\ progress = None /\ racing = None
    /\ late = None /\ winner = None /\ requests = None /\ shifts = None

Init ==
    /\ part \in {"rotation", "update", "session", "origin", "serial", "downloading", "transport"}
    /\ CASE part = "rotation" -> Rotation!Init [] part = "update" -> Update!Init [] OTHER -> NoImport
    /\ IF part = "session" THEN Session!Init ELSE NoSession
    /\ IF part \in {"origin", "serial"} THEN Origin!Init ELSE NoOrigin
    /\ IF part = "downloading" THEN Downloading!Init ELSE NoDownload
    /\ IF part = "transport" THEN Transport!Init ELSE NoTransport

Caller == CHOOSE c \in Callers : TRUE

ImportMoves ==
    \/ part = "rotation" /\ Rotation!Next
    \/ part = "update" /\ Update!Next
SessionMoves == part = "session" /\ Session!Next

\* The origin moves with calls that cross, or with one at a time.
OriginMoves ==
    \/ part = "origin" /\ Origin!Next
    \/ /\ part = "serial"
       /\ Serial!Next
       /\ \A c \in Callers \ {Caller} : UNCHANGED doing[c]

Next ==
    /\ UNCHANGED part
    /\ \/ /\ ImportMoves
          /\ UNCHANGED <<sessionVars, originVars, downloadVars, transportVars>>
       \/ /\ SessionMoves
          /\ UNCHANGED <<importVars, originVars, downloadVars, transportVars>>
       \/ /\ OriginMoves
          /\ UNCHANGED <<importVars, sessionVars, downloadVars, transportVars>>
       \/ /\ part = "downloading" /\ Downloading!Next
          /\ UNCHANGED <<importVars, sessionVars, originVars, transportVars>>
       \/ /\ part = "transport" /\ Transport!Next
          /\ UNCHANGED <<importVars, sessionVars, originVars, downloadVars>>

Spec == Init /\ [][Next]_vars

-----------------------------------------------------------------------------
\* An import whose upserts have all succeeded leaves every subscription its
\* profile, and one profile active unless the user chose among them meanwhile.
ImportedAppear ==
    /\ part = "rotation" => Rotation!ImportedAppear /\ Rotation!OneActive
    /\ part = "update" => Update!ImportedAppear

\* Nothing is taken back that should stay: no import or update deletes the last
\* profile, and in a session no refresh or synchronisation does so for want of
\* metadata or of a download that succeeds ("They are safer than deleting the
\* user's working configuration", auth_notifier.dart) but the deletion of the
\* legacy profile and imports crossed by a logout or by the import of other
\* profiles; and the origin document in use only moves forward, over deaths of the
\* process, while calls of replace do not cross.
NothingTakenBack ==
    [][/\ part = "rotation" => Rotation!KeepsOne
       /\ part = "update" => Update!KeepsOne
       /\ part = "session" => Session!KeepsOne
       /\ part = "serial" => Serial!MovesForward]_vars

\* The origin document on disk and its endpoints are those in use when no call
\* is under way, over deaths of the process and with calls that cross.
AgreeAtRest == part = "origin" => Origin!AgreeAtRest

\* While the network does not change, a download or a request to the panel fails
\* only if no route is left, whatever is cooling down, remembered or preferred,
\* and a request is answered by a quick path if there is one.
FailsOnlyWithoutPath ==
    /\ part = "downloading" => Downloading!FindsRoute
    /\ part = "transport" => Transport!FailsOnlyWithoutPath /\ Transport!QuickWins
==============================================================================
