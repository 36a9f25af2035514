---------------------------- MODULE AppConnection ----------------------------
(***************************************************************************)
(* The connection of the app: ConnectionNotifier (the button, aborting, a  *)
(* change of the active profile), its repository, and start, stop and      *)
(* restart of HiddifyCoreService, over the calls of the background core.   *)
(* Each is one Dart task that suspends at its awaits.  StartService and    *)
(* Stop of the core exclude each other by its lock.  With Hosted the core  *)
(* lives in a service that the app starts and closes (Android), otherwise  *)
(* in the process of the app (desktop).                                    *)
(***************************************************************************)
EXTENDS Naturals, Sequences

CONSTANTS
    Profiles,       \* profiles the user has
    Disconnects,    \* calls of _disconnect
    Reconnects,     \* calls of reconnect that passed its guard
    MaxActs,        \* bound on what the user does
    Hosted,         \* the core lives in a service of its own
    UserWaits,      \* the user acts only when nothing is under way
    ProfileWaits    \* the profile changes only when nothing is under way

\* What the constants stand for.
ActAssumption ==
    /\ MaxActs \in Nat /\ {Hosted, UserWaits, ProfileWaits} \subseteq BOOLEAN
    /\ Disconnects \cap Reconnects = {}

VARIABLES
    profile,    \* the active profile
    core,       \* CoreState: "STOPPED", "STARTING" or "STARTED"
    runs,       \* the profile the core was last started with
    up,         \* the gRPC server of the background core answers
    feed,       \* statuses on their way from the core to statusController
    shown,      \* state of the notifier
    pc,         \* where each call is
    takes,      \* the profile a connect or a reconnect was called with
    wanted,     \* the last wish of the user: connected or not
    acts        \* what the user has done so far

vars == <<profile, core, runs, up, feed, shown, pc, takes, wanted, acts>>

Connect == "connect"    \* the one call _singleStart lets through
Calls == {Connect} \cup Disconnects \cup Reconnects
Starters == {Connect} \cup Reconnects

Init ==
    /\ profile \in Profiles /\ runs = profile
    /\ core = "STOPPED" /\ up = ~Hosted /\ feed = << >> /\ shown = "Disconnected"
    /\ pc = [c \in Calls |-> "idle"]
    /\ takes = [c \in Starters |-> profile]
    /\ wanted = FALSE /\ acts = 0

Busy(c) == pc[c] \notin {"idle", "done"}
AtRest == feed = << >> /\ \A c \in Calls : ~Busy(c)
Locked == core = "STARTING"

Goto(c, p) == pc' = [pc EXCEPT ![c] = p]

\* SetCoreStatus: the status and its event.
SetCore(v) == core' = v /\ feed' = IF up THEN Append(feed, v) ELSE feed

\* After its call a connect signals a restart: the notifier listens again, and
\* the core tells its status first.
Relistens(c) == c = Connect
SetCoreFor(c, v) ==
    /\ core' = v
    /\ feed' = IF up /\ Relistens(c) THEN <<v>> ELSE IF up THEN Append(feed, v) ELSE feed

StatusOf(v) ==
    CASE v = "STOPPED" -> "Disconnected" [] v = "STARTING" -> "Connecting" [] OTHER -> "Connected"

\* statusController emits what the core has told.
Deliver ==
    /\ feed # << >>
    /\ shown' = StatusOf(Head(feed))
    /\ feed' = Tail(feed)
    /\ UNCHANGED <<profile, core, runs, up, pc, takes, wanted, acts>>

-----------------------------------------------------------------------------
(* The user. *)

Act == acts < MaxActs /\ acts' = acts + 1 /\ (UserWaits => AtRest)

OneConnect == ~Busy(Connect)

\* _connect from the button; a connect that runs makes it ignored.
ToggleOn ==
    /\ Act /\ shown \in {"Disconnected", "Error"}
    /\ wanted' = TRUE
    /\ IF OneConnect THEN Goto(Connect, "profile") ELSE UNCHANGED pc
    /\ UNCHANGED <<profile, core, runs, up, feed, shown, takes>>

Disconnect(statuses) ==
    /\ shown \in statuses
    /\ wanted' = FALSE
    /\ \E d \in Disconnects : pc[d] = "idle" /\ Goto(d, "rpc")
    /\ UNCHANGED <<profile, core, runs, up, feed, shown, takes>>

ToggleOff == Act /\ Disconnect({"Connected"})
Abort == Act /\ Disconnect({"Connected", "Connecting"})

\* Mutation: the change of the profile is not listened to.
NoReconnect == FALSE
MayReconnect == shown = "Connected"

\* Another profile becomes the active one: reconnect does nothing unless connected.
ChangeProfile(p) ==
    /\ acts < MaxActs /\ acts' = acts + 1 /\ (UserWaits \/ ProfileWaits => AtRest)
    /\ p # profile
    /\ profile' = p
    /\ IF MayReconnect
       THEN \E r \in Reconnects :
              /\ pc[r] = "idle" /\ Goto(r, "stop")
              /\ takes' = [takes EXCEPT ![r] = p]
       ELSE UNCHANGED <<pc, takes>>
    /\ UNCHANGED <<core, runs, up, feed, shown, wanted>>

-----------------------------------------------------------------------------
(* StartService of the core, called by a connect and by Restart. *)

StartBegins(c) ==
    /\ core = "STOPPED"
    /\ SetCore("STARTING")
    /\ runs' = takes[c]
    /\ Goto(c, "starting")

\* ALREADY_STARTED is no failure of a connect, but one of a reconnect.
AlreadyStarted(c) ==
    /\ core = "STARTED"
    /\ Goto(c, IF c = Connect THEN "done" ELSE "failed")
    /\ feed' = IF Relistens(c) THEN <<core>> ELSE feed
    /\ UNCHANGED <<core, runs>>

StartEnds(c) ==
    /\ pc[c] = "starting"
    /\ Goto(c, "done")
    /\ SetCoreFor(c, "STARTED")
    /\ UNCHANGED <<profile, runs, up, shown, takes, wanted, acts>>

\* errorWrapper publishes STOPPED, and the call ends with an error.
StartFails(c) ==
    /\ pc[c] = "starting"
    /\ Goto(c, "failed")
    /\ SetCoreFor(c, "STOPPED")
    /\ UNCHANGED <<profile, runs, up, shown, takes, wanted, acts>>

\* A connect shows it after the user has closed its dialog, which outlasts the
\* statuses on their way.
ShowError(c) ==
    /\ pc[c] = "failed" /\ (c = Connect => feed = << >>)
    /\ Goto(c, "done")
    /\ shown' = "Error"
    /\ UNCHANGED <<profile, core, runs, up, feed, takes, wanted, acts>>

-----------------------------------------------------------------------------
(* _connectThrottled, connect of the repository and start of the service. *)

\* No active profile, an expired one, or the options cannot be applied.
NotConnecting ==
    /\ pc[Connect] = "profile"
    /\ Goto(Connect, "failed")
    /\ UNCHANGED <<profile, core, runs, up, feed, shown, takes, wanted, acts>>

ReadProfile ==
    /\ pc[Connect] = "profile"
    /\ takes' = [takes EXCEPT ![Connect] = profile]
    /\ Goto(Connect, "options")
    /\ UNCHANGED <<profile, core, runs, up, feed, shown, wanted, acts>>

\* setup and changeOptions have ended; start emits starting.
BeginStart ==
    /\ pc[Connect] = "options"
    /\ shown' = "Connecting"
    /\ Goto(Connect, IF Hosted THEN "clear" ELSE "rpc")
    /\ UNCHANGED <<profile, core, runs, up, feed, takes, wanted, acts>>

\* Closing the service stops its core, which waits for the lock, and its streams.
CloseService ==
    /\ ~Locked
    /\ core' = "STOPPED" /\ up' = FALSE /\ feed' = << >>

\* setupBackground stops a service that runs, then starts it.
ClearBackground ==
    /\ pc[Connect] = "clear"
    /\ CloseService
    /\ Goto(Connect, "service")
    /\ UNCHANGED <<profile, runs, shown, takes, wanted, acts>>

BackgroundFails ==
    /\ pc[Connect] = "service"
    /\ shown' = "Disconnected"
    /\ Goto(Connect, "failed")
    /\ UNCHANGED <<profile, core, runs, up, feed, takes, wanted, acts>>

\* The service is up, and startListeningStatus gets its status first.
BackgroundReady ==
    /\ pc[Connect] = "service"
    /\ up' = TRUE
    /\ feed' = <<core>>
    /\ Goto(Connect, "rpc")
    /\ UNCHANGED <<profile, core, runs, shown, takes, wanted, acts>>

ConnectRpc ==
    /\ pc[Connect] = "rpc" /\ up
    /\ StartBegins(Connect) \/ AlreadyStarted(Connect)
    /\ UNCHANGED <<profile, up, shown, takes, wanted, acts>>

\* The service was closed in between.
Unavailable ==
    /\ pc[Connect] = "rpc" /\ ~up
    /\ Goto(Connect, "failed")
    /\ UNCHANGED <<profile, core, runs, up, feed, shown, takes, wanted, acts>>

ConnectStep ==
    \/ NotConnecting \/ ReadProfile \/ BeginStart
    \/ ClearBackground \/ BackgroundFails \/ BackgroundReady
    \/ ConnectRpc \/ Unavailable

-----------------------------------------------------------------------------
(* stop of the service. *)

CoreAfterStop == "STOPPED"

StopRpc(d) ==
    /\ pc[d] = "rpc"
    /\ \/ up /\ ~Locked /\ SetCore(CoreAfterStop)
       \/ ~up /\ UNCHANGED <<core, feed>>
    /\ Goto(d, IF Hosted THEN "service" ELSE "tell")
    /\ UNCHANGED <<profile, runs, up, shown, takes, wanted, acts>>

\* A part could not be closed: errorWrapper publishes STOPPED, and stop goes on
\* with the error.
StopFails(d) ==
    /\ pc[d] = "rpc" /\ up /\ ~Locked
    /\ SetCore("STOPPED")
    /\ Goto(d, IF Hosted THEN "serviceErr" ELSE "tellErr")
    /\ UNCHANGED <<profile, runs, up, shown, takes, wanted, acts>>

StopService(d) ==
    /\ pc[d] \in {"service", "serviceErr"}
    /\ CloseService
    /\ Goto(d, IF pc[d] = "service" THEN "tell" ELSE "tellErr")
    /\ UNCHANGED <<profile, runs, shown, takes, wanted, acts>>

\* stop emits stopped, and _disconnect shows an error; which comes last is open.
TellStopped(d) ==
    /\ pc[d] \in {"tell", "tellErr"}
    /\ shown' \in {"Disconnected"} \cup IF pc[d] = "tellErr" THEN {"Error"} ELSE {}
    /\ Goto(d, "done")
    /\ UNCHANGED <<profile, core, runs, up, feed, takes, wanted, acts>>

DisconnectStep(d) == StopRpc(d) \/ StopFails(d) \/ StopService(d) \/ TellStopped(d)

-----------------------------------------------------------------------------
(* restart of the service: Restart of the core is a stop and a start. *)

RestartStops(r) ==
    /\ pc[r] = "stop" /\ up /\ ~Locked
    /\ SetCore("STOPPED")
    /\ Goto(r, "start")
    /\ UNCHANGED <<profile, runs, up, shown, takes, wanted, acts>>

RestartStarts(r) ==
    /\ pc[r] = "start" /\ up
    /\ StartBegins(r) \/ AlreadyStarted(r)
    /\ UNCHANGED <<profile, up, shown, takes, wanted, acts>>

\* A call that finds no service is no failure of a restart.
RestartUnavailable(r) ==
    /\ pc[r] \in {"stop", "start"} /\ ~up
    /\ Goto(r, "done")
    /\ UNCHANGED <<profile, core, runs, up, feed, shown, takes, wanted, acts>>

ReconnectStep(r) == RestartStops(r) \/ RestartStarts(r) \/ RestartUnavailable(r)

-----------------------------------------------------------------------------
User == ToggleOn \/ ToggleOff \/ Abort \/ \E p \in Profiles : ChangeProfile(p)

Next ==
    \/ User \/ Deliver \/ ConnectStep
    \/ \E c \in Starters : StartEnds(c) \/ StartFails(c) \/ ShowError(c)
    \/ \E d \in Disconnects : DisconnectStep(d)
    \/ \E r \in Reconnects : ReconnectStep(r)

Spec == Init /\ [][Next]_vars

-----------------------------------------------------------------------------
TypeOK ==
    /\ profile \in Profiles /\ runs \in Profiles /\ takes \in [Starters -> Profiles]
    /\ core \in {"STOPPED", "STARTING", "STARTED"}
    /\ \A i \in 1..Len(feed) : feed[i] \in {"STOPPED", "STARTING", "STARTED"}
    /\ shown \in {"Disconnected", "Connecting", "Connected", "Error"}
    /\ pc \in [Calls -> {"idle", "profile", "options", "clear", "service", "rpc", "starting",
                         "failed", "serviceErr", "tell", "tellErr", "stop", "start", "done"}]
    /\ up \in BOOLEAN /\ wanted \in BOOLEAN
    \* The one start that holds the lock.
    /\ Locked <=> \E c \in Starters : pc[c] = "starting"
    /\ \A c, e \in Starters : pc[c] = "starting" /\ pc[e] = "starting" => c = e

\* When everything has settled, the app shows a connection exactly when the
\* core runs.
ShownIsCore == AtRest => (shown = "Connected" <=> core = "STARTED")

\* When everything has settled, the app is not left connecting.
NeverStuck == AtRest => shown # "Connecting"

\* When everything has settled, the core does not run after the user's last
\* wish was to disconnect.
AbortedStays == AtRest /\ ~wanted => core = "STOPPED"

\* When everything has settled, a core that runs runs the active profile.
RunsActiveProfile == AtRest /\ core = "STARTED" => runs = profile
=============================================================================
