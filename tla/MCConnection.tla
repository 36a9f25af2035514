---------------------------- MODULE MCConnection ----------------------------
(***************************************************************************)
(* The Android service, the connection of the app and its listener to the  *)
(* status of the core, side by side: "part" says which of them moves in a  *)
(* behaviour, and the others stay as they were at first.  The service and  *)
(* the connection each move in two ways: "quiet", what is asked waiting    *)
(* until nothing is under way, and "crossed", with failures.               *)
(***************************************************************************)
EXTENDS Naturals, Sequences

CONSTANTS
    Starts, Stops, MaxAsks, MaxCrossedAsks,
    Profiles, Disconnects, Reconnects, MaxActs, MaxCrossedActs,
    Listeners, States, MaxStreams, MaxChanges, MaxFails

VARIABLES
    part,
    main, value, posted, receiver, job, server, monitor, request, appStatus, appPosted,
    answer, asks,
    profile, core, runs, up, feed, shown, call, takes, wanted, acts,
    status, unsaid, entry, stream, chan, told, listen, changes, fails

Quiet == INSTANCE AndroidService WITH
    StopsCross <- FALSE, CoreMayFail <- FALSE, pc <- job
Crossed == INSTANCE AndroidService WITH
    StopsCross <- TRUE, CoreMayFail <- TRUE, MaxAsks <- MaxCrossedAsks, pc <- job
QuietApp == INSTANCE AppConnection WITH
    Hosted <- FALSE, UserWaits <- TRUE, ProfileWaits <- TRUE, pc <- call
CrossedApp == INSTANCE AppConnection WITH
    Hosted <- TRUE, UserWaits <- FALSE, ProfileWaits <- FALSE, MaxActs <- MaxCrossedActs, pc <- call
Listening == INSTANCE StatusListener WITH
    Callers <- Listeners, Crossing <- FALSE, Apart <- TRUE, core <- status, shown <- told, pc <- listen

ASSUME EventsAssumption == Quiet!EventAssumption /\ Crossed!EventAssumption
ASSUME ActsAssumption ==
    /\ QuietApp!ActAssumption /\ CrossedApp!ActAssumption
    /\ Profiles # {} /\ QuietApp!Connect \notin Disconnects \cup Reconnects
ASSUME ListenersAssumption == Listening!ListenerAssumption /\ States # {}

serviceVars == <<main, value, posted, receiver, job, server, monitor, request, appStatus,
                 appPosted, answer, asks>>
appVars == <<profile, core, runs, up, feed, shown, call, takes, wanted, acts>>
listenerVars == <<status, unsaid, entry, stream, chan, told, listen, changes, fails>>
vars == <<part, serviceVars, appVars, listenerVars>>

Init ==
    /\ part \in {"quiet", "crossed", "quiet app", "crossed app", "listening"}
    /\ Quiet!Init
    /\ profile = CHOOSE p \in Profiles : TRUE
    /\ IF part = "quiet app" THEN QuietApp!Init ELSE CrossedApp!Init
    /\ Listening!Init
    /\ part # "listening" => status = told /\ told = CHOOSE s \in States : TRUE

Next ==
    /\ UNCHANGED part
    /\ \/ /\ \/ part = "quiet" /\ Quiet!Next
             \/ part = "crossed" /\ Crossed!Next
          /\ UNCHANGED <<appVars, listenerVars>>
       \/ /\ \/ part = "quiet app" /\ QuietApp!Next
             \/ part = "crossed app" /\ CrossedApp!Next
          /\ UNCHANGED <<serviceVars, listenerVars>>
       \/ /\ part = "listening" /\ Listening!Next
          /\ UNCHANGED <<serviceVars, appVars>>

ServiceMoves == part \in {"quiet", "crossed"}

\* The main thread of the service and its coroutines go on.
Fairness ==
    /\ WF_serviceVars(ServiceMoves /\ Crossed!Main)
    /\ \A s \in Starts : WF_serviceVars(ServiceMoves /\ Crossed!StartStep(s))
    /\ \A s \in Stops : WF_serviceVars(ServiceMoves /\ Crossed!Release(s))

FairSpec == Init /\ [][Next]_vars /\ Fairness

-----------------------------------------------------------------------------
\* When the Android service has settled, it is started or stopped.  If stops
\* waited for starts to end, a started one hosts a core, watches the network and
\* hears SERVICE_CLOSE, and a stopped one hosts none.
ServiceSettles ==
    /\ part = "crossed" => Crossed!NothingHalfway
    /\ part = "quiet" => Quiet!ReadyWhenStarted /\ Quiet!ClosedWhenStopped

\* When the connection has settled, the app is not left connecting.  If the user
\* acted when nothing was under way, the app shows what the core does, which is
\* the user's last wish unless it failed, with the active profile.
ConnectionSettles ==
    /\ part = "crossed app" => CrossedApp!NeverStuck
    /\ part = "quiet app" =>
         QuietApp!ShownIsCore /\ QuietApp!AbortedStays /\ QuietApp!RunsActiveProfile

\* A start request of the app is answered, however starts and stops cross and
\* whichever step of the start fails (startServiceAndWait has no timeout), unless
\* a stop that crossed left the service Started and the request came too late to
\* hear of it and too early to see it.
RequestAnswered == request ~> (~request \/ (part = "crossed" /\ Crossed!Unheard))

\* It is told that the service is ready, if stops waited for starts to end, only
\* when there is a core for the app to send its configuration to
\* (onServiceStatusChanged).
AnswerHasCore == [][part = "quiet" => Quiet!ReadyHasCore]_vars

\* A registered stream has shown the status of the core once what was published
\* is told, and an open stream is the registered one, if calls of listenSingle
\* come one after the other and a status after the one before it was sent.
ToldIsCore == part = "listening" => Listening!ToldIsCore /\ Listening!OpenIsRegistered
=============================================================================
