-------------------------- MODULE ConnectionProofs --------------------------
(***************************************************************************)
(* What MCConnection checks of the Android service, the connection of the  *)
(* app and its listener, for every number of requests, calls, profiles,    *)
(* listeners, streams and statuses.                                        *)
(***************************************************************************)
EXTENDS MCConnection, SequenceTheorems, TLAPS

-----------------------------------------------------------------------------
(***************************************************************************)
(* The listener of the app to the status of the core.                      *)
(***************************************************************************)
StreamPlaces == {"unused", "new", "subscribed", "running", "closed"}

\* Only the registered stream is open, and none is while a call of listenSingle
\* awaits the end of the one before.
OneOpen ==
    /\ Listening!OpenIsRegistered
    /\ \A c \in Listeners : listen[c] = "cancelling" => Listening!Open = {}
    /\ \A c, d \in Listeners : listen[c] = "cancelling" /\ listen[d] = "cancelling" => c = d

\* What is under way is the status of the core, once; a stream to which nothing
\* is under way has told it.
OnlyCurrentTold ==
    /\ unsaid \in {<< >>, <<status>>}
    /\ \A s \in Listening!Streams :
         /\ chan[s] \in {<< >>, <<status>>}
         /\ chan[s] # << >> => s \in Listening!Subscribed /\ unsaid = << >>
         /\ stream[s] = "running" /\ unsaid = << >> /\ chan[s] = << >> => told = status

ListeningInv ==
    /\ entry \in Listening!Streams \cup {Listening!None}
    /\ stream \in [Listening!Streams -> StreamPlaces]
    /\ DOMAIN chan = Listening!Streams
    /\ listen \in [Listeners -> {"idle", "cancelling"}]
    /\ OneOpen /\ OnlyCurrentTold

LEMMA StreamsAreNumbers ==
    /\ Listening!None \notin Listening!Streams
    /\ \A s \in Listening!Streams : s \in Nat
BY ListenersAssumption DEF ListenersAssumption, Listening!ListenerAssumption, Listening!None, Listening!Streams

LEMMA OpenStreams ==
    /\ Listening!Open = {s \in Listening!Streams : stream[s] \in {"new", "subscribed", "running"}}
    /\ Listening!Subscribed = {s \in Listening!Streams : stream[s] \in {"subscribed", "running"}}
    /\ Listening!Unopened = {s \in Listening!Streams : stream[s] = "unused"}
BY DEF Listening!Open, Listening!Subscribed, Listening!Unopened

LEMMA OpenStreamsNext ==
    /\ Listening!Open' = {s \in Listening!Streams : stream'[s] \in {"new", "subscribed", "running"}}
    /\ Listening!Subscribed' = {s \in Listening!Streams : stream'[s] \in {"subscribed", "running"}}
BY DEF Listening!Open, Listening!Subscribed

LEMMA ListeningInit == Listening!Init => ListeningInv
<1> SUFFICES ASSUME Listening!Init PROVE ListeningInv
  OBVIOUS
<1>1. Listening!Open = {}
  BY DEF Listening!Init, Listening!Open
<1>2. OneOpen
  BY <1>1 DEF OneOpen, Listening!OpenIsRegistered, Listening!Init
<1>3. OnlyCurrentTold
  BY DEF OnlyCurrentTold, Listening!Init
<1> QED
  BY <1>2, <1>3 DEF ListeningInv, Listening!Init, StreamPlaces

LEMMA CoreTells ==
    ASSUME ListeningInv, NEW v, Listening!Assign(v) \/ Listening!Publish
    PROVE  ListeningInv'
<1>1. CASE Listening!Assign(v)
  <2>1. /\ unsaid' = <<v>> /\ status' = v /\ UNCHANGED <<entry, stream, chan, told, listen>>
        /\ \A r \in Listening!Streams : chan[r] = << >>
    BY <1>1 DEF Listening!Assign
  <2>2. OnlyCurrentTold'
    BY <2>1 DEF OnlyCurrentTold
  <2> QED
    BY <2>1, <2>2, OpenStreams, OpenStreamsNext DEF ListeningInv, OneOpen, Listening!OpenIsRegistered
<1>2. CASE Listening!Publish
  <2>1. /\ unsaid # << >> /\ unsaid' = << >> /\ UNCHANGED <<status, entry, stream, told, listen>>
        /\ DOMAIN chan' = Listening!Streams
        /\ \A r \in Listening!Streams :
             chan'[r] = IF r \in Listening!Subscribed /\ chan[r] = << >> THEN unsaid ELSE chan[r]
    BY <1>2 DEF Listening!Publish
  <2>2. unsaid = <<status>> /\ \A r \in Listening!Streams : chan[r] = << >>
    BY <2>1 DEF ListeningInv, OnlyCurrentTold
  <2>3. Listening!Subscribed' = Listening!Subscribed /\ Listening!Open' = Listening!Open
    BY <2>1, OpenStreams, OpenStreamsNext
  <2>4. OnlyCurrentTold'
    <3> SUFFICES ASSUME NEW r \in Listening!Streams
                 PROVE  /\ chan'[r] \in {<< >>, <<status>>}
                        /\ chan'[r] # << >> => r \in Listening!Subscribed
                        /\ stream[r] = "running" => chan'[r] # << >>
      BY <2>1, <2>3 DEF OnlyCurrentTold
    <3>1. <<status>> # << >>
      OBVIOUS
    <3>2. stream[r] = "running" => r \in Listening!Subscribed
      BY OpenStreams
    <3> QED
      BY <2>1, <2>2, <3>1, <3>2
  <2> QED
    BY <2>1, <2>3, <2>4 DEF ListeningInv, OneOpen, Listening!OpenIsRegistered
<1> QED
  BY <1>1, <1>2

LEMMA StreamTells ==
    ASSUME ListeningInv, NEW s \in Listening!Streams,
           Listening!Subscribe(s) \/ Listening!TellFirst(s) \/ Listening!Tell(s)
    PROVE  ListeningInv'
<1>1. CASE Listening!Subscribe(s)
  <2>1. /\ stream[s] = "new" /\ stream' = [stream EXCEPT ![s] = "subscribed"]
        /\ UNCHANGED <<status, unsaid, entry, chan, told, listen>>
    BY <1>1 DEF Listening!Subscribe
  <2>2. /\ stream' \in [Listening!Streams -> StreamPlaces] /\ stream'[s] = "subscribed"
        /\ \A r \in Listening!Streams \ {s} : stream'[r] = stream[r]
    BY <2>1 DEF ListeningInv, StreamPlaces
  <2>3. Listening!Open' = Listening!Open /\ Listening!Subscribed' = Listening!Subscribed \cup {s}
    BY <2>1, <2>2, OpenStreams, OpenStreamsNext
  <2>4. OnlyCurrentTold'
    BY <2>1, <2>2, <2>3 DEF ListeningInv, OnlyCurrentTold
  <2> QED
    BY <2>1, <2>2, <2>3, <2>4 DEF ListeningInv, OneOpen, Listening!OpenIsRegistered
<1>2. CASE Listening!TellFirst(s)
  <2>1. /\ stream[s] = "subscribed" /\ stream' = [stream EXCEPT ![s] = "running"]
        /\ told' = status /\ UNCHANGED <<status, unsaid, entry, chan, listen>>
    BY <1>2 DEF Listening!TellFirst, Listening!FirstStatus
  <2>2. /\ stream' \in [Listening!Streams -> StreamPlaces] /\ stream'[s] = "running"
        /\ \A r \in Listening!Streams \ {s} : stream'[r] = stream[r]
    BY <2>1 DEF ListeningInv, StreamPlaces
  <2>3. Listening!Open' = Listening!Open /\ Listening!Subscribed' = Listening!Subscribed
    BY <2>1, <2>2, OpenStreams, OpenStreamsNext
  <2>4. OnlyCurrentTold'
    BY <2>1, <2>2, <2>3 DEF ListeningInv, OnlyCurrentTold
  <2> QED
    BY <2>1, <2>2, <2>3, <2>4 DEF ListeningInv, OneOpen, Listening!OpenIsRegistered
<1>3. CASE Listening!Tell(s)
  <2>1. /\ chan[s] # << >> /\ told' = Head(chan[s])
        /\ chan' = [chan EXCEPT ![s] = << >>]
        /\ UNCHANGED <<status, unsaid, entry, stream, listen>>
    BY <1>3 DEF Listening!Tell
  <2>2. chan[s] = <<status>> /\ unsaid = << >>
    BY <2>1 DEF ListeningInv, OnlyCurrentTold
  <2>3. told' = status
    BY <2>1, <2>2
  <2>4. /\ DOMAIN chan' = Listening!Streams /\ chan'[s] = << >>
        /\ \A r \in Listening!Streams \ {s} : chan'[r] = chan[r]
    BY <2>1 DEF ListeningInv
  <2>5. Listening!Open' = Listening!Open /\ Listening!Subscribed' = Listening!Subscribed
    BY <2>1, OpenStreams, OpenStreamsNext
  <2>6. OnlyCurrentTold'
    BY <2>1, <2>2, <2>3, <2>4, <2>5 DEF ListeningInv, OnlyCurrentTold
  <2> QED
    BY <2>1, <2>4, <2>5, <2>6 DEF ListeningInv, OneOpen, Listening!OpenIsRegistered
<1> QED
  BY <1>1, <1>2, <1>3

\* A stream is opened when none is, by the only call that is under way.
LEMMA RegisterKeeps ==
    ASSUME ListeningInv, NEW c \in Listeners, Listening!Register(c, stream),
           Listening!Open = {}, \A d \in Listeners \ {c} : listen[d] = "idle",
           UNCHANGED <<status, unsaid, chan, told>>
    PROVE  ListeningInv'
<1>1. PICK s \in Listening!Unopened :
        stream' = [stream EXCEPT ![s] = "new"] /\ entry' = s /\ listen' = [listen EXCEPT ![c] = "idle"]
  BY DEF Listening!Register
<1>2. s \in Listening!Streams /\ stream[s] = "unused"
  BY <1>1, OpenStreams
<1>3. /\ stream' \in [Listening!Streams -> StreamPlaces] /\ stream'[s] = "new"
      /\ \A r \in Listening!Streams \ {s} : stream'[r] = stream[r]
  BY <1>1, <1>2 DEF ListeningInv, StreamPlaces
<1>4. Listening!Open' = {s} /\ Listening!Subscribed = {} /\ Listening!Subscribed' = {}
  BY <1>2, <1>3, OpenStreams, OpenStreamsNext
<1>5. listen' \in [Listeners -> {"idle", "cancelling"}] /\ \A d \in Listeners : listen'[d] = "idle"
  BY <1>1 DEF ListeningInv
<1>6. OnlyCurrentTold'
  BY <1>3, <1>4 DEF ListeningInv, OnlyCurrentTold
<1> QED
  BY <1>1, <1>2, <1>3, <1>4, <1>5, <1>6 DEF ListeningInv, OneOpen, Listening!OpenIsRegistered

\* Cancelling what is registered closes every stream that is open.
LEMMA ClosingKeeps ==
    ASSUME ListeningInv,
           stream' \in [Listening!Streams -> StreamPlaces], DOMAIN chan' = Listening!Streams,
           \A r \in Listening!Streams : stream'[r] # stream[r] => stream'[r] = "closed",
           \A r \in Listening!Open : stream'[r] = "closed" /\ chan'[r] = << >>,
           \A r \in Listening!Streams : chan'[r] \in {chan[r], << >>},
           listen' \in [Listeners -> {"idle", "cancelling"}],
           entry' \in Listening!Streams \cup {Listening!None},
           \A c, d \in Listeners : listen'[c] = "cancelling" /\ listen'[d] = "cancelling" => c = d,
           UNCHANGED <<status, unsaid, told>>
    PROVE  ListeningInv'
<1>1. Listening!Open' = {} /\ Listening!Subscribed' = {} /\ Listening!Subscribed \subseteq Listening!Open
  BY OpenStreams, OpenStreamsNext
<1>2. \A r \in Listening!Streams : chan'[r] = << >> /\ stream'[r] # "running"
  BY <1>1, OpenStreams, OpenStreamsNext DEF ListeningInv, OnlyCurrentTold
<1>3. OnlyCurrentTold'
  BY <1>2 DEF ListeningInv, OnlyCurrentTold
<1> QED
  BY <1>1, <1>3 DEF ListeningInv, OneOpen, Listening!OpenIsRegistered

LEMMA ListenKeeps ==
    ASSUME ListeningInv, NEW c \in Listeners, Listening!Listen(c)
    PROVE  ListeningInv'
<1>1. (\A d \in Listeners : listen[d] = "idle") /\ UNCHANGED <<status, unsaid, told>>
  BY DEF Listening!Listen
<1>2. CASE entry = Listening!None
  <2>1. Listening!Register(c, stream) /\ UNCHANGED chan
    BY <1>2 DEF Listening!Listen
  <2>2. Listening!Open = {}
    BY <1>2, OpenStreams, StreamsAreNumbers DEF ListeningInv, OneOpen, Listening!OpenIsRegistered
  <2> QED
    BY <1>1, <2>1, <2>2, RegisterKeeps
<1>3. CASE entry # Listening!None
  <2>1. /\ stream' = [stream EXCEPT ![entry] = "closed"]
        /\ chan' = [chan EXCEPT ![entry] = << >>]
        /\ listen' = [listen EXCEPT ![c] = "cancelling"] /\ entry' = entry
    BY <1>3 DEF Listening!Listen, Listening!Cancelled
  <2>2. entry \in Listening!Streams /\ Listening!Open \subseteq {entry}
    BY <1>3 DEF ListeningInv, OneOpen, Listening!OpenIsRegistered
  <2>3. /\ stream' \in [Listening!Streams -> StreamPlaces] /\ DOMAIN chan' = Listening!Streams
        /\ stream'[entry] = "closed" /\ chan'[entry] = << >>
        /\ \A r \in Listening!Streams \ {entry} : stream'[r] = stream[r] /\ chan'[r] = chan[r]
    BY <2>1, <2>2 DEF ListeningInv, StreamPlaces
  <2>4. /\ listen' \in [Listeners -> {"idle", "cancelling"}]
        /\ \A d, e \in Listeners : listen'[d] = "cancelling" /\ listen'[e] = "cancelling" => d = e
    BY <1>1, <2>1 DEF ListeningInv
  <2> QED
    BY <1>1, <2>1, <2>2, <2>3, <2>4, ClosingKeeps
<1> QED
  BY <1>2, <1>3

LEMMA FailKeeps ==
    ASSUME ListeningInv, NEW s \in Listening!Streams, Listening!Fail(s)
    PROVE  ListeningInv'
<1>1. /\ s \in Listening!Open /\ entry' = Listening!None /\ UNCHANGED <<status, unsaid, told, listen>>
      /\ stream' = Listening!Cancelled(Listening!Cancelled(stream, entry), s)
      /\ chan' = [r \in Listening!Streams |-> IF r \in {entry, s} THEN << >> ELSE chan[r]]
  BY DEF Listening!Fail
<1>2. Listening!Open = {s} /\ entry = s /\ s # Listening!None
  BY <1>1, StreamsAreNumbers DEF ListeningInv, OneOpen, Listening!OpenIsRegistered
<1>3. stream' = [[stream EXCEPT ![s] = "closed"] EXCEPT ![s] = "closed"]
  BY <1>1, <1>2 DEF Listening!Cancelled
<1>4. /\ stream' \in [Listening!Streams -> StreamPlaces] /\ stream'[s] = "closed"
      /\ \A r \in Listening!Streams \ {s} : stream'[r] = stream[r]
  BY <1>3 DEF ListeningInv, StreamPlaces
<1>5. /\ DOMAIN chan' = Listening!Streams /\ chan'[s] = << >>
      /\ \A r \in Listening!Streams : chan'[r] \in {chan[r], << >>}
  BY <1>1
<1>6. /\ listen' \in [Listeners -> {"idle", "cancelling"}]
      /\ \A d, e \in Listeners : listen'[d] = "cancelling" /\ listen'[e] = "cancelling" => d = e
  BY <1>1 DEF ListeningInv, OneOpen
<1> QED
  BY <1>1, <1>2, <1>4, <1>5, <1>6, ClosingKeeps

LEMMA ListeningNext == ListeningInv /\ [Listening!Next]_listenerVars => ListeningInv'
<1> SUFFICES ASSUME ListeningInv, [Listening!Next]_listenerVars PROVE ListeningInv'
  OBVIOUS
<1>1. CASE UNCHANGED listenerVars
  <2>1. Listening!Open' = Listening!Open /\ Listening!Subscribed' = Listening!Subscribed
    BY <1>1, OpenStreams, OpenStreamsNext DEF listenerVars
  <2> QED
    BY <1>1, <2>1 DEF listenerVars, ListeningInv, OneOpen, OnlyCurrentTold, Listening!OpenIsRegistered
<1>2. ASSUME NEW c \in Listeners, Listening!Resume(c) PROVE ListeningInv'
  <2>1. /\ listen[c] = "cancelling" /\ Listening!Register(c, stream)
        /\ UNCHANGED <<status, unsaid, chan, told>>
    BY <1>2 DEF Listening!Resume
  <2>2. Listening!Open = {} /\ \A d \in Listeners \ {c} : listen[d] = "idle"
    BY <2>1 DEF ListeningInv, OneOpen
  <2> QED
    BY <2>1, <2>2, RegisterKeeps
<1> QED
  BY <1>1, <1>2, CoreTells, StreamTells, ListenKeeps, FailKeeps DEF Listening!Next

LEMMA ListeningTold == ListeningInv => Listening!ToldIsCore /\ Listening!OpenIsRegistered
BY DEF ListeningInv, OneOpen, OnlyCurrentTold, Listening!ToldIsCore

-----------------------------------------------------------------------------
(***************************************************************************)
(* The connection of the app.                                              *)
(***************************************************************************)
Connect == QuietApp!Connect
Calls == QuietApp!Calls
Starters == QuietApp!Starters
CoreStates == {"STOPPED", "STARTING", "STARTED"}
CallPlaces == {"idle", "profile", "options", "clear", "service", "rpc", "starting",
               "failed", "serviceErr", "tell", "tellErr", "stop", "start", "done"}

Shown == {"Disconnected", "Connecting", "Connected", "Error"}

\* The last status on its way is that of the core.
FeedEnds(f, v, alive) == f \in Seq(CoreStates) /\ (f # << >> => alive /\ f[Len(f)] = v)

\* STARTING has one call behind it, while the background core is up.
AppTyped ==
    /\ up \in BOOLEAN /\ core \in CoreStates /\ shown \in Shown
    /\ FeedEnds(feed, core, up)
    /\ call \in [Calls -> CallPlaces]
    /\ DOMAIN takes = Starters
    /\ core = "STARTING" => \E c \in Starters : call[c] = "starting"
    /\ \A c \in Calls : call[c] = "starting" => core = "STARTING" /\ up
    /\ \A c, e \in Calls : call[c] = "starting" /\ call[e] = "starting" => c = e

\* An app that shows "Connecting" has a status to hear or a call that will show
\* something else.
ConnectingIsHeld ==
    shown = "Connecting" =>
        \/ feed # << >> \/ core = "STARTING"
        \/ call[Connect] \in {"clear", "service", "rpc", "failed"}
        \/ \E d \in Disconnects : call[d] \in {"service", "serviceErr", "tell", "tellErr"}

CrossedAppInv == AppTyped /\ ConnectingIsHeld

\* What the one call under way has come to.
CallKnows(c) ==
    /\ c = Connect => call[c] \in {"idle", "profile", "options", "rpc", "starting", "failed", "done"}
    /\ c \in Disconnects => call[c] \in {"idle", "rpc", "tell", "tellErr", "done"}
    /\ c \in Reconnects => call[c] \in {"idle", "stop", "start", "starting", "failed", "done"}
    /\ call[c] \in {"profile", "options", "failed", "tell", "tellErr", "start"} => core = "STOPPED"
    /\ c = Connect /\ call[c] = "rpc" => core = "STOPPED"
    /\ c \in Disconnects /\ call[c] = "rpc" => core # "STARTING"
    /\ call[c] = "stop" => core = "STARTED"
    /\ c = Connect /\ call[c] \in {"profile", "options", "rpc", "failed"} => (call[c] = "failed" \/ feed = << >>)
    /\ call[c] \in {"options", "stop", "start"} \/ (c = Connect /\ call[c] = "rpc") => takes[c] = profile
    /\ c \in Starters /\ QuietApp!Busy(c) => wanted

OneBusy == \A c, e \in Calls : QuietApp!Busy(c) /\ QuietApp!Busy(e) => c = e

\* What the app shows and the core runs once nothing is under way, and before,
\* as far as the call under way does not stand for it.
WishesKept ==
    /\ QuietApp!AtRest => (shown = "Connected" <=> core = "STARTED")
    /\ ~wanted /\ core # "STOPPED" => \E d \in Disconnects : call[d] = "rpc"
    /\ core # "STOPPED" /\ (\A r \in Reconnects : call[r] # "stop") => runs = profile

QuietAppInv ==
    /\ AppTyped /\ up
    /\ OneBusy /\ WishesKept
    /\ \A c \in Calls : CallKnows(c)

LEMMA AppNames ==
    /\ Connect \in Starters /\ Calls = Starters \cup Disconnects
    /\ Connect \notin Disconnects \cup Reconnects /\ Disconnects \cap Reconnects = {}
    /\ Disconnects \subseteq Calls /\ Reconnects \subseteq Starters /\ Starters \subseteq Calls
    /\ Starters = {Connect} \cup Reconnects
    /\ CrossedApp!Connect = Connect /\ CrossedApp!Calls = Calls /\ CrossedApp!Starters = Starters
BY ActsAssumption
DEF ActsAssumption, QuietApp!ActAssumption, Connect, Calls, Starters,
    QuietApp!Connect, QuietApp!Calls, QuietApp!Starters,
    CrossedApp!Connect, CrossedApp!Calls, CrossedApp!Starters

LEMMA FeedTail ==
    ASSUME NEW f, NEW v, NEW alive, FeedEnds(f, v, alive), f # << >>
    PROVE  /\ FeedEnds(Tail(f), v, alive)
           /\ Tail(f) = << >> => Head(f) = v
           /\ Head(f) \in CoreStates
<1>1. /\ Len(f) \in Nat \ {0} /\ Tail(f) \in Seq(CoreStates) /\ Len(Tail(f)) = Len(f) - 1
      /\ Head(f) = f[1] /\ Head(f) \in CoreStates
      /\ \A i \in 1..Len(Tail(f)) : Tail(f)[i] = f[i + 1]
  BY HeadTailProperties, EmptySeq DEF FeedEnds
<1>2. Tail(f) = << >> => Len(Tail(f)) = 0
  BY EmptySeq
<1>3. Tail(f) # << >> => Len(Tail(f)) \in Nat \ {0}
  BY <1>1, EmptySeq
<1> QED
  BY <1>1, <1>2, <1>3 DEF FeedEnds

LEMMA FeedAppend ==
    ASSUME NEW f \in Seq(CoreStates), NEW v \in CoreStates
    PROVE  Append(f, v) # << >> /\ \A alive : alive => FeedEnds(Append(f, v), v, alive)
<1>1. Append(f, v) \in Seq(CoreStates) /\ Len(Append(f, v)) = Len(f) + 1 /\ Append(f, v)[Len(f) + 1] = v
  BY AppendProperties
<1>2. Len(Append(f, v)) # 0
  BY <1>1, LenProperties
<1> QED
  BY <1>1, <1>2, EmptySeq DEF FeedEnds

LEMMA FeedOne ==
    /\ \A v, alive : FeedEnds(<< >>, v, alive)
    /\ \A v \in CoreStates : \A alive : alive => FeedEnds(<<v>>, v, alive)
    /\ \A v : <<v>> # << >>
<1>1. \A v \in CoreStates : <<v>> \in Seq(CoreStates) /\ Len(<<v>>) = 1 /\ <<v>>[1] = v
  OBVIOUS
<1> QED
  BY <1>1, EmptySeq DEF FeedEnds

\* A call goes on, or none, without a start that begins or ends.
LEMMA CallGoesOn ==
    ASSUME AppTyped,
           NEW c \in Calls, NEW p \in CallPlaces \ {"starting"}, call[c] # "starting",
           call' = call \/ call' = [call EXCEPT ![c] = p],
           core' = core \/ (core # "STARTING" /\ core' # "STARTING" /\ core' \in CoreStates),
           up' \in BOOLEAN, core = "STARTING" => up', FeedEnds(feed', core', up'),
           shown' \in Shown, DOMAIN takes' = Starters
    PROVE  AppTyped'
<1>1. /\ call' \in [Calls -> CallPlaces]
      /\ \A e \in Calls : call'[e] = "starting" <=> call[e] = "starting"
  BY DEF AppTyped
<1>2. core' \in CoreStates /\ (core' = "STARTING" <=> core = "STARTING")
  BY DEF AppTyped
<1> QED
  BY <1>1, <1>2, AppNames DEF AppTyped

LEMMA StartGoesOn ==
    ASSUME AppTyped, NEW c \in Starters, core # "STARTING", core' = "STARTING", up, up' = up,
           call' = [call EXCEPT ![c] = "starting"], FeedEnds(feed', core', up'),
           shown' \in Shown, DOMAIN takes' = Starters
    PROVE  AppTyped'
<1>1. c \in Calls /\ \A e \in Calls : call[e] # "starting"
  BY AppNames DEF AppTyped
<1>2. /\ call' \in [Calls -> CallPlaces]
      /\ \A e \in Calls : call'[e] = "starting" <=> e = c
  BY <1>1 DEF AppTyped, CallPlaces
<1> QED
  BY <1>1, <1>2 DEF AppTyped, CoreStates

LEMMA StartComesToEnd ==
    ASSUME AppTyped, NEW c \in Starters, call[c] = "starting",
           NEW p \in CallPlaces \ {"starting"}, call' = [call EXCEPT ![c] = p],
           core' \in CoreStates \ {"STARTING"}, up' = up, FeedEnds(feed', core', up'),
           shown' \in Shown, DOMAIN takes' = Starters
    PROVE  AppTyped'
<1>1. c \in Calls /\ \A e \in Calls \ {c} : call[e] # "starting"
  BY AppNames DEF AppTyped
<1>2. call' \in [Calls -> CallPlaces] /\ \A e \in Calls : call'[e] # "starting"
  BY <1>1 DEF AppTyped
<1> QED
  BY <1>2, AppNames DEF AppTyped

\* What the initial state is for either way to move.
LEMMA AppInit ==
    ASSUME QuietApp!Init \/ CrossedApp!Init
    PROVE  /\ AppTyped /\ shown = "Disconnected" /\ core = "STOPPED" /\ feed = << >>
           /\ call = [c \in Calls |-> "idle"] /\ runs = profile /\ wanted = FALSE
<1>1. /\ up \in BOOLEAN /\ shown = "Disconnected" /\ core = "STOPPED" /\ feed = << >>
      /\ call = [c \in Calls |-> "idle"] /\ runs = profile /\ wanted = FALSE
      /\ DOMAIN takes = Starters
  BY AppNames DEF QuietApp!Init, CrossedApp!Init, Calls, Starters
<1> QED
  BY <1>1, FeedOne DEF AppTyped, CoreStates, Shown, CallPlaces

LEMMA CrossedAppInit == CrossedApp!Init => CrossedAppInv
BY AppInit DEF CrossedAppInv, ConnectingIsHeld

\* The user, the statuses on their way.
LEMMA CrossedUser ==
    ASSUME CrossedAppInv, CrossedApp!User \/ CrossedApp!Deliver
    PROVE  CrossedAppInv'
<1> USE AppNames
<1>0. AppTyped /\ ConnectingIsHeld
  BY DEF CrossedAppInv
<1>1. CASE CrossedApp!ToggleOn
  <2>1. /\ shown \in {"Disconnected", "Error"} /\ UNCHANGED <<core, up, feed, shown, takes>>
        /\ call' = call \/ (call[Connect] \in {"idle", "done"} /\ call' = [call EXCEPT ![Connect] = "profile"])
    BY <1>1 DEF CrossedApp!ToggleOn, CrossedApp!Goto, CrossedApp!OneConnect, CrossedApp!Busy
  <2>2. AppTyped'
    <3>1. CASE call' = call
      BY <1>0, <2>1, <3>1 DEF AppTyped
    <3>2. CASE call' # call
      BY <1>0, <2>1, <3>2, CallGoesOn DEF AppTyped, CallPlaces
    <3> QED
      BY <3>1, <3>2
  <2> QED
    BY <2>1, <2>2 DEF CrossedAppInv, ConnectingIsHeld
<1>2. ASSUME NEW on, CrossedApp!Disconnect(on) PROVE CrossedAppInv'
  <2>1. PICK d \in Disconnects : call[d] = "idle" /\ call' = [call EXCEPT ![d] = "rpc"]
    BY <1>2 DEF CrossedApp!Disconnect, CrossedApp!Goto
  <2>2. UNCHANGED <<core, up, feed, shown, takes>>
    BY <1>2 DEF CrossedApp!Disconnect
  <2>3. AppTyped'
    BY <1>0, <2>1, <2>2, CallGoesOn DEF AppTyped, CallPlaces
  <2>4. \A e \in Calls \ {d} : call'[e] = call[e]
    BY <1>0, <2>1 DEF AppTyped
  <2> QED
    BY <1>0, <2>1, <2>2, <2>3, <2>4 DEF CrossedAppInv, ConnectingIsHeld
<1>3. ASSUME NEW q \in Profiles, CrossedApp!ChangeProfile(q) PROVE CrossedAppInv'
  <2>1. /\ UNCHANGED <<core, up, feed, shown>>
        /\ \/ UNCHANGED <<call, takes>>
           \/ \E r \in Reconnects : /\ call[r] = "idle" /\ call' = [call EXCEPT ![r] = "stop"]
                                    /\ takes' = [takes EXCEPT ![r] = q] /\ shown = "Connected"
    BY <1>3 DEF CrossedApp!ChangeProfile, CrossedApp!Goto, CrossedApp!MayReconnect
  <2>2. CASE UNCHANGED <<call, takes>>
    BY <1>0, <2>1, <2>2 DEF CrossedAppInv, AppTyped, ConnectingIsHeld
  <2>3. ASSUME NEW r \in Reconnects, call[r] = "idle", call' = [call EXCEPT ![r] = "stop"],
               takes' = [takes EXCEPT ![r] = q], shown = "Connected"
        PROVE  CrossedAppInv'
    <3>1. AppTyped'
      BY <1>0, <2>1, <2>3, CallGoesOn DEF AppTyped, CallPlaces
    <3> QED
      BY <2>1, <2>3, <3>1 DEF CrossedAppInv, ConnectingIsHeld
  <2> QED
    BY <2>1, <2>2, <2>3
<1>4. CASE CrossedApp!Deliver
  <2>1. /\ feed # << >> /\ shown' = CrossedApp!StatusOf(Head(feed)) /\ feed' = Tail(feed)
        /\ UNCHANGED <<core, up, call, takes>>
    BY <1>4 DEF CrossedApp!Deliver
  <2>2. /\ FeedEnds(feed', core', up') /\ (feed' = << >> => Head(feed) = core)
        /\ Head(feed) \in CoreStates
    BY <1>0, <2>1, FeedTail DEF AppTyped
  <2>3. shown' \in Shown /\ (shown' = "Connecting" => Head(feed) = "STARTING")
    BY <2>1, <2>2 DEF CrossedApp!StatusOf, CoreStates, Shown
  <2>4. AppTyped'
    BY <1>0, <2>1, <2>2, <2>3 DEF AppTyped
  <2> QED
    BY <2>1, <2>2, <2>3, <2>4 DEF CrossedAppInv, ConnectingIsHeld
<1> QED
  BY <1>1, <1>2, <1>3, <1>4 DEF CrossedApp!User, CrossedApp!ToggleOff, CrossedApp!Abort

\* A step of a start that has begun, or of one that begins.
LEMMA CrossedStart ==
    ASSUME CrossedAppInv, NEW c \in Starters,
           \/ CrossedApp!StartEnds(c) \/ CrossedApp!StartFails(c) \/ CrossedApp!ShowError(c)
           \/ /\ CrossedApp!StartBegins(c) \/ CrossedApp!AlreadyStarted(c)
              /\ up /\ UNCHANGED <<up, shown, takes>> /\ call[c] \in {"rpc", "start"}
    PROVE  CrossedAppInv'
<1> USE AppNames
<1>0. AppTyped /\ ConnectingIsHeld /\ c \in Calls
  BY DEF CrossedAppInv
<1>1. ASSUME call[c] = "starting", NEW v \in {"STARTED", "STOPPED"}, CrossedApp!SetCoreFor(c, v),
             NEW p \in {"done", "failed"}, CrossedApp!Goto(c, p), UNCHANGED <<up, shown, takes>>
      PROVE  CrossedAppInv'
  <2>1. up /\ core' = v /\ call' = [call EXCEPT ![c] = p]
    BY <1>0, <1>1 DEF AppTyped, CrossedApp!SetCoreFor, CrossedApp!Goto
  <2>2. FeedEnds(feed', v, up) /\ feed' # << >>
    <3>1. feed' = <<v>> \/ feed' = Append(feed, v)
      BY <1>1, <2>1 DEF CrossedApp!SetCoreFor
    <3>2. feed' = <<v>> => FeedEnds(feed', v, up) /\ feed' # << >>
      BY <1>1, <2>1, FeedOne DEF CoreStates
    <3>3. feed' = Append(feed, v) => FeedEnds(feed', v, up) /\ feed' # << >>
      BY <1>0, <1>1, <2>1, FeedAppend DEF AppTyped, FeedEnds, CoreStates
    <3> QED
      BY <3>1, <3>2, <3>3
  <2>3. AppTyped'
    BY <1>0, <1>1, <2>1, <2>2, StartComesToEnd DEF AppTyped, CallPlaces, CoreStates
  <2> QED
    BY <2>2, <2>3 DEF CrossedAppInv, ConnectingIsHeld
<1>2. CASE CrossedApp!StartEnds(c)
  BY <1>1, <1>2 DEF CrossedApp!StartEnds
<1>3. CASE CrossedApp!StartFails(c)
  BY <1>1, <1>3 DEF CrossedApp!StartFails
<1>4. CASE CrossedApp!ShowError(c)
  <2>1. /\ call[c] = "failed" /\ call' = [call EXCEPT ![c] = "done"] /\ shown' = "Error"
        /\ UNCHANGED <<core, up, feed, takes>>
    BY <1>4 DEF CrossedApp!ShowError, CrossedApp!Goto
  <2>2. AppTyped'
    BY <1>0, <2>1, CallGoesOn DEF AppTyped, CallPlaces, Shown
  <2> QED
    BY <2>1, <2>2 DEF CrossedAppInv, ConnectingIsHeld
<1>5. CASE CrossedApp!StartBegins(c) /\ up /\ UNCHANGED <<up, shown, takes>>
  <2>1. /\ core = "STOPPED" /\ core' = "STARTING" /\ feed' = Append(feed, "STARTING")
        /\ call' = [call EXCEPT ![c] = "starting"] /\ UNCHANGED <<up, shown, takes>> /\ up
    BY <1>5 DEF CrossedApp!StartBegins, CrossedApp!SetCore, CrossedApp!Goto
  <2>2. FeedEnds(feed', core', up')
    BY <1>0, <2>1, FeedAppend DEF AppTyped, FeedEnds, CoreStates
  <2>3. AppTyped'
    BY <1>0, <2>1, <2>2, StartGoesOn DEF AppTyped
  <2> QED
    BY <2>1, <2>3 DEF CrossedAppInv, ConnectingIsHeld
<1>6. CASE CrossedApp!AlreadyStarted(c) /\ up /\ UNCHANGED <<up, shown, takes>> /\ call[c] \in {"rpc", "start"}
  <2>1. /\ core = "STARTED" /\ core' = core /\ UNCHANGED <<up, shown, takes>> /\ up
        /\ \/ c = Connect /\ feed' = <<core>> /\ call' = [call EXCEPT ![c] = "done"]
           \/ c # Connect /\ feed' = feed /\ call' = [call EXCEPT ![c] = "failed"]
    BY <1>6 DEF CrossedApp!AlreadyStarted, CrossedApp!Relistens, CrossedApp!Goto
  <2>2. FeedEnds(feed', core', up') /\ (feed' # feed => feed' # << >>) /\ (c = Connect => feed' # << >>)
    <3>1. FeedEnds(<<core>>, core, up) /\ <<core>> # << >> /\ FeedEnds(feed, core, up)
      BY <1>0, <2>1, FeedOne DEF AppTyped
    <3> QED
      BY <2>1, <3>1
  <2>3. AppTyped'
    BY <1>0, <1>6, <2>1, <2>2, CallGoesOn DEF AppTyped, CallPlaces
  <2>4. \A e \in Calls \ {c} : call'[e] = call[e]
    BY <1>0, <2>1 DEF AppTyped
  <2> QED
    BY <1>0, <2>1, <2>2, <2>3, <2>4 DEF CrossedAppInv, ConnectingIsHeld
<1> QED
  BY <1>2, <1>3, <1>4, <1>5, <1>6

LEMMA CrossedConnect ==
    ASSUME CrossedAppInv, CrossedApp!ConnectStep
    PROVE  CrossedAppInv'
<1> USE AppNames
<1>0. AppTyped /\ ConnectingIsHeld /\ Connect \in Calls
  BY DEF CrossedAppInv
<1>1. ASSUME call[Connect] \in {"profile", "options", "clear", "service", "rpc"},
             NEW p \in {"options", "failed", "clear", "service", "rpc"},
             call' = [call EXCEPT ![Connect] = p],
             core' = core \/ (core # "STARTING" /\ core' = "STOPPED"),
             up' \in BOOLEAN, core = "STARTING" => up', FeedEnds(feed', core', up'),
             shown' \in Shown, DOMAIN takes' = Starters,
             p # "options" \/ (call[Connect] = "profile" /\ UNCHANGED <<core, feed, shown>>)
      PROVE  CrossedAppInv'
  <2>1. AppTyped'
    BY <1>0, <1>1, CallGoesOn DEF CallPlaces, CoreStates
  <2>2. call'[Connect] = p /\ \A e \in Calls \ {Connect} : call'[e] = call[e]
    BY <1>0, <1>1 DEF AppTyped
  <2>3. ConnectingIsHeld'
    BY <1>0, <1>1, <2>2 DEF ConnectingIsHeld
  <2> QED
    BY <2>1, <2>3 DEF CrossedAppInv
<1>2. CASE CrossedApp!NotConnecting
  BY <1>0, <1>1, <1>2 DEF AppTyped, CrossedApp!NotConnecting, CrossedApp!Goto
<1>3. CASE CrossedApp!ReadProfile
  <2>1. /\ call[Connect] = "profile" /\ call' = [call EXCEPT ![Connect] = "options"]
        /\ takes' = [takes EXCEPT ![Connect] = profile] /\ UNCHANGED <<core, up, feed, shown>>
    BY <1>3 DEF CrossedApp!ReadProfile, CrossedApp!Goto
  <2>2. call'[Connect] = "options" /\ \A e \in Calls \ {Connect} : call'[e] = call[e]
    BY <1>0, <2>1 DEF AppTyped
  <2>3. DOMAIN takes' = Starters
    BY <1>0, <2>1 DEF AppTyped
  <2> QED
    BY <1>0, <1>1, <2>1, <2>3 DEF AppTyped
<1>4. CASE CrossedApp!BeginStart
  BY <1>0, <1>1, <1>4 DEF AppTyped, CrossedApp!BeginStart, CrossedApp!Goto, Shown
<1>5. CASE CrossedApp!ClearBackground
  <2>1. /\ call[Connect] = "clear" /\ call' = [call EXCEPT ![Connect] = "service"]
        /\ core # "STARTING" /\ core' = "STOPPED" /\ up' = FALSE /\ feed' = << >>
        /\ UNCHANGED <<shown, takes>>
    BY <1>5 DEF CrossedApp!ClearBackground, CrossedApp!CloseService, CrossedApp!Goto, CrossedApp!Locked
  <2> QED
    BY <1>0, <1>1, <2>1, FeedOne DEF AppTyped
<1>6. CASE CrossedApp!BackgroundFails
  BY <1>0, <1>1, <1>6 DEF AppTyped, CrossedApp!BackgroundFails, CrossedApp!Goto, Shown
<1>7. CASE CrossedApp!BackgroundReady
  <2>1. /\ call[Connect] = "service" /\ call' = [call EXCEPT ![Connect] = "rpc"]
        /\ up' = TRUE /\ feed' = <<core>> /\ UNCHANGED <<core, shown, takes>>
    BY <1>7 DEF CrossedApp!BackgroundReady, CrossedApp!Goto
  <2> QED
    BY <1>0, <1>1, <2>1, FeedOne DEF AppTyped
<1>8. CASE CrossedApp!ConnectRpc
  BY <1>8, CrossedStart DEF CrossedApp!ConnectRpc
<1>9. CASE CrossedApp!Unavailable
  BY <1>0, <1>1, <1>9 DEF AppTyped, CrossedApp!Unavailable, CrossedApp!Goto
<1> QED
  BY <1>2, <1>3, <1>4, <1>5, <1>6, <1>7, <1>8, <1>9 DEF CrossedApp!ConnectStep

LEMMA CrossedDisconnect ==
    ASSUME CrossedAppInv, NEW d \in Disconnects, CrossedApp!DisconnectStep(d)
    PROVE  CrossedAppInv'
<1> USE AppNames
<1>0. AppTyped /\ ConnectingIsHeld /\ d \in Calls
  BY DEF CrossedAppInv
<1>1. ASSUME call[d] \in {"rpc", "service", "serviceErr", "tell", "tellErr"},
             NEW p \in {"service", "serviceErr", "tell", "tellErr", "done"},
             call' = [call EXCEPT ![d] = p], p # "done" \/ shown' # "Connecting",
             core' = core \/ (core # "STARTING" /\ core' = "STOPPED"),
             up' \in BOOLEAN, core = "STARTING" => up', FeedEnds(feed', core', up'),
             shown' \in Shown, takes' = takes
      PROVE  CrossedAppInv'
  <2>1. AppTyped'
    BY <1>0, <1>1, CallGoesOn DEF AppTyped, CallPlaces, CoreStates
  <2>2. call'[d] = p
    BY <1>0, <1>1 DEF AppTyped
  <2>3. ConnectingIsHeld'
    BY <1>1, <2>2 DEF ConnectingIsHeld
  <2> QED
    BY <2>1, <2>3 DEF CrossedAppInv
<1>2. CASE CrossedApp!StopRpc(d) \/ CrossedApp!StopFails(d)
  <2>1. /\ call[d] = "rpc" /\ UNCHANGED <<up, shown, takes>>
        /\ \E p \in {"service", "serviceErr"} : call' = [call EXCEPT ![d] = p]
        /\ \/ up /\ core # "STARTING" /\ core' = "STOPPED" /\ feed' = Append(feed, "STOPPED")
           \/ UNCHANGED <<core, feed>>
    BY <1>2 DEF CrossedApp!StopRpc, CrossedApp!StopFails, CrossedApp!Goto, CrossedApp!SetCore, CrossedApp!CoreAfterStop,
                CrossedApp!Locked
  <2>2. CASE up /\ core # "STARTING" /\ core' = "STOPPED" /\ feed' = Append(feed, "STOPPED")
    <3>1. FeedEnds(feed', core', up')
      BY <1>0, <2>1, <2>2, FeedAppend DEF AppTyped, FeedEnds, CoreStates
    <3> QED
      BY <1>0, <1>1, <2>1, <2>2, <3>1 DEF AppTyped
  <2>3. CASE UNCHANGED <<core, feed>>
    BY <1>0, <1>1, <2>1, <2>3, AppNames DEF AppTyped
  <2> QED
    BY <2>1, <2>2, <2>3
<1>3. CASE CrossedApp!StopService(d)
  <2>1. /\ call[d] \in {"service", "serviceErr"}
        /\ \E p \in {"tell", "tellErr"} : call' = [call EXCEPT ![d] = p]
        /\ core # "STARTING" /\ core' = "STOPPED" /\ up' = FALSE /\ feed' = << >>
        /\ UNCHANGED <<shown, takes>>
    BY <1>3 DEF CrossedApp!StopService, CrossedApp!CloseService, CrossedApp!Goto, CrossedApp!Locked
  <2> QED
    BY <1>0, <1>1, <2>1, FeedOne DEF AppTyped
<1>4. CASE CrossedApp!TellStopped(d)
  <2>1. /\ call[d] \in {"tell", "tellErr"} /\ call' = [call EXCEPT ![d] = "done"]
        /\ shown' \in {"Disconnected", "Error"} /\ UNCHANGED <<core, up, feed, takes>>
    BY <1>4 DEF CrossedApp!TellStopped, CrossedApp!Goto
  <2> QED
    BY <1>0, <1>1, <2>1 DEF AppTyped, Shown
<1> QED
  BY <1>2, <1>3, <1>4 DEF CrossedApp!DisconnectStep

LEMMA CrossedReconnect ==
    ASSUME CrossedAppInv, NEW r \in Reconnects, CrossedApp!ReconnectStep(r)
    PROVE  CrossedAppInv'
<1> USE AppNames
<1>0. AppTyped /\ ConnectingIsHeld /\ r \in Calls /\ r # Connect
  BY DEF CrossedAppInv
<1>1. CASE CrossedApp!RestartStops(r)
  <2>1. /\ call[r] = "stop" /\ up /\ core # "STARTING" /\ core' = "STOPPED"
        /\ feed' = Append(feed, "STOPPED") /\ call' = [call EXCEPT ![r] = "start"]
        /\ UNCHANGED <<up, shown, takes>>
    BY <1>1 DEF CrossedApp!RestartStops, CrossedApp!SetCore, CrossedApp!Goto, CrossedApp!Locked
  <2>2. FeedEnds(feed', core', up') /\ feed' # << >>
    BY <1>0, <2>1, FeedAppend DEF AppTyped, FeedEnds, CoreStates
  <2>3. AppTyped'
    BY <1>0, <2>1, <2>2, CallGoesOn DEF AppTyped, CallPlaces, CoreStates
  <2> QED
    BY <2>2, <2>3 DEF CrossedAppInv, ConnectingIsHeld
<1>2. CASE CrossedApp!RestartStarts(r)
  BY <1>2, CrossedStart DEF CrossedApp!RestartStarts
<1>3. CASE CrossedApp!RestartUnavailable(r)
  <2>1. /\ call[r] \in {"stop", "start"} /\ call' = [call EXCEPT ![r] = "done"]
        /\ UNCHANGED <<core, up, feed, shown, takes>>
    BY <1>3 DEF CrossedApp!RestartUnavailable, CrossedApp!Goto
  <2>2. AppTyped'
    BY <1>0, <2>1, CallGoesOn DEF AppTyped, CallPlaces
  <2>3. \A e \in Calls \ {r} : call'[e] = call[e]
    BY <1>0, <2>1 DEF AppTyped
  <2> QED
    BY <1>0, <2>1, <2>2, <2>3 DEF CrossedAppInv, ConnectingIsHeld
<1> QED
  BY <1>1, <1>2, <1>3 DEF CrossedApp!ReconnectStep

LEMMA CrossedAppNext == CrossedAppInv /\ [CrossedApp!Next]_appVars => CrossedAppInv'
<1>1. CrossedAppInv /\ UNCHANGED appVars => CrossedAppInv'
  BY DEF appVars, CrossedAppInv, AppTyped, ConnectingIsHeld
<1> QED
  BY <1>1, AppNames, CrossedUser, CrossedStart, CrossedConnect, CrossedDisconnect, CrossedReconnect
  DEF CrossedApp!Next

\* Once nothing is under way, nothing is left to hold a "Connecting".
LEMMA CrossedAppSettles == CrossedAppInv => CrossedApp!NeverStuck
BY AppNames DEF CrossedAppInv, AppTyped, ConnectingIsHeld, CrossedApp!NeverStuck, CrossedApp!AtRest, CrossedApp!Busy

LEMMA QuietAppInit == QuietApp!Init => QuietAppInv
<1> SUFFICES ASSUME QuietApp!Init PROVE QuietAppInv
  OBVIOUS
<1>1. /\ AppTyped /\ shown = "Disconnected" /\ core = "STOPPED"
      /\ \A c \in Calls : call[c] = "idle"
  BY AppInit
<1>2. up
  BY DEF QuietApp!Init
<1>3. \A c \in Calls : ~QuietApp!Busy(c)
  BY <1>1 DEF QuietApp!Busy
<1>4. \A c \in Calls : CallKnows(c)
  BY <1>1, <1>3 DEF CallKnows
<1> QED
  BY <1>1, <1>2, <1>3, <1>4 DEF QuietAppInv, OneBusy, WishesKept

\* The place of a call says whether it is under way.
LEMMA Places ==
    /\ \A c : QuietApp!Busy(c) <=> call[c] \notin {"idle", "done"}
    /\ \A c : QuietApp!Busy(c)' <=> call'[c] \notin {"idle", "done"}
    /\ QuietApp!AtRest <=> feed = << >> /\ \A c \in Calls : ~QuietApp!Busy(c)
    /\ QuietApp!AtRest' <=> feed' = << >> /\ \A c \in Calls : ~QuietApp!Busy(c)'
BY DEF QuietApp!Busy, QuietApp!AtRest, Calls

\* A step of the one call under way, or of one that begins when there is none.
LEMMA OneCallSteps ==
    ASSUME QuietAppInv, NEW c \in Calls, QuietApp!Busy(c) \/ QuietApp!AtRest,
           NEW p \in CallPlaces, call' = [call EXCEPT ![c] = p],
           AppTyped', up', CallKnows(c)', WishesKept'
    PROVE  QuietAppInv'
<1>1. call'[c] = p /\ \A e \in Calls \ {c} : call'[e] = call[e] /\ call[e] \in {"idle", "done"}
  BY Places DEF QuietAppInv, OneBusy, AppTyped
<1>2. OneBusy'
  BY <1>1, Places DEF OneBusy
<1>3. \A e \in Calls : CallKnows(e)'
  <2> SUFFICES ASSUME NEW e \in Calls \ {c} PROVE CallKnows(e)'
    OBVIOUS
  <2>1. call'[e] \in {"idle", "done"} /\ ~QuietApp!Busy(e)'
    BY <1>1, Places
  <2> QED
    BY <2>1 DEF CallKnows
<1> QED
  BY <1>2, <1>3 DEF QuietAppInv

\* What holds when nothing is under way.
LEMMA RestKnows ==
    ASSUME QuietAppInv, QuietApp!AtRest
    PROVE  /\ feed = << >> /\ core # "STARTING" /\ (shown = "Connected" <=> core = "STARTED")
           /\ core # "STOPPED" => wanted /\ runs = profile
           /\ \A c \in Calls : call[c] \in {"idle", "done"}
<1>1. feed = << >> /\ \A c \in Calls : call[c] \in {"idle", "done"}
  BY Places
<1>2. core # "STARTING"
  BY <1>1, AppNames DEF QuietAppInv, AppTyped
<1> QED
  BY <1>1, <1>2, AppNames DEF QuietAppInv, WishesKept, AppTyped

LEMMA QuietUser ==
    ASSUME QuietAppInv, QuietApp!User
    PROVE  QuietAppInv'
<1> USE AppNames
<1>0. AppTyped /\ up /\ QuietApp!AtRest
  BY DEF QuietAppInv, QuietApp!User, QuietApp!ToggleOn, QuietApp!ToggleOff, QuietApp!Abort,
         QuietApp!ChangeProfile, QuietApp!Act
<1>1. /\ feed = << >> /\ core # "STARTING" /\ (shown = "Connected" <=> core = "STARTED")
      /\ core # "STOPPED" => wanted /\ runs = profile
      /\ \A c \in Calls : call[c] \in {"idle", "done"}
  BY <1>0, RestKnows
<1>2. CASE QuietApp!ToggleOn
  <2>1. /\ shown \in {"Disconnected", "Error"} /\ UNCHANGED <<profile, core, runs, up, feed, shown, takes>>
        /\ wanted' = TRUE /\ call' = [call EXCEPT ![Connect] = "profile"]
    BY <1>1, <1>2, Places DEF QuietApp!ToggleOn, QuietApp!Goto, QuietApp!OneConnect, Connect
  <2>2. AppTyped'
    BY <1>0, <1>1, <2>1, CallGoesOn DEF AppTyped, CallPlaces
  <2>3. core = "STOPPED" /\ call'[Connect] = "profile"
    BY <1>0, <1>1, <2>1 DEF AppTyped, CoreStates
  <2>4. CallKnows(Connect)'
    BY <1>1, <2>1, <2>3 DEF CallKnows
  <2>5. WishesKept'
    BY <2>1, <2>3, Places DEF WishesKept
  <2> QED
    BY <1>0, <2>1, <2>2, <2>4, <2>5, OneCallSteps DEF CallPlaces
<1>3. ASSUME NEW on, QuietApp!Disconnect(on) PROVE QuietAppInv'
  <2>1. PICK d \in Disconnects : call[d] = "idle" /\ call' = [call EXCEPT ![d] = "rpc"]
    BY <1>3 DEF QuietApp!Disconnect, QuietApp!Goto
  <2>2. UNCHANGED <<profile, core, runs, up, feed, shown, takes>> /\ wanted' = FALSE
    BY <1>3 DEF QuietApp!Disconnect
  <2>3. AppTyped'
    BY <1>0, <2>1, <2>2, CallGoesOn DEF AppTyped, CallPlaces
  <2>4. call'[d] = "rpc" /\ \A e \in Calls \ {d} : call'[e] = call[e]
    BY <1>0, <2>1 DEF AppTyped
  <2>5. CallKnows(d)'
    BY <1>1, <2>2, <2>4 DEF CallKnows
  <2>6. WishesKept'
    BY <1>1, <2>2, <2>4, Places DEF WishesKept
  <2> QED
    BY <1>0, <2>1, <2>2, <2>3, <2>5, <2>6, OneCallSteps DEF CallPlaces
<1>4. ASSUME NEW q \in Profiles, QuietApp!ChangeProfile(q) PROVE QuietAppInv'
  <2>0. profile' = q /\ UNCHANGED <<core, runs, up, feed, shown, wanted>>
    BY <1>4 DEF QuietApp!ChangeProfile
  <2>1. CASE shown = "Connected"
    <3>1. PICK r \in Reconnects : /\ call' = [call EXCEPT ![r] = "stop"]
                                  /\ takes' = [takes EXCEPT ![r] = q]
      BY <1>4, <2>1 DEF QuietApp!ChangeProfile, QuietApp!Goto, QuietApp!MayReconnect
    <3>2. r \in Calls /\ call[r] # "starting"
      BY <1>1
    <3>3. AppTyped'
      BY <1>0, <2>0, <3>1, <3>2, CallGoesOn DEF AppTyped, CallPlaces
    <3>4. call'[r] = "stop" /\ takes'[r] = q /\ core = "STARTED" /\ wanted
      BY <1>0, <1>1, <2>1, <3>1 DEF AppTyped
    <3>5. CallKnows(r)'
      BY <2>0, <3>4 DEF CallKnows
    <3>6. WishesKept'
      BY <2>0, <3>4, Places DEF WishesKept
    <3> QED
      BY <1>0, <2>0, <3>1, <3>2, <3>3, <3>5, <3>6, OneCallSteps DEF CallPlaces, QuietAppInv
  <2>2. CASE shown # "Connected"
    <3>1. UNCHANGED <<call, takes>> /\ core = "STOPPED"
      BY <1>0, <1>1, <1>4, <2>2 DEF QuietApp!ChangeProfile, QuietApp!MayReconnect, AppTyped, CoreStates
    <3>2. AppTyped' /\ up'
      BY <1>0, <2>0, <3>1 DEF AppTyped
    <3>3. \A c \in Calls : CallKnows(c)'
      <4> SUFFICES ASSUME NEW c \in Calls PROVE CallKnows(c)'
        OBVIOUS
      <4>1. call'[c] \in {"idle", "done"} /\ ~QuietApp!Busy(c)'
        BY <1>1, <3>1, Places
      <4> QED
        BY <4>1 DEF CallKnows
    <3>4. OneBusy' /\ WishesKept'
      BY <1>1, <2>0, <2>2, <3>1, Places DEF OneBusy, WishesKept
    <3> QED
      BY <3>2, <3>3, <3>4 DEF QuietAppInv
  <2> QED
    BY <2>1, <2>2
<1> QED
  BY <1>2, <1>3, <1>4 DEF QuietApp!User, QuietApp!ToggleOff, QuietApp!Abort

LEMMA QuietDeliver ==
    ASSUME QuietAppInv, QuietApp!Deliver
    PROVE  QuietAppInv'
<1>1. /\ feed # << >> /\ shown' = QuietApp!StatusOf(Head(feed)) /\ feed' = Tail(feed)
      /\ UNCHANGED <<profile, core, runs, up, call, takes, wanted>>
  BY DEF QuietApp!Deliver
<1>2. /\ FeedEnds(feed', core', up') /\ (feed' = << >> => Head(feed) = core)
      /\ Head(feed) \in CoreStates
  BY <1>1, FeedTail DEF QuietAppInv, AppTyped
<1>3. shown' \in Shown /\ (shown' = "Connected" <=> Head(feed) = "STARTED")
  BY <1>1, <1>2 DEF QuietApp!StatusOf, CoreStates, Shown
<1>4. AppTyped' /\ up'
  BY <1>1, <1>2, <1>3 DEF QuietAppInv, AppTyped
<1>5. \A c \in Calls : CallKnows(c)'
  <2> SUFFICES ASSUME NEW c \in Calls PROVE CallKnows(c)'
    OBVIOUS
  <2>1. CallKnows(c)
    BY DEF QuietAppInv
  <2> QED
    BY <1>1, <2>1, Places DEF CallKnows
<1>6. OneBusy' /\ WishesKept'
  BY <1>1, <1>2, <1>3, Places DEF QuietAppInv, OneBusy, WishesKept
<1> QED
  BY <1>4, <1>5, <1>6 DEF QuietAppInv

LEMMA QuietConnect ==
    ASSUME QuietAppInv, QuietApp!ConnectStep
    PROVE  QuietAppInv'
<1> USE AppNames
<1>0. /\ AppTyped /\ up /\ Connect \in Calls /\ CallKnows(Connect) /\ WishesKept
      /\ DOMAIN call = Calls /\ DOMAIN takes = Starters
  BY DEF QuietAppInv, AppTyped
<1>1. call[Connect] \in {"profile", "options", "rpc"}
  BY <1>0
  DEF CallKnows, QuietApp!ConnectStep, QuietApp!NotConnecting, QuietApp!ReadProfile, QuietApp!BeginStart,
      QuietApp!ClearBackground, QuietApp!BackgroundFails, QuietApp!BackgroundReady,
      QuietApp!ConnectRpc, QuietApp!Unavailable, Connect
<1>2. core = "STOPPED" /\ feed = << >> /\ wanted /\ QuietApp!Busy(Connect)
  BY <1>0, <1>1, Places DEF CallKnows
<1>3. CASE QuietApp!NotConnecting
  <2>1. /\ call' = [call EXCEPT ![Connect] = "failed"]
        /\ UNCHANGED <<profile, core, runs, up, feed, shown, takes, wanted>>
    BY <1>3 DEF QuietApp!NotConnecting, QuietApp!Goto, Connect
  <2>2. AppTyped' /\ call'[Connect] = "failed"
    BY <1>0, <1>1, <2>1, CallGoesOn DEF AppTyped, CallPlaces
  <2>3. CallKnows(Connect)' /\ WishesKept'
    BY <1>2, <2>1, <2>2, Places DEF CallKnows, WishesKept
  <2> QED
    BY <1>0, <1>2, <2>1, <2>2, <2>3, OneCallSteps DEF CallPlaces
<1>4. CASE QuietApp!ReadProfile
  <2>1. /\ call' = [call EXCEPT ![Connect] = "options"]
        /\ takes' = [takes EXCEPT ![Connect] = profile]
        /\ UNCHANGED <<profile, core, runs, up, feed, shown, wanted>>
    BY <1>4 DEF QuietApp!ReadProfile, QuietApp!Goto, Connect
  <2>2. DOMAIN takes' = Starters /\ takes'[Connect] = profile
    BY <1>0, <2>1
  <2>3. AppTyped' /\ call'[Connect] = "options"
    BY <1>0, <1>1, <2>1, <2>2, CallGoesOn DEF AppTyped, CallPlaces
  <2>4. CallKnows(Connect)' /\ WishesKept'
    BY <1>2, <2>1, <2>2, <2>3, Places DEF CallKnows, WishesKept
  <2> QED
    BY <1>0, <1>2, <2>1, <2>3, <2>4, OneCallSteps DEF CallPlaces
<1>5. CASE QuietApp!BeginStart
  <2>1. /\ call[Connect] = "options" /\ call' = [call EXCEPT ![Connect] = "rpc"] /\ shown' = "Connecting"
        /\ UNCHANGED <<profile, core, runs, up, feed, takes, wanted>>
    BY <1>5 DEF QuietApp!BeginStart, QuietApp!Goto, Connect
  <2>2. AppTyped' /\ call'[Connect] = "rpc" /\ takes[Connect] = profile
    BY <1>0, <1>1, <2>1, CallGoesOn DEF AppTyped, CallPlaces, Shown, CallKnows
  <2>3. CallKnows(Connect)' /\ WishesKept'
    BY <1>2, <2>1, <2>2, Places DEF CallKnows, WishesKept
  <2> QED
    BY <1>0, <1>2, <2>1, <2>2, <2>3, OneCallSteps DEF CallPlaces
<1>6. CASE QuietApp!ConnectRpc
  <2>1. /\ call[Connect] = "rpc" /\ call' = [call EXCEPT ![Connect] = "starting"]
        /\ core' = "STARTING" /\ feed' = Append(feed, "STARTING") /\ runs' = takes[Connect]
        /\ UNCHANGED <<profile, up, shown, takes, wanted>>
    BY <1>0, <1>2, <1>6 DEF QuietApp!ConnectRpc, QuietApp!StartBegins, QuietApp!AlreadyStarted,
                            QuietApp!SetCore, QuietApp!Goto, Connect
  <2>2. FeedEnds(feed', core', up') /\ feed' # << >> /\ takes[Connect] = profile
    BY <1>0, <2>1, FeedAppend DEF AppTyped, FeedEnds, CoreStates, CallKnows
  <2>3. AppTyped' /\ call'[Connect] = "starting"
    BY <1>0, <1>2, <2>1, <2>2, StartGoesOn DEF AppTyped
  <2>4. CallKnows(Connect)' /\ WishesKept'
    BY <1>2, <2>1, <2>2, <2>3, Places DEF CallKnows, WishesKept
  <2> QED
    BY <1>0, <1>2, <2>1, <2>3, <2>4, OneCallSteps DEF CallPlaces
<1> QED
  BY <1>0, <1>1, <1>3, <1>4, <1>5, <1>6
  DEF QuietApp!ConnectStep, QuietApp!ClearBackground, QuietApp!BackgroundFails, QuietApp!BackgroundReady,
      QuietApp!Unavailable, Connect

\* A start that has begun, of a connect or a reconnect.
LEMMA QuietStart ==
    ASSUME QuietAppInv, NEW c \in Starters,
           QuietApp!StartEnds(c) \/ QuietApp!StartFails(c) \/ QuietApp!ShowError(c)
    PROVE  QuietAppInv'
<1> USE AppNames
<1>0. AppTyped /\ up /\ c \in Calls /\ CallKnows(c) /\ WishesKept /\ DOMAIN call = Calls
  BY DEF QuietAppInv, AppTyped
<1>1. call[c] \in {"starting", "failed"} /\ QuietApp!Busy(c) /\ wanted /\ c \notin Disconnects
  BY <1>0, Places DEF QuietApp!StartEnds, QuietApp!StartFails, QuietApp!ShowError, CallKnows
<1>2. ASSUME call[c] = "starting", NEW v \in {"STARTED", "STOPPED"}, QuietApp!SetCoreFor(c, v),
             NEW p \in {"done", "failed"}, QuietApp!Goto(c, p), p = "failed" => v = "STOPPED",
             UNCHANGED <<profile, runs, up, shown, takes, wanted>>
      PROVE  QuietAppInv'
  <2>1. core' = v /\ call' = [call EXCEPT ![c] = p] /\ core = "STARTING"
    BY <1>0, <1>2 DEF AppTyped, QuietApp!SetCoreFor, QuietApp!Goto
  <2>2. FeedEnds(feed', v, up) /\ feed' # << >>
    <3>1. feed' = <<v>> \/ feed' = Append(feed, v)
      BY <1>0, <1>2 DEF QuietApp!SetCoreFor
    <3>2. feed' = <<v>> => FeedEnds(feed', v, up) /\ feed' # << >>
      BY <1>0, <1>2, FeedOne DEF CoreStates
    <3>3. feed' = Append(feed, v) => FeedEnds(feed', v, up) /\ feed' # << >>
      BY <1>0, <1>2, FeedAppend DEF AppTyped, FeedEnds, CoreStates
    <3> QED
      BY <3>1, <3>2, <3>3
  <2>3. AppTyped' /\ call'[c] = p
    BY <1>0, <1>2, <2>1, <2>2, StartComesToEnd DEF AppTyped, CallPlaces, CoreStates
  <2>4. \A r \in Reconnects : call[r] # "stop"
    BY <1>1, <1>2, Places DEF QuietAppInv, OneBusy
  <2>5. CallKnows(c)'
    BY <1>0, <1>1, <1>2, <2>1, <2>3 DEF CallKnows
  <2>6. WishesKept'
    BY <1>0, <1>1, <1>2, <2>1, <2>2, <2>4, Places DEF WishesKept
  <2> QED
    BY <1>0, <1>1, <1>2, <2>1, <2>3, <2>5, <2>6, OneCallSteps DEF CallPlaces
<1>3. CASE QuietApp!StartEnds(c)
  BY <1>2, <1>3 DEF QuietApp!StartEnds
<1>4. CASE QuietApp!StartFails(c)
  BY <1>2, <1>4 DEF QuietApp!StartFails
<1>5. CASE QuietApp!ShowError(c)
  <2>1. /\ call[c] = "failed" /\ call' = [call EXCEPT ![c] = "done"] /\ shown' = "Error"
        /\ UNCHANGED <<profile, core, runs, up, feed, takes, wanted>>
    BY <1>5 DEF QuietApp!ShowError, QuietApp!Goto
  <2>2. AppTyped' /\ call'[c] = "done" /\ core = "STOPPED"
    BY <1>0, <2>1, CallGoesOn DEF AppTyped, CallPlaces, Shown, CallKnows
  <2>3. CallKnows(c)' /\ WishesKept'
    BY <1>0, <1>1, <2>1, <2>2, Places DEF CallKnows, WishesKept
  <2> QED
    BY <1>0, <1>1, <2>1, <2>2, <2>3, OneCallSteps DEF CallPlaces
<1> QED
  BY <1>3, <1>4, <1>5

LEMMA QuietDisconnect ==
    ASSUME QuietAppInv, NEW d \in Disconnects, QuietApp!DisconnectStep(d)
    PROVE  QuietAppInv'
<1> USE AppNames
<1>0. /\ AppTyped /\ up /\ d \in Calls /\ d \notin Starters /\ CallKnows(d) /\ WishesKept
      /\ DOMAIN call = Calls
  BY DEF QuietAppInv, AppTyped
<1>1. ASSUME QuietApp!StopRpc(d) \/ QuietApp!StopFails(d)
      PROVE  QuietAppInv'
  <2> PICK p \in {"tell", "tellErr"} : call' = [call EXCEPT ![d] = p]
    BY <1>1 DEF QuietApp!StopRpc, QuietApp!StopFails, QuietApp!Goto
  <2>1. /\ call[d] = "rpc" /\ core # "STARTING"
        /\ core' = "STOPPED" /\ feed' = Append(feed, "STOPPED")
        /\ UNCHANGED <<profile, runs, up, shown, takes, wanted>>
    BY <1>0, <1>1 DEF QuietApp!StopRpc, QuietApp!StopFails, QuietApp!SetCore, QuietApp!CoreAfterStop,
                      QuietApp!Locked
  <2>2. FeedEnds(feed', core', up') /\ feed' # << >>
    BY <1>0, <2>1, FeedAppend DEF AppTyped, FeedEnds, CoreStates
  <2>3. AppTyped' /\ call'[d] = p
    BY <1>0, <2>1, <2>2, CallGoesOn DEF AppTyped, CallPlaces, CoreStates
  <2>4. CallKnows(d)' /\ WishesKept'
    BY <1>0, <2>1, <2>2, <2>3, Places DEF CallKnows, WishesKept
  <2>5. QuietApp!Busy(d)
    BY <2>1, Places
  <2> QED
    BY <1>0, <2>1, <2>3, <2>4, <2>5, OneCallSteps DEF CallPlaces
<1>2. CASE QuietApp!TellStopped(d)
  <2>1. /\ call[d] \in {"tell", "tellErr"} /\ call' = [call EXCEPT ![d] = "done"]
        /\ shown' \in {"Disconnected", "Error"}
        /\ UNCHANGED <<profile, core, runs, up, feed, takes, wanted>>
    BY <1>2 DEF QuietApp!TellStopped, QuietApp!Goto
  <2>2. AppTyped' /\ call'[d] = "done" /\ core = "STOPPED" /\ QuietApp!Busy(d)
    BY <1>0, <2>1, Places, CallGoesOn DEF AppTyped, CallPlaces, Shown, CallKnows
  <2>3. CallKnows(d)' /\ WishesKept'
    BY <1>0, <2>1, <2>2, Places DEF CallKnows, WishesKept
  <2> QED
    BY <1>0, <2>1, <2>2, <2>3, OneCallSteps DEF CallPlaces
<1> QED
  BY <1>0, <1>1, <1>2 DEF QuietApp!DisconnectStep, QuietApp!StopService, CallKnows

LEMMA QuietReconnect ==
    ASSUME QuietAppInv, NEW r \in Reconnects, QuietApp!ReconnectStep(r)
    PROVE  QuietAppInv'
<1> USE AppNames
<1>0. /\ AppTyped /\ up /\ r \in Calls /\ r \notin Disconnects /\ r # Connect
      /\ CallKnows(r) /\ WishesKept /\ DOMAIN call = Calls
  BY DEF QuietAppInv, AppTyped
<1>1. CASE QuietApp!RestartStops(r)
  <2>1. /\ call[r] = "stop" /\ call' = [call EXCEPT ![r] = "start"] /\ core # "STARTING"
        /\ core' = "STOPPED" /\ feed' = Append(feed, "STOPPED")
        /\ UNCHANGED <<profile, runs, up, shown, takes, wanted>>
    BY <1>0, <1>1 DEF QuietApp!RestartStops, QuietApp!Goto, QuietApp!SetCore, QuietApp!Locked
  <2>2. FeedEnds(feed', core', up') /\ feed' # << >> /\ takes[r] = profile /\ wanted
    BY <1>0, <2>1, FeedAppend, Places DEF AppTyped, FeedEnds, CoreStates, CallKnows
  <2>3. AppTyped' /\ call'[r] = "start" /\ QuietApp!Busy(r)
    BY <1>0, <2>1, <2>2, Places, CallGoesOn DEF AppTyped, CallPlaces, CoreStates
  <2>4. CallKnows(r)' /\ WishesKept'
    BY <1>0, <2>1, <2>2, <2>3, Places DEF CallKnows, WishesKept
  <2> QED
    BY <1>0, <2>1, <2>3, <2>4, OneCallSteps DEF CallPlaces
<1>2. CASE QuietApp!RestartStarts(r)
  <2>0. call[r] = "start" /\ core = "STOPPED" /\ takes[r] = profile /\ wanted /\ QuietApp!Busy(r)
    BY <1>0, <1>2, Places DEF QuietApp!RestartStarts, CallKnows
  <2>1. /\ call' = [call EXCEPT ![r] = "starting"]
        /\ core' = "STARTING" /\ feed' = Append(feed, "STARTING") /\ runs' = takes[r]
        /\ UNCHANGED <<profile, up, shown, takes, wanted>>
    BY <1>0, <1>2, <2>0 DEF QuietApp!RestartStarts, QuietApp!StartBegins, QuietApp!AlreadyStarted,
                            QuietApp!SetCore, QuietApp!Goto
  <2>2. FeedEnds(feed', core', up') /\ feed' # << >>
    BY <1>0, <2>1, FeedAppend DEF AppTyped, FeedEnds, CoreStates
  <2>3. AppTyped' /\ call'[r] = "starting"
    BY <1>0, <2>0, <2>1, <2>2, StartGoesOn DEF AppTyped
  <2>4. CallKnows(r)' /\ WishesKept'
    BY <1>0, <2>0, <2>1, <2>2, <2>3, Places DEF CallKnows, WishesKept
  <2> QED
    BY <1>0, <2>0, <2>1, <2>3, <2>4, OneCallSteps DEF CallPlaces
<1> QED
  BY <1>0, <1>1, <1>2 DEF QuietApp!ReconnectStep, QuietApp!RestartUnavailable

LEMMA QuietAppNext == QuietAppInv /\ [QuietApp!Next]_appVars => QuietAppInv'
<1>1. QuietAppInv /\ UNCHANGED appVars => QuietAppInv'
  <2> SUFFICES ASSUME QuietAppInv, UNCHANGED appVars PROVE QuietAppInv'
    OBVIOUS
  <2>1. UNCHANGED <<profile, core, runs, up, feed, shown, call, takes, wanted>>
    BY DEF appVars
  <2>2. AppTyped' /\ up' /\ OneBusy' /\ WishesKept'
    BY <2>1, Places DEF QuietAppInv, AppTyped, OneBusy, WishesKept
  <2>3. \A c \in Calls : CallKnows(c)'
    BY <2>1, Places DEF QuietAppInv, CallKnows
  <2> QED
    BY <2>2, <2>3 DEF QuietAppInv
<1> QED
  BY <1>1, QuietUser, QuietDeliver, QuietConnect, QuietStart, QuietDisconnect, QuietReconnect
  DEF QuietApp!Next, Starters

LEMMA QuietAppSettles ==
    QuietAppInv => QuietApp!ShownIsCore /\ QuietApp!AbortedStays /\ QuietApp!RunsActiveProfile
BY RestKnows DEF QuietAppInv, WishesKept, QuietApp!ShownIsCore, QuietApp!AbortedStays, QuietApp!RunsActiveProfile

-----------------------------------------------------------------------------
(***************************************************************************)
(* The Android service.                                                    *)
(***************************************************************************)
Jobs == Quiet!Jobs
JobPlaces == {"unused", "begin", "showing", "monitor", "setup", "report", "core",
              "alerting", "release", "closing", "closed", "done"}
Whats == {"start", "command", "refused", "stop", "posted", "show", "alert", "close", "tell",
          "apply"}
Task == [what : Whats, of : Jobs \cup Quiet!Status \cup {"Alert", "app", "tile", "system"}]

\* Where a job waits for its block on the main thread.
Blocks == {"show", "alert", "close"}
WaitsAt(what) ==
    CASE what = "show" -> {"showing"} [] what = "alert" -> {"alerting"} [] OTHER -> {"closing", "closed"}
Waiting == {"showing", "alerting", "closing", "closed"}

\* Where a stop is under way.
Ending == {"release", "closing", "closed"}

\* The block of a job is in the queue once, while the job waits for it.
BlocksOnce ==
    /\ \A i \in 1..Len(main) : main[i].what \in Blocks =>
         main[i].of \in Jobs /\ job[main[i].of] \in WaitsAt(main[i].what)
    /\ \A i, j \in 1..Len(main) :
         main[i].what \in Blocks /\ main[i].what = main[j].what /\ main[i].of = main[j].of => i = j

\* A value waits exactly while its task does, and there is one; a Starting is
\* delivered before the notification of its start is shown.
PostedOnce ==
    /\ posted \in {Quiet!NoPost, "Starting", "Started"}
    /\ posted = Quiet!NoPost <=> \A i \in 1..Len(main) : main[i].what # "posted"
    /\ \A i, j \in 1..Len(main) : main[i].what = "posted" /\ main[j].what = "posted" => i = j
    /\ posted = "Starting" =>
         \E i, j \in 1..Len(main) : i < j /\ main[i].what = "posted" /\ main[j].what = "show"

Early == {"begin", "showing", "monitor", "setup", "report", "alerting"}

\* What is half way has a job that takes it on.
HalfwayIsHeld ==
    /\ value = "Starting" => posted = "Started" \/ \E s \in Starts : job[s] \in Early
    /\ value = "Stopping" => \E t \in Stops : job[t] \in Ending

JobTypes ==
    /\ job \in [Jobs -> JobPlaces]
    /\ \A s \in Starts : job[s] \notin Ending
    /\ \A t \in Stops : job[t] \in {"unused", "done"} \cup Ending

CrossedInv ==
    /\ main \in Seq(Task) /\ value \in Quiet!Status
    /\ JobTypes /\ BlocksOnce /\ PostedOnce /\ HalfwayIsHeld

TellStarted == Quiet!Task("tell", "Started")

\* What the one job under way has come to.
JobKnows(j) ==
    /\ job[j] \in Early => value = "Starting" /\ receiver
    /\ job[j] \in Early \ {"report"} => ~server
    /\ job[j] \in {"setup", "report"} => monitor
    /\ job[j] = "report" => server
    /\ job[j] = "begin" => posted = Quiet!NoPost
    /\ job[j] \in Early => posted # "Started"
    /\ job[j] \in Early /\ posted = "Starting" => job[j] = "showing"
    /\ job[j] = "core" => posted = "Started" \/ value = "Started"
    /\ job[j] \in Ending => value = "Stopping"
    /\ job[j] = "closed" => ~server

\* What each status stands for, while stops wait for starts to end.
StatusKnows ==
    /\ value = "Stopped" =>
         ~server /\ ~receiver /\ posted = Quiet!NoPost /\ \A j \in Jobs : ~Quiet!Running(j)
    /\ value = "Starting" => receiver
    /\ posted = "Started" => server /\ monitor /\ value = "Starting"
    /\ value = "Started" => server /\ monitor /\ receiver /\ posted = Quiet!NoPost
    /\ value = "Stopping" => ~receiver /\ posted = Quiet!NoPost

\* The app hears that the service has started only while it has, and a service is
\* stopped when nothing is under way.
NewsKnows ==
    \A i \in 1..Len(main) :
         /\ main[i] = TellStarted => value = "Started"
         /\ main[i].what = "stop" => value = "Started" /\ Len(main) = 1 /\ \A j \in Jobs : ~Quiet!Running(j)

QuietInv ==
    /\ CrossedInv
    /\ {receiver, server, monitor} \subseteq BOOLEAN
    /\ \A j, k \in Jobs : Quiet!Running(j) /\ Quiet!Running(k) => j = k
    /\ \A j \in Jobs : JobKnows(j)
    /\ StatusKnows /\ NewsKnows

LEMMA JobNames ==
    /\ Jobs = Starts \cup Stops /\ Starts \cap Stops = {}
    /\ Crossed!Jobs = Jobs /\ Crossed!Status = Quiet!Status
    /\ Quiet!Status = {"Stopped", "Starting", "Started", "Stopping"}
    /\ Crossed!NoPost = "NoPost" /\ Quiet!NoPost = "NoPost"
    /\ \A w, o : Crossed!Task(w, o) = [what |-> w, of |-> o] /\ Quiet!Task(w, o) = [what |-> w, of |-> o]
BY EventsAssumption
DEF EventsAssumption, Quiet!EventAssumption, Jobs, Quiet!Jobs, Crossed!Jobs, Quiet!Status, Crossed!Status,
    Crossed!NoPost, Quiet!NoPost, Crossed!Task, Quiet!Task

\* The main thread takes n tasks, and some are put at the end.
QueueFrom(n, tasks) ==
    /\ main' \in Seq(Task) /\ n <= Len(main)
    /\ Len(main') = Len(main) - n + Len(tasks)
    /\ \A i \in 1..(Len(main) - n) : main'[i] = main[i + n]
    /\ \A k \in 1..Len(tasks) : main'[Len(main) - n + k] = tasks[k]

LEMMA Enqueued ==
    ASSUME main \in Seq(Task), NEW tasks \in Seq(Task), main' = main \o tasks
    PROVE  QueueFrom(0, tasks)
<1>1. /\ main' \in Seq(Task) /\ Len(main') = Len(main) + Len(tasks)
      /\ Len(main) \in Nat /\ Len(tasks) \in Nat
      /\ \A i \in 1..(Len(main) + Len(tasks)) :
           main'[i] = IF i <= Len(main) THEN main[i] ELSE tasks[i - Len(main)]
  BY ConcatProperties, LenProperties
<1> QED
  BY <1>1 DEF QueueFrom

LEMMA Dequeued ==
    ASSUME main \in Seq(Task), main # << >>, NEW tasks \in Seq(Task), main' = Tail(main) \o tasks
    PROVE  QueueFrom(1, tasks) /\ Head(main) = main[1] /\ 1 \in 1..Len(main)
<1>1. /\ Tail(main) \in Seq(Task) /\ Len(Tail(main)) = Len(main) - 1 /\ Len(main) \in Nat \ {0}
      /\ \A i \in 1..(Len(main) - 1) : Tail(main)[i] = main[i + 1]
      /\ Head(main) = main[1]
  BY HeadTailProperties, EmptySeq
<1>2. /\ main' \in Seq(Task) /\ Len(main') = Len(main) - 1 + Len(tasks) /\ Len(tasks) \in Nat
      /\ \A i \in 1..(Len(main) - 1 + Len(tasks)) :
           main'[i] = IF i <= Len(main) - 1 THEN Tail(main)[i] ELSE tasks[i - (Len(main) - 1)]
  BY <1>1, ConcatProperties, LenProperties
<1> QED
  BY <1>1, <1>2 DEF QueueFrom

\* A message of the app gets ahead of some tasks.
QueueWith(i, t) ==
    /\ main' \in Seq(Task) /\ Len(main') = Len(main) + 1
    /\ \A k \in 1..(Len(main) + 1) :
         main'[k] = IF k < i THEN main[k] ELSE IF k = i THEN t ELSE main[k - 1]

LEMMA Inserted ==
    ASSUME main \in Seq(Task), NEW i \in 1..(Len(main) + 1), NEW t \in Task,
           main' = Quiet!InsertAt(main, i, t)
    PROVE  QueueWith(i, t)
<1> DEFINE before == SubSeq(main, 1, i - 1)
           after == SubSeq(main, i, Len(main))
<1>1. /\ Len(main) \in Nat /\ i \in Nat \ {0} /\ i - 1 \in Nat
      /\ \A k \in 1..Len(main) : main[k] \in Task
  BY LenProperties, ElementOfSeq
<1>2. /\ before \in Seq(Task) /\ Len(before) = i - 1
      /\ \A k \in 1..(i - 1) : before[k] = main[k]
  <2>1. \A k \in 1..(i - 1) : main[k] \in Task /\ 1 + k - 1 = k
    BY <1>1
  <2> QED
    BY <1>1, <2>1, SubSeqProperties
<1>3. /\ after \in Seq(Task) /\ Len(after) = Len(main) - i + 1
      /\ \A k \in 1..(Len(main) - i + 1) : after[k] = main[i + k - 1]
  <2>1. \A k \in i..Len(main) : main[k] \in Task
    BY <1>1
  <2> QED
    BY <1>1, <2>1, SubSeqProperties
<1>4. <<t>> \in Seq(Task) /\ Len(<<t>>) = 1 /\ <<t>>[1] = t
  OBVIOUS
<1>5. main' = (before \o <<t>>) \o after
  BY DEF Quiet!InsertAt
<1> HIDE DEF before, after
<1>6. /\ before \o <<t>> \in Seq(Task) /\ Len(before \o <<t>>) = i
      /\ \A k \in 1..i : (before \o <<t>>)[k] = IF k <= i - 1 THEN main[k] ELSE t
  <2>1. /\ before \o <<t>> \in Seq(Task) /\ Len(before \o <<t>>) = (i - 1) + 1
        /\ \A k \in 1..((i - 1) + 1) :
             (before \o <<t>>)[k] = IF k <= i - 1 THEN before[k] ELSE <<t>>[k - (i - 1)]
    BY <1>2, <1>4, ConcatProperties
  <2>2. \A k \in 1..i : k <= i - 1 \/ k - (i - 1) = 1
    BY <1>1
  <2>3. \A k \in 1..i : k <= i - 1 => before[k] = main[k]
    BY <1>1, <1>2
  <2>4. (i - 1) + 1 = i
    BY <1>1
  <2> QED
    BY <1>4, <2>1, <2>2, <2>3, <2>4
<1> DEFINE front == before \o <<t>>
<1>7. /\ front \in Seq(Task) /\ Len(front) = i /\ main' = front \o after
      /\ \A k \in 1..i : front[k] = IF k <= i - 1 THEN main[k] ELSE t
  BY <1>5, <1>6
<1> HIDE DEF front
<1>8. /\ main' \in Seq(Task) /\ Len(main') = i + (Len(main) - i + 1)
      /\ \A k \in 1..(i + (Len(main) - i + 1)) : main'[k] = IF k <= i THEN front[k] ELSE after[k - i]
  <2>1. after \in Seq(Task) /\ front \in Seq(Task)
    BY <1>3, <1>7
  <2>2. /\ front \o after \in Seq(Task) /\ Len(front \o after) = Len(front) + Len(after)
        /\ \A k \in 1..(Len(front) + Len(after)) :
             (front \o after)[k] = IF k <= Len(front) THEN front[k] ELSE after[k - Len(front)]
    BY <2>1, ConcatProperties
  <2> QED
    BY <1>3, <1>7, <2>2
<1>9. i + (Len(main) - i + 1) = Len(main) + 1
  BY <1>1
<1>10. ASSUME NEW k \in 1..(Len(main) + 1)
       PROVE  main'[k] = IF k < i THEN main[k] ELSE IF k = i THEN t ELSE main[k - 1]
  <2>1. main'[k] = IF k <= i THEN front[k] ELSE after[k - i]
    BY <1>8, <1>9
  <2>2. CASE k <= i
    <3>1. k \in 1..i /\ (k <= i - 1 <=> k < i) /\ (~(k <= i - 1) <=> k = i)
      BY <1>1, <2>2
    <3> QED
      BY <1>7, <2>1, <2>2, <3>1
  <2>3. CASE ~(k <= i)
    <3>1. k - i \in 1..(Len(main) - i + 1) /\ i + (k - i) - 1 = k - 1 /\ ~(k < i) /\ k # i
      BY <1>1, <2>3
    <3> QED
      BY <1>3, <2>1, <2>3, <3>1
  <2> QED
    BY <2>2, <2>3
<1> QED
  BY <1>8, <1>9, <1>10 DEF QueueWith

\* Where each task of the queue comes from.
LEMMA QueueParts ==
    ASSUME main \in Seq(Task), NEW n \in {0, 1}, NEW tasks \in Seq(Task), QueueFrom(n, tasks)
    PROVE  /\ Len(main) \in Nat /\ Len(tasks) \in Nat
           /\ \A i \in 1..Len(main') :
                \/ i + n \in 1..Len(main) /\ main'[i] = main[i + n]
                \/ \E k \in 1..Len(tasks) : i = Len(main) - n + k /\ main'[i] = tasks[k]
           /\ \A i \in 1..Len(main) : i > n => i - n \in 1..Len(main') /\ main'[i - n] = main[i]
<1>1. Len(main) \in Nat /\ Len(tasks) \in Nat
  BY LenProperties
<1>2. ASSUME NEW i \in 1..Len(main')
      PROVE  \/ i + n \in 1..Len(main) /\ main'[i] = main[i + n]
             \/ \E k \in 1..Len(tasks) : i = Len(main) - n + k /\ main'[i] = tasks[k]
  <2>1. CASE i <= Len(main) - n
    <3>1. i \in 1..(Len(main) - n) /\ i + n \in 1..Len(main)
      BY <1>1, <2>1
    <3> QED
      BY <3>1 DEF QueueFrom
  <2>2. CASE ~(i <= Len(main) - n)
    <3>1. i - (Len(main) - n) \in 1..Len(tasks) /\ i = Len(main) - n + (i - (Len(main) - n))
      BY <1>1, <2>2 DEF QueueFrom
    <3>2. main'[Len(main) - n + (i - (Len(main) - n))] = tasks[i - (Len(main) - n)]
      BY <3>1 DEF QueueFrom
    <3> QED
      BY <3>1, <3>2
  <2> QED
    BY <2>1, <2>2
<1>3. ASSUME NEW i \in 1..Len(main), i > n
      PROVE  i - n \in 1..Len(main') /\ main'[i - n] = main[i]
  <2>1. i - n \in 1..(Len(main) - n) /\ (i - n) + n = i /\ i - n \in 1..Len(main')
    BY <1>1, <1>3 DEF QueueFrom
  <2> QED
    BY <2>1 DEF QueueFrom
<1> QED
  BY <1>1, <1>2, <1>3

\* A step in which a job stops waiting only when its block runs, and starts
\* waiting only when it enqueues its block.
LEMMA BlocksKept ==
    ASSUME CrossedInv, NEW n \in {0, 1}, NEW tasks \in Seq(Task), QueueFrom(n, tasks),
           \A j \in Jobs : job'[j] # job[j] /\ job[j] \in Waiting =>
                n = 1 /\ main[1].what \in Blocks /\ main[1].of = j,
           \A k \in 1..Len(tasks) : tasks[k].what \in Blocks =>
                /\ tasks[k].of \in Jobs /\ job'[tasks[k].of] \in WaitsAt(tasks[k].what)
                /\ job[tasks[k].of] \notin WaitsAt(tasks[k].what),
           \A k, l \in 1..Len(tasks) : tasks[k].what \in Blocks /\ tasks[l].what \in Blocks => k = l
    PROVE  BlocksOnce'
<1>0. main \in Seq(Task) /\ BlocksOnce
  BY DEF CrossedInv
<1>1. /\ Len(main) \in Nat /\ Len(tasks) \in Nat
      /\ \A i \in 1..Len(main') :
           \/ i + n \in 1..Len(main) /\ main'[i] = main[i + n]
           \/ \E k \in 1..Len(tasks) : i = Len(main) - n + k /\ main'[i] = tasks[k]
  BY <1>0, QueueParts
<1>2. \A i \in 1..Len(main) : i > n /\ main[i].what \in Blocks => job'[main[i].of] = job[main[i].of]
  <2> SUFFICES ASSUME NEW i \in 1..Len(main), i > n, main[i].what \in Blocks,
                      job'[main[i].of] # job[main[i].of]
               PROVE  FALSE
    OBVIOUS
  <2>1. main[i].of \in Jobs /\ job[main[i].of] \in WaitsAt(main[i].what) /\ job[main[i].of] \in Waiting
    BY <1>0 DEF BlocksOnce, Blocks, WaitsAt, Waiting
  <2>2. n = 1 /\ main[1].what \in Blocks /\ main[1].of = main[i].of /\ 1 \in 1..Len(main)
    BY <1>1, <2>1
  <2>3. main[1].what = main[i].what
    BY <1>0, <2>1, <2>2 DEF BlocksOnce, Blocks, WaitsAt
  <2> QED
    BY <1>0, <2>2, <2>3 DEF BlocksOnce
<1>3. ASSUME NEW i \in 1..Len(main'), main'[i].what \in Blocks
      PROVE  main'[i].of \in Jobs /\ job'[main'[i].of] \in WaitsAt(main'[i].what)
  <2>1. CASE i + n \in 1..Len(main) /\ main'[i] = main[i + n]
    <3>1. i + n > n
      OBVIOUS
    <3> QED
      BY <1>0, <1>2, <1>3, <2>1, <3>1 DEF BlocksOnce
  <2> QED
    BY <1>1, <1>3, <2>1
<1>4. ASSUME NEW i \in 1..Len(main'), NEW j \in 1..Len(main'), main'[i].what \in Blocks,
             main'[i].what = main'[j].what, main'[i].of = main'[j].of
      PROVE  i = j
  <2> DEFINE Old(x) == x + n \in 1..Len(main) /\ main'[x] = main[x + n]
             New(x) == \E k \in 1..Len(tasks) : x = Len(main) - n + k /\ main'[x] = tasks[k]
  <2>1. Old(i) /\ Old(j) => i + n = j + n
    BY <1>0, <1>4 DEF BlocksOnce
  <2>2. ASSUME New(i), New(j) PROVE i = j
    <3>1. PICK k \in 1..Len(tasks) : i = Len(main) - n + k /\ main'[i] = tasks[k]
      BY <2>2
    <3>2. PICK l \in 1..Len(tasks) : j = Len(main) - n + l /\ main'[j] = tasks[l]
      BY <2>2
    <3>3. k = l
      BY <1>4, <3>1, <3>2
    <3> QED
      BY <3>1, <3>2, <3>3
  <2>3. \A x, y \in 1..Len(main') :
          Old(x) /\ New(y) /\ main'[x].what = main'[y].what /\ main'[x].of = main'[y].of
              => main'[x].what \notin Blocks
    <3> SUFFICES ASSUME NEW x \in 1..Len(main'), Old(x), NEW k \in 1..Len(tasks),
                        main[x + n].what = tasks[k].what, main[x + n].of = tasks[k].of,
                        tasks[k].what \in Blocks
                 PROVE  FALSE
      OBVIOUS
    <3> QED
      BY <1>0 DEF BlocksOnce
  <2>4. (Old(i) \/ New(i)) /\ (Old(j) \/ New(j))
    BY <1>1
  <2>5. i + n = j + n => i = j
    BY LenProperties DEF QueueFrom
  <2> HIDE DEF Old, New
  <2> QED
    BY <1>4, <2>1, <2>2, <2>3, <2>4, <2>5
<1> QED
  BY <1>3, <1>4 DEF BlocksOnce

\* A step that leaves the value that waits alone, and its task.
LEMMA PostedKept ==
    ASSUME CrossedInv, NEW n \in {0, 1}, NEW tasks \in Seq(Task), QueueFrom(n, tasks),
           posted' = posted, n = 1 => main[1].what # "posted",
           \A k \in 1..Len(tasks) : tasks[k].what # "posted"
    PROVE  PostedOnce'
<1>0. main \in Seq(Task) /\ PostedOnce
  BY DEF CrossedInv
<1>1. /\ Len(main) \in Nat /\ Len(tasks) \in Nat /\ Len(main') \in Nat
      /\ \A i \in 1..Len(main') :
           \/ i + n \in 1..Len(main) /\ main'[i] = main[i + n]
           \/ \E k \in 1..Len(tasks) : i = Len(main) - n + k /\ main'[i] = tasks[k]
      /\ \A i \in 1..Len(main) : i > n => i - n \in 1..Len(main') /\ main'[i - n] = main[i]
  BY <1>0, QueueParts, LenProperties DEF QueueFrom
<1>2. \A i \in 1..Len(main') : main'[i].what = "posted" =>
        i + n \in 1..Len(main) /\ main'[i] = main[i + n]
  BY <1>1
<1>3. \A i \in 1..Len(main) : main[i].what = "posted" => i > n
  BY <1>1
<1>4. posted = "NoPost" <=> \A i \in 1..Len(main') : main'[i].what # "posted"
  <2>1. posted = "NoPost" => \A i \in 1..Len(main') : main'[i].what # "posted"
    BY <1>0, <1>2, JobNames DEF PostedOnce
  <2>2. ASSUME posted # "NoPost" PROVE \E i \in 1..Len(main') : main'[i].what = "posted"
    <3>1. PICK i \in 1..Len(main) : main[i].what = "posted"
      BY <1>0, <2>2, JobNames DEF PostedOnce
    <3> QED
      BY <1>1, <1>3, <3>1
  <2> QED
    BY <2>1, <2>2
<1>5. \A i, j \in 1..Len(main') : main'[i].what = "posted" /\ main'[j].what = "posted" => i = j
  <2> SUFFICES ASSUME NEW i \in 1..Len(main'), NEW j \in 1..Len(main'),
                      main'[i].what = "posted", main'[j].what = "posted"
               PROVE  i = j
    OBVIOUS
  <2>1. i + n = j + n
    BY <1>0, <1>2 DEF PostedOnce
  <2> QED
    BY <2>1
<1>6. ASSUME posted = "Starting"
      PROVE  \E i, j \in 1..Len(main') : i < j /\ main'[i].what = "posted" /\ main'[j].what = "show"
  <2>1. PICK i, j \in 1..Len(main) : i < j /\ main[i].what = "posted" /\ main[j].what = "show"
    BY <1>0, <1>6 DEF PostedOnce
  <2>2. i > n /\ j > n
    BY <1>3, <2>1
  <2>3. /\ i - n \in 1..Len(main') /\ main'[i - n] = main[i]
        /\ j - n \in 1..Len(main') /\ main'[j - n] = main[j] /\ i - n < j - n
    BY <1>1, <2>1, <2>2
  <2> QED
    BY <2>1, <2>3
<1> QED
  BY <1>0, <1>4, <1>5, <1>6, JobNames DEF PostedOnce

\* Short queues.
LEMMA ShortQueues ==
    /\ << >> \in Seq(Task) /\ Len(<< >>) = 0
    /\ \A t : << >> \o <<t>> = <<t>> /\ Len(<<t>>) = 1 /\ <<t>>[1] = t
    /\ \A t, u : <<t>> \o <<u>> = <<t, u>> /\ Len(<<t, u>>) = 2 /\ <<t, u>>[1] = t /\ <<t, u>>[2] = u
    /\ \A t \in Task : <<t>> \in Seq(Task)
    /\ \A t, u \in Task : <<t, u>> \in Seq(Task)
<1>1. << >> \in Seq(Task) /\ Len(<< >>) = 0
  OBVIOUS
<1>2. \A t : << >> \o <<t>> = <<t>> /\ Len(<<t>>) = 1 /\ <<t>>[1] = t
  OBVIOUS
<1>3. \A t, u : <<t>> \o <<u>> = <<t, u>>
  <2> SUFFICES ASSUME NEW t, NEW u PROVE <<t>> \o <<u>> = <<t, u>>
    OBVIOUS
  <2>1. <<t>> \in Seq({t, u}) /\ <<u>> \in Seq({t, u}) /\ <<t, u>> \in Seq({t, u})
    OBVIOUS
  <2>2. Len(<<t>>) = 1 /\ Len(<<u>>) = 1 /\ Len(<<t, u>>) = 2
    OBVIOUS
  <2>3. <<t>> \o <<u>> \in Seq({t, u}) /\ Len(<<t>> \o <<u>>) = 2
        /\ \A i \in 1..2 : (<<t>> \o <<u>>)[i] = IF i <= 1 THEN <<t>>[i] ELSE <<u>>[i - 1]
    BY <2>1, <2>2, ConcatProperties
  <2>4. \A i \in 1..2 : (<<t>> \o <<u>>)[i] = <<t, u>>[i]
    BY <2>2, <2>3
  <2> QED
    BY <2>1, <2>2, <2>3, <2>4, SeqEqual
<1>4. \A t, u : Len(<<t, u>>) = 2 /\ <<t, u>>[1] = t /\ <<t, u>>[2] = u
  OBVIOUS
<1>5. \A t \in Task : <<t>> \in Seq(Task)
  OBVIOUS
<1>6. \A t, u \in Task : <<t, u>> \in Seq(Task)
  OBVIOUS
<1> QED
  BY <1>1, <1>2, <1>3, <1>4, <1>5, <1>6

\* One job goes on.
LEMMA JobGoesOn ==
    ASSUME CrossedInv, NEW j \in Jobs, NEW p \in JobPlaces, job' = [job EXCEPT ![j] = p],
           j \in Starts => p \notin Ending,
           j \in Stops => p \in {"unused", "done"} \cup Ending
    PROVE  /\ JobTypes' /\ job'[j] = p
           /\ \A k \in Jobs \ {j} : job'[k] = job[k]
BY JobNames DEF CrossedInv, JobTypes

\* The service and the queue take a step that leaves the value that waits alone:
\* one job may go on, with its block.
LEMMA JobMoves ==
    ASSUME CrossedInv, NEW n \in {0, 1}, NEW tasks \in Seq(Task), QueueFrom(n, tasks),
           posted' = posted, n = 1 => main[1].what # "posted",
           NEW j \in Jobs, NEW p \in JobPlaces, job' = [job EXCEPT ![j] = p], job[j] # p,
           j \in Starts => p \notin Ending,
           j \in Stops => p \in {"unused", "done"} \cup Ending,
           job[j] \in Waiting => n = 1 /\ main[1].what \in Blocks /\ main[1].of = j,
           \A k \in 1..Len(tasks) : tasks[k].what # "posted",
           \A k \in 1..Len(tasks) : tasks[k].what \in Blocks =>
                tasks[k].of = j /\ p \in WaitsAt(tasks[k].what) /\ job[j] \notin WaitsAt(tasks[k].what),
           \A k, l \in 1..Len(tasks) : tasks[k].what \in Blocks /\ tasks[l].what \in Blocks => k = l,
           value' \in Quiet!Status, HalfwayIsHeld'
    PROVE  CrossedInv'
<1>1. JobTypes' /\ job'[j] = p /\ \A k \in Jobs \ {j} : job'[k] = job[k]
  BY JobGoesOn
<1>2. BlocksOnce'
  <2>1. \A k \in Jobs : job'[k] # job[k] /\ job[k] \in Waiting =>
          n = 1 /\ main[1].what \in Blocks /\ main[1].of = k
    BY <1>1
  <2>2. \A k \in 1..Len(tasks) : tasks[k].what \in Blocks =>
          /\ tasks[k].of \in Jobs /\ job'[tasks[k].of] \in WaitsAt(tasks[k].what)
          /\ job[tasks[k].of] \notin WaitsAt(tasks[k].what)
    BY <1>1
  <2> QED
    BY <2>1, <2>2, BlocksKept
<1>3. PostedOnce'
  BY PostedKept
<1> QED
  BY <1>1, <1>2, <1>3 DEF CrossedInv, QueueFrom

\* A step of the queue alone, or of the status with it.
LEMMA QueueMoves ==
    ASSUME CrossedInv, NEW n \in {0, 1}, NEW tasks \in Seq(Task), QueueFrom(n, tasks),
           UNCHANGED <<value, posted, job>>,
           n = 1 => main[1].what \notin Blocks \cup {"posted"},
           \A k \in 1..Len(tasks) : tasks[k].what \notin Blocks \cup {"posted"}
    PROVE  CrossedInv'
<1>1. BlocksOnce'
  BY BlocksKept
<1>2. PostedOnce'
  BY PostedKept
<1>3. JobTypes' /\ HalfwayIsHeld' /\ value' \in Quiet!Status
  BY DEF CrossedInv, JobTypes, HalfwayIsHeld
<1> QED
  BY <1>1, <1>2, <1>3 DEF CrossedInv, QueueFrom

LEMMA TasksAre ==
    /\ \A w \in Whats, o \in Jobs \cup Quiet!Status \cup {"Alert", "app", "tile", "system"} :
         Crossed!Task(w, o) \in Task /\ Crossed!Task(w, o).what = w /\ Crossed!Task(w, o).of = o
    /\ \A w, o : Crossed!Task(w, o) = Quiet!Task(w, o)
BY JobNames DEF Task

\* The app asks for a start.
LEMMA CrossedAskStart ==
    ASSUME CrossedInv, NEW i \in 1..(Len(main) + 1), NEW t \in Task, t.what = "start",
           QueueWith(i, t), UNCHANGED <<value, posted, job>>
    PROVE  CrossedInv'
<1> DEFINE Old(k) == IF k < i THEN k ELSE k - 1
           New(k) == IF k < i THEN k ELSE k + 1
<1>1. main \in Seq(Task) /\ Len(main) \in Nat /\ BlocksOnce /\ PostedOnce
  BY LenProperties DEF CrossedInv
<1>2. \A k \in 1..Len(main') :
        \/ k = i /\ main'[k] = t
        \/ k # i /\ Old(k) \in 1..Len(main) /\ main'[k] = main[Old(k)]
  BY <1>1 DEF QueueWith
<1>3. \A k \in 1..Len(main) : New(k) \in 1..Len(main') /\ main'[New(k)] = main[k]
  <2> SUFFICES ASSUME NEW k \in 1..Len(main) PROVE New(k) \in 1..Len(main') /\ main'[New(k)] = main[k]
    OBVIOUS
  <2>1. /\ Len(main') = Len(main) + 1 /\ k \in 1..(Len(main) + 1) /\ k + 1 \in 1..(Len(main) + 1)
        /\ k < i => k < i
        /\ ~(k < i) => ~(k + 1 < i) /\ k + 1 # i /\ (k + 1) - 1 = k
    BY <1>1 DEF QueueWith
  <2>2. CASE k < i
    <3>1. main'[k] = main[k]
      BY <2>1, <2>2 DEF QueueWith
    <3> QED
      BY <2>1, <2>2, <3>1
  <2>3. CASE ~(k < i)
    <3>1. main'[k + 1] = main[(k + 1) - 1]
      BY <2>1, <2>3 DEF QueueWith
    <3> QED
      BY <2>1, <2>3, <3>1
  <2> QED
    BY <2>2, <2>3
<1>4. /\ \A k, l \in 1..Len(main') : k # i /\ l # i /\ Old(k) = Old(l) => k = l
      /\ \A k, l \in 1..Len(main) : k < l => New(k) < New(l)
  BY <1>1 DEF QueueWith
<1> HIDE DEF Old, New
<1>5. t.what \notin Blocks \cup {"posted", "show"}
  BY DEF Blocks
<1>6. BlocksOnce'
  <2>1. \A k \in 1..Len(main') : main'[k].what \in Blocks =>
          main'[k].of \in Jobs /\ job'[main'[k].of] \in WaitsAt(main'[k].what)
    BY <1>1, <1>2, <1>5 DEF BlocksOnce
  <2>2. \A k, l \in 1..Len(main') :
          main'[k].what \in Blocks /\ main'[k].what = main'[l].what /\ main'[k].of = main'[l].of => k = l
    BY <1>1, <1>2, <1>4, <1>5 DEF BlocksOnce
  <2> QED
    BY <2>1, <2>2 DEF BlocksOnce
<1>7. PostedOnce'
  <2>1. posted = "NoPost" <=> \A k \in 1..Len(main') : main'[k].what # "posted"
    BY <1>1, <1>2, <1>3, <1>5, JobNames DEF PostedOnce
  <2>2. \A k, l \in 1..Len(main') : main'[k].what = "posted" /\ main'[l].what = "posted" => k = l
    BY <1>1, <1>2, <1>4, <1>5 DEF PostedOnce
  <2>3. ASSUME posted = "Starting"
        PROVE  \E k, l \in 1..Len(main') : k < l /\ main'[k].what = "posted" /\ main'[l].what = "show"
    <3>1. PICK k, l \in 1..Len(main) : k < l /\ main[k].what = "posted" /\ main[l].what = "show"
      BY <1>1, <2>3 DEF PostedOnce
    <3> QED
      BY <1>3, <1>4, <3>1
  <2> QED
    BY <1>1, <2>1, <2>2, <2>3, JobNames DEF PostedOnce
<1>8. JobTypes' /\ HalfwayIsHeld' /\ value' \in Quiet!Status
  BY DEF CrossedInv, JobTypes, HalfwayIsHeld
<1> QED
  BY <1>6, <1>7, <1>8 DEF CrossedInv, QueueWith

\* Something else is asked for.
LEMMA CrossedAsk ==
    ASSUME CrossedInv, NEW w \in {"command", "stop"}, NEW o \in {"app", "tile", "system"},
           main' = main \o <<Quiet!Task(w, o)>> \/ main' = main \o << >>,
           UNCHANGED <<value, posted, job>>
    PROVE  CrossedInv'
<1>1. main \in Seq(Task)
  BY DEF CrossedInv
<1>2. CASE main' = main \o << >>
  <2>1. QueueFrom(0, << >>)
    BY <1>1, <1>2, ShortQueues, Enqueued
  <2>2. \A k \in 1..Len(<< >>) : << >>[k].what \notin Blocks \cup {"posted"}
    BY ShortQueues
  <2> QED
    BY <2>1, <2>2, ShortQueues, QueueMoves
<1>3. CASE main' = main \o <<Quiet!Task(w, o)>>
  <2>1. Quiet!Task(w, o) \in Task /\ Quiet!Task(w, o).what = w
    BY TasksAre DEF Whats
  <2>2. QueueFrom(0, <<Quiet!Task(w, o)>>)
    BY <1>1, <1>3, <2>1, ShortQueues, Enqueued
  <2>3. \A k \in 1..Len(<<Quiet!Task(w, o)>>) : <<Quiet!Task(w, o)>>[k].what \notin Blocks \cup {"posted"}
    BY <2>1, ShortQueues DEF Blocks
  <2> QED
    BY <2>1, <2>2, <2>3, ShortQueues, QueueMoves
<1> QED
  BY <1>2, <1>3

LEMMA Took ==
    ASSUME CrossedInv, main # << >>, NEW tasks \in Seq(Task), main' = Tail(main) \o tasks
    PROVE  /\ QueueFrom(1, tasks) /\ Head(main) = main[1] /\ 1 \in 1..Len(main) /\ main[1] \in Task
BY Dequeued DEF CrossedInv

\* The main thread takes a task that is nobody's block.
LEMMA CrossedTake ==
    ASSUME CrossedInv, main # << >>, Head(main).what \notin Blocks \cup {"posted"},
           NEW w \in {"command", "refused", "apply"},
           main' = Tail(main) \o << >> \/ main' = Tail(main) \o <<Quiet!Task(w, "app")>>,
           UNCHANGED <<value, posted, job>>
    PROVE  CrossedInv'
<1>1. CASE main' = Tail(main) \o << >>
  <2>1. QueueFrom(1, << >>) /\ main[1].what \notin Blocks \cup {"posted"}
    BY <1>1, ShortQueues, Took
  <2>2. \A k \in 1..Len(<< >>) : << >>[k].what \notin Blocks \cup {"posted"}
    BY ShortQueues
  <2> QED
    BY <2>1, <2>2, ShortQueues, QueueMoves
<1>2. CASE main' = Tail(main) \o <<Quiet!Task(w, "app")>>
  <2>1. Quiet!Task(w, "app") \in Task /\ Quiet!Task(w, "app").what = w
    BY TasksAre DEF Whats
  <2>2. QueueFrom(1, <<Quiet!Task(w, "app")>>) /\ main[1].what \notin Blocks \cup {"posted"}
    BY <1>2, <2>1, ShortQueues, Took
  <2>3. \A k \in 1..Len(<<Quiet!Task(w, "app")>>) :
          <<Quiet!Task(w, "app")>>[k].what \notin Blocks \cup {"posted"}
    BY <2>1, ShortQueues DEF Blocks
  <2> QED
    BY <2>1, <2>2, <2>3, ShortQueues, QueueMoves
<1> QED
  BY <1>1, <1>2

LEMMA CrossedTell ==
    ASSUME CrossedInv, Crossed!StartAsked \/ Crossed!Refused \/ Crossed!Tell \/ Crossed!Apply
    PROVE  CrossedInv'
<1>1. /\ main # << >> /\ Head(main).what \in {"start", "refused", "tell", "apply"}
      /\ UNCHANGED <<value, posted, job>>
      /\ \/ main' = Tail(main) \o << >>
         \/ \E w \in {"command", "refused", "apply"} : main' = Tail(main) \o <<Quiet!Task(w, "app")>>
  BY TasksAre DEF Crossed!StartAsked, Crossed!Refused, Crossed!Tell, Crossed!Apply, Crossed!Runs, Crossed!Dequeue
<1>2. Head(main).what \notin Blocks \cup {"posted"}
  BY <1>1 DEF Blocks
<1>3. PICK w \in {"command", "refused", "apply"} :
        main' = Tail(main) \o << >> \/ main' = Tail(main) \o <<Quiet!Task(w, "app")>>
  BY <1>1
<1> QED
  BY <1>1, <1>2, <1>3, CrossedTake

\* What is half way stays held when a start goes on.
LEMMA StartHolds ==
    ASSUME CrossedInv, NEW s \in Starts, NEW p \in JobPlaces \ Ending,
           job' = [job EXCEPT ![s] = p], value' = value, job[s] \notin Ending,
           p \in Early \/ posted' = "Started" \/ (job[s] \notin Early /\ posted' = posted)
    PROVE  HalfwayIsHeld'
<1>1. /\ s \in Jobs /\ job'[s] = p /\ \A k \in Jobs \ {s} : job'[k] = job[k]
  BY JobNames, JobGoesOn
<1>2. ASSUME value = "Starting" PROVE posted' = "Started" \/ \E r \in Starts : job'[r] \in Early
  <2>1. CASE p \in Early
    BY <1>1, <2>1
  <2>2. CASE job[s] \notin Early /\ posted' = posted
    <3>1. posted = "Started" \/ \E r \in Starts : job[r] \in Early
      BY <1>2 DEF CrossedInv, HalfwayIsHeld
    <3> QED
      BY <1>1, <2>2, <3>1, JobNames
  <2> QED
    BY <2>1, <2>2
<1>3. ASSUME value = "Stopping" PROVE \E t \in Stops : job'[t] \in Ending
  <2>1. PICK t \in Stops : job[t] \in Ending
    BY <1>3 DEF CrossedInv, HalfwayIsHeld
  <2>2. t \in Jobs /\ t # s
    BY <2>1, JobNames
  <2> QED
    BY <1>1, <2>1, <2>2
<1> QED
  BY <1>2, <1>3 DEF HalfwayIsHeld

\* What a start command and a stop do to the status.
LEMMA CrossedCommand ==
    ASSUME CrossedInv, Crossed!OnStartCommand \/ Crossed!StopService
    PROVE  CrossedInv'
<1>1. /\ main # << >> /\ Head(main).what \in {"command", "stop"} /\ posted' = posted
      /\ Head(main).what \notin Blocks \cup {"posted"}
  BY DEF Crossed!OnStartCommand, Crossed!StopService, Crossed!Runs, Blocks
<1>2. CASE main' = Tail(main) \o << >> /\ UNCHANGED <<value, job>>
  BY <1>1, <1>2, CrossedTake
<1>3. ASSUME NEW j \in Jobs, NEW p \in {"begin", "release"}, NEW v \in {"Starting", "Stopping"},
             job[j] = "unused", job' = [job EXCEPT ![j] = p], value' = v,
             main' = Tail(main) \o (<< >> \o <<Quiet!Task("tell", v)>>),
             \/ j \in Starts /\ p = "begin" /\ v = "Starting"
             \/ j \in Stops /\ p = "release" /\ v = "Stopping"
      PROVE  CrossedInv'
  <2>1. /\ Quiet!Task("tell", v) \in Task /\ Quiet!Task("tell", v).what = "tell"
        /\ v \in Quiet!Status
    BY TasksAre, JobNames DEF Whats
  <2>2. <<Quiet!Task("tell", v)>> \in Seq(Task) /\ main' = Tail(main) \o <<Quiet!Task("tell", v)>>
    BY <1>3, <2>1, ShortQueues
  <2>3. QueueFrom(1, <<Quiet!Task("tell", v)>>) /\ main[1].what # "posted"
    BY <1>1, <2>2, Took
  <2>4. \A k \in 1..Len(<<Quiet!Task("tell", v)>>) :
          <<Quiet!Task("tell", v)>>[k].what \notin Blocks \cup {"posted"}
    BY <2>1, ShortQueues DEF Blocks
  <2>5. p \in JobPlaces /\ (j \in Starts => p # "release") /\ (j \in Stops => p # "begin")
    BY <1>3, JobNames DEF JobPlaces
  <2>6. job'[j] = p
    BY <1>3, <2>5, JobGoesOn DEF Ending
  <2>7. HalfwayIsHeld'
    BY <1>3, <2>6 DEF HalfwayIsHeld, Early, Ending
  <2> QED
    BY <1>1, <1>3, <2>1, <2>2, <2>3, <2>4, <2>5, <2>7, JobMoves DEF Waiting, Ending
<1>4. CASE Crossed!OnStartCommand
  <2>1. \/ main' = Tail(main) \o << >> /\ UNCHANGED <<value, job>>
        \/ \E s \in Starts :
             /\ job[s] = "unused" /\ job' = [job EXCEPT ![s] = "begin"] /\ value' = "Starting"
             /\ main' = Tail(main) \o (<< >> \o <<Quiet!Task("tell", "Starting")>>)
    BY <1>4, TasksAre DEF Crossed!OnStartCommand, Crossed!Dequeue, Crossed!SetValue, Crossed!Goto
  <2>2. ASSUME NEW s \in Starts, job[s] = "unused", job' = [job EXCEPT ![s] = "begin"], value' = "Starting",
               main' = Tail(main) \o (<< >> \o <<Quiet!Task("tell", "Starting")>>)
        PROVE  CrossedInv'
    <3>1. s \in Jobs
      BY <2>2, JobNames
    <3> QED
      BY <1>3, <2>2, <3>1
  <2> QED
    BY <1>2, <2>1, <2>2
<1>5. CASE Crossed!StopService
  <2>1. \/ main' = Tail(main) \o << >> /\ UNCHANGED <<value, job>>
        \/ \E t \in Stops :
             /\ job[t] = "unused" /\ job' = [job EXCEPT ![t] = "release"] /\ value' = "Stopping"
             /\ main' = Tail(main) \o (<< >> \o <<Quiet!Task("tell", "Stopping")>>)
    BY <1>5, TasksAre DEF Crossed!StopService, Crossed!Dequeue, Crossed!SetValue, Crossed!Goto
  <2>2. ASSUME NEW t \in Stops, job[t] = "unused", job' = [job EXCEPT ![t] = "release"], value' = "Stopping",
               main' = Tail(main) \o (<< >> \o <<Quiet!Task("tell", "Stopping")>>)
        PROVE  CrossedInv'
    <3>1. t \in Jobs
      BY <2>2, JobNames
    <3> QED
      BY <1>3, <2>2, <3>1
  <2> QED
    BY <1>2, <2>1, <2>2
<1> QED
  BY <1>4, <1>5

\* The value that waits is told.
LEMMA CrossedDeliver ==
    ASSUME CrossedInv, Crossed!Deliver
    PROVE  CrossedInv'
<1>1. /\ main # << >> /\ Head(main).what = "posted" /\ posted' = "NoPost" /\ value' = posted
      /\ UNCHANGED job /\ main' = Tail(main) \o (<< >> \o <<Quiet!Task("tell", posted)>>)
  BY JobNames, TasksAre DEF Crossed!Deliver, Crossed!Runs, Crossed!SetValue, Crossed!Dequeue, Crossed!PostedAfter
<1>2. /\ Head(main) = main[1] /\ 1 \in 1..Len(main) /\ main \in Seq(Task)
  BY <1>1, ShortQueues, Dequeued DEF CrossedInv
<1>3. posted \in {"Starting", "Started"}
  BY <1>1, <1>2, JobNames DEF CrossedInv, PostedOnce
<1>4. Quiet!Task("tell", posted) \in Task /\ Quiet!Task("tell", posted).what = "tell"
  BY <1>3, TasksAre, JobNames DEF Whats
<1>5. <<Quiet!Task("tell", posted)>> \in Seq(Task) /\ main' = Tail(main) \o <<Quiet!Task("tell", posted)>>
  BY <1>1, <1>4, ShortQueues
<1>6. QueueFrom(1, <<Quiet!Task("tell", posted)>>)
  BY <1>1, <1>5, Took
<1>7. \A k \in 1..Len(<<Quiet!Task("tell", posted)>>) :
        <<Quiet!Task("tell", posted)>>[k].what \notin Blocks \cup {"posted"}
  BY <1>4, ShortQueues DEF Blocks
<1>8. BlocksOnce'
  BY <1>1, <1>5, <1>6, <1>7, BlocksKept
<1>9. PostedOnce'
  <2>1. \A i \in 1..Len(main') : main'[i].what # "posted"
    <3> SUFFICES ASSUME NEW i \in 1..Len(main'), main'[i].what = "posted" PROVE FALSE
      OBVIOUS
    <3>1. i + 1 \in 1..Len(main) /\ main'[i] = main[i + 1]
      BY <1>2, <1>5, <1>6, <1>7, QueueParts
    <3>2. i + 1 = 1
      BY <1>1, <1>2, <3>1 DEF CrossedInv, PostedOnce
    <3> QED
      BY <3>2
  <2> QED
    BY <1>1, <2>1, JobNames DEF PostedOnce
<1>10. value' = "Starting" => \E s \in Starts : job'[s] \in Early
  <2> SUFFICES ASSUME posted = "Starting" PROVE \E s \in Starts : job[s] \in Early
    BY <1>1
  <2>1. PICK j \in 1..Len(main) : main[j].what = "show"
    BY DEF CrossedInv, PostedOnce
  <2>2. main[j].of \in Jobs /\ job[main[j].of] = "showing"
    BY <2>1 DEF CrossedInv, BlocksOnce, Blocks, WaitsAt
  <2> QED
    BY <2>2, JobNames DEF CrossedInv, JobTypes, Early, Ending
<1>11. HalfwayIsHeld' /\ value' \in Quiet!Status /\ JobTypes'
  BY <1>1, <1>3, <1>10, JobNames DEF CrossedInv, HalfwayIsHeld, JobTypes
<1> QED
  BY <1>6, <1>8, <1>9, <1>11 DEF CrossedInv, QueueFrom

\* The block of a job that runs.
LEMMA BlockRuns ==
    ASSUME CrossedInv, main # << >>, Head(main).what \in Blocks
    PROVE  /\ Head(main) = main[1] /\ main[1].of \in Jobs
           /\ job[main[1].of] \in WaitsAt(main[1].what) /\ main[1].what \in Blocks
BY Took, ShortQueues DEF CrossedInv, BlocksOnce

LEMMA CrossedShow ==
    ASSUME CrossedInv, Crossed!Show
    PROVE  CrossedInv'
<1> DEFINE s == main[1].of
<1>1. /\ main # << >> /\ Head(main).what = "show" /\ main' = Tail(main) \o << >>
      /\ job' = [job EXCEPT ![Head(main).of] = "monitor"] /\ UNCHANGED <<value, posted>>
  BY DEF Crossed!Show, Crossed!Runs, Crossed!Dequeue, Crossed!Goto
<1>2. Head(main) = main[1] /\ s \in Jobs /\ job[s] = "showing" /\ main[1].what = "show"
  BY <1>1, BlockRuns DEF Blocks, WaitsAt
<1>3. s \in Starts /\ s \notin Stops
  BY <1>2, JobNames DEF CrossedInv, JobTypes, Ending
<1>4. QueueFrom(1, << >>) /\ << >> \in Seq(Task)
  BY <1>1, Took, ShortQueues
<1> HIDE DEF s
<1>5. job' = [job EXCEPT ![s] = "monitor"]
  BY <1>1, <1>2 DEF s
<1>6. HalfwayIsHeld'
  BY <1>1, <1>2, <1>3, <1>5, StartHolds DEF JobPlaces, Early, Ending
<1>7. \A k \in 1..Len(<< >>) : << >>[k].what \notin Blocks \cup {"posted"}
  BY ShortQueues
<1>8. main[1].of = s
  BY DEF s
<1> QED
  BY <1>1, <1>2, <1>3, <1>4, <1>5, <1>6, <1>7, <1>8, JobMoves DEF JobPlaces, Waiting, Blocks, CrossedInv, Ending

\* A job ends with its block: the status is "Stopped".
LEMMA CrossedEnd ==
    ASSUME CrossedInv, Crossed!Alert \/ Crossed!Closed
    PROVE  CrossedInv'
<1> DEFINE j == main[1].of
<1>1. /\ main # << >> /\ Head(main).what \in {"alert", "close"} /\ value' = "Stopped" /\ posted' = posted
      /\ job' = [job EXCEPT ![Head(main).of] = "done"]
      /\ \/ main' = Tail(main) \o (<<Quiet!Task("tell", "Alert")>> \o <<Quiet!Task("tell", "Stopped")>>)
         \/ main' = Tail(main) \o (<< >> \o <<Quiet!Task("tell", "Stopped")>>)
  BY TasksAre DEF Crossed!Alert, Crossed!Closed, Crossed!Runs, Crossed!SetValue, Crossed!Dequeue, Crossed!Goto,
                  Crossed!AlertStatus
<1>2. Head(main) = main[1] /\ j \in Jobs /\ job[j] \in {"alerting", "closing", "closed"} /\ main[1].what \in {"alert", "close"}
  BY <1>1, BlockRuns DEF Blocks, WaitsAt
<1> HIDE DEF j
<1>3. /\ Quiet!Task("tell", "Alert") \in Task /\ Quiet!Task("tell", "Alert").what = "tell"
      /\ Quiet!Task("tell", "Stopped") \in Task /\ Quiet!Task("tell", "Stopped").what = "tell"
      /\ "Stopped" \in Quiet!Status
  BY TasksAre, JobNames DEF Whats
<1>4. PICK tasks \in Seq(Task) :
        /\ main' = Tail(main) \o tasks
        /\ \A k \in 1..Len(tasks) : tasks[k].what \notin Blocks \cup {"posted"}
  <2>1. CASE main' = Tail(main) \o (<<Quiet!Task("tell", "Alert")>> \o <<Quiet!Task("tell", "Stopped")>>)
    <3> DEFINE ts == <<Quiet!Task("tell", "Alert"), Quiet!Task("tell", "Stopped")>>
    <3>1. main' = Tail(main) \o ts /\ ts \in Seq(Task)
      BY <1>3, <2>1, ShortQueues
    <3>2. \A k \in 1..Len(ts) : ts[k].what = "tell"
      BY <1>3, ShortQueues
    <3>3. "tell" \notin Blocks \cup {"posted"}
      BY DEF Blocks
    <3> HIDE DEF ts
    <3> QED
      BY <3>1, <3>2, <3>3
  <2>2. CASE main' = Tail(main) \o (<< >> \o <<Quiet!Task("tell", "Stopped")>>)
    <3> DEFINE ts == <<Quiet!Task("tell", "Stopped")>>
    <3>1. main' = Tail(main) \o ts /\ ts \in Seq(Task)
      BY <1>3, <2>2, ShortQueues
    <3>2. \A k \in 1..Len(ts) : ts[k].what = "tell"
      BY <1>3, ShortQueues
    <3>3. "tell" \notin Blocks \cup {"posted"}
      BY DEF Blocks
    <3> HIDE DEF ts
    <3> QED
      BY <3>1, <3>2, <3>3
  <2> QED
    BY <1>1, <2>1, <2>2
<1>5. QueueFrom(1, tasks)
  BY <1>1, <1>4, Took
<1>6. job' = [job EXCEPT ![j] = "done"] /\ main[1].of = j
  BY <1>1, <1>2 DEF j
<1>7. HalfwayIsHeld'
  BY <1>1 DEF HalfwayIsHeld
<1> QED
  BY <1>1, <1>2, <1>3, <1>4, <1>5, <1>6, <1>7, JobMoves DEF JobPlaces, Waiting, Blocks, Ending

\* A stop gives up the port before it sets the status.
LEMMA CrossedClose ==
    ASSUME CrossedInv, Crossed!Close
    PROVE  CrossedInv'
<1> DEFINE t == main[1].of
<1>1. /\ main # << >> /\ Head(main).what = "close" /\ job[Head(main).of] = "closing"
      /\ job' = [job EXCEPT ![Head(main).of] = "closed"] /\ UNCHANGED <<main, value, posted>>
  BY DEF Crossed!Close, Crossed!Runs, Crossed!Goto
<1>2. Head(main) = main[1] /\ t \in Jobs /\ job[t] = "closing"
  BY <1>1, BlockRuns DEF Blocks
<1> HIDE DEF t
<1>3. t \in Stops /\ t \notin Starts /\ job' = [job EXCEPT ![t] = "closed"]
  BY <1>1, <1>2, JobNames DEF CrossedInv, JobTypes, Ending, t
<1>4. JobTypes' /\ job'[t] = "closed" /\ \A k \in Jobs \ {t} : job'[k] = job[k]
  BY <1>2, <1>3, JobGoesOn DEF JobPlaces, Ending
<1>5. \A j \in Jobs, w \in Blocks : job[j] \in WaitsAt(w) => job'[j] \in WaitsAt(w)
  BY <1>2, <1>4 DEF WaitsAt, Blocks
<1>6. BlocksOnce'
  BY <1>1, <1>5 DEF CrossedInv, BlocksOnce
<1>7. PostedOnce'
  BY <1>1 DEF CrossedInv, PostedOnce
<1>8. HalfwayIsHeld'
  <2>1. value = "Stopping" => \E r \in Stops : job'[r] \in Ending
    BY <1>3, <1>4 DEF Ending
  <2>2. \A s \in Starts : job'[s] = job[s]
    BY <1>3, <1>4, JobNames
  <2> QED
    BY <1>1, <2>1, <2>2 DEF CrossedInv, HalfwayIsHeld
<1> QED
  BY <1>1, <1>4, <1>6, <1>7, <1>8 DEF CrossedInv

\* A value is posted: its task is there, or it is put at the end of the queue.
LEMMA PostedNow ==
    ASSUME CrossedInv, NEW tasks \in Seq(Task), QueueFrom(0, tasks), posted' \in {"Starting", "Started"},
           IF posted = "NoPost" THEN \E k \in 1..Len(tasks) : tasks[k].what = "posted"
                                ELSE \A k \in 1..Len(tasks) : tasks[k].what # "posted",
           \A k, l \in 1..Len(tasks) : tasks[k].what = "posted" /\ tasks[l].what = "posted" => k = l,
           posted' = "Starting" =>
             \E l \in 1..Len(tasks) : /\ tasks[l].what = "show"
                                      /\ \A k \in 1..Len(tasks) : tasks[k].what = "posted" => k < l
    PROVE  PostedOnce'
<1>0. main \in Seq(Task) /\ PostedOnce
  BY DEF CrossedInv
<1>1. /\ Len(main) \in Nat /\ Len(tasks) \in Nat /\ Len(main') \in Nat
      /\ Len(main') = Len(main) + Len(tasks)
      /\ \A i \in 1..Len(main') :
           \/ i \in 1..Len(main) /\ main'[i] = main[i]
           \/ \E k \in 1..Len(tasks) : i = Len(main) + k /\ main'[i] = tasks[k]
      /\ \A i \in 1..Len(main) : i \in 1..Len(main') /\ main'[i] = main[i]
      /\ \A k \in 1..Len(tasks) : Len(main) + k \in 1..Len(main') /\ main'[Len(main) + k] = tasks[k]
  <2>1. Len(main) \in Nat /\ Len(tasks) \in Nat /\ Len(main') = Len(main) + Len(tasks)
    BY <1>0, LenProperties DEF QueueFrom
  <2>2. \A i \in 1..Len(main) : main'[i] = main[i]
    BY <2>1 DEF QueueFrom
  <2>3. \A k \in 1..Len(tasks) : main'[Len(main) + k] = tasks[k]
    BY <2>1 DEF QueueFrom
  <2>4. \A i \in 1..Len(main') : i \in 1..Len(main) \/ \E k \in 1..Len(tasks) : i = Len(main) + k
    <3> SUFFICES ASSUME NEW i \in 1..Len(main'), i \notin 1..Len(main)
                 PROVE  \E k \in 1..Len(tasks) : i = Len(main) + k
      OBVIOUS
    <3>1. i - Len(main) \in 1..Len(tasks) /\ i = Len(main) + (i - Len(main))
      BY <2>1
    <3> QED
      BY <3>1
  <2>5. \A i \in 1..Len(main') :
          \/ i \in 1..Len(main) /\ main'[i] = main[i]
          \/ \E k \in 1..Len(tasks) : i = Len(main) + k /\ main'[i] = tasks[k]
    BY <2>2, <2>3, <2>4
  <2>6. /\ \A i \in 1..Len(main) : i \in 1..Len(main')
        /\ \A k \in 1..Len(tasks) : Len(main) + k \in 1..Len(main')
    BY <2>1
  <2> QED
    BY <2>1, <2>2, <2>3, <2>5, <2>6
<1>2. PICK p \in 1..Len(main') :
        /\ main'[p].what = "posted"
        /\ \A i \in 1..Len(main') : main'[i].what = "posted" => i = p
        /\ p \in 1..Len(main) \/ \E k \in 1..Len(tasks) : p = Len(main) + k /\ tasks[k].what = "posted"
  <2>1. CASE posted = "NoPost"
    <3>1. PICK k \in 1..Len(tasks) : tasks[k].what = "posted"
      BY <2>1
    <3>2. \A i \in 1..Len(main) : main[i].what # "posted"
      BY <1>0, <2>1, JobNames DEF PostedOnce
    <3>3. \A i \in 1..Len(main') : main'[i].what = "posted" => i = Len(main) + k
      BY <1>1, <3>1, <3>2
    <3> QED
      BY <1>1, <3>1, <3>3
  <2>2. CASE posted # "NoPost"
    <3>1. PICK i \in 1..Len(main) : main[i].what = "posted"
      BY <1>0, <2>2, JobNames DEF PostedOnce
    <3>2. \A k \in 1..Len(tasks) : tasks[k].what # "posted"
      BY <2>2
    <3>3. \A j \in 1..Len(main) : main[j].what = "posted" => j = i
      BY <1>0, <3>1 DEF PostedOnce
    <3>4. \A j \in 1..Len(main') : main'[j].what = "posted" => j = i
      <4> SUFFICES ASSUME NEW j \in 1..Len(main'), main'[j].what = "posted" PROVE j = i
        OBVIOUS
      <4>1. j \in 1..Len(main) /\ main'[j] = main[j]
        BY <1>1, <3>2
      <4> QED
        BY <3>3, <4>1
    <3> QED
      BY <1>1, <3>1, <3>4
  <2> QED
    BY <2>1, <2>2
<1>3. ASSUME posted' = "Starting"
      PROVE  \E i, j \in 1..Len(main') : i < j /\ main'[i].what = "posted" /\ main'[j].what = "show"
  <2>1. PICK l \in 1..Len(tasks) : /\ tasks[l].what = "show"
                                   /\ \A k \in 1..Len(tasks) : tasks[k].what = "posted" => k < l
    BY <1>3
  <2>2. p < Len(main) + l
    <3>1. CASE p \in 1..Len(main)
      BY <1>1, <2>1, <3>1
    <3>2. CASE \E k \in 1..Len(tasks) : p = Len(main) + k /\ tasks[k].what = "posted"
      BY <1>1, <2>1, <3>2
    <3> QED
      BY <1>2, <3>1, <3>2
  <2>3. Len(main) + l \in 1..Len(main') /\ main'[Len(main) + l].what = "show"
    BY <1>1, <2>1
  <2> QED
    BY <1>2, <2>2, <2>3
<1> QED
  BY <1>2, <1>3, JobNames DEF PostedOnce

\* A start posts a value, and for "Starting" has its notification shown.
LEMMA CrossedPosts ==
    ASSUME CrossedInv, NEW s \in Starts, Crossed!Begin(s) \/ Crossed!Report(s)
    PROVE  CrossedInv'
<1>1. PICK v \in {"Starting", "Started"}, p \in {"showing", "core"} :
        /\ job[s] \in {"begin", "report"} /\ job' = [job EXCEPT ![s] = p] /\ posted' = v /\ value' = value
        /\ \/ v = "Starting" /\ p = "showing" /\ job[s] = "begin"
           \/ v = "Started" /\ p = "core" /\ job[s] = "report"
        /\ main' = main \o ((IF posted = "NoPost" THEN <<Quiet!Task("posted", v)>> ELSE << >>)
                            \o (IF v = "Starting" THEN <<Quiet!Task("show", s)>> ELSE << >>))
  <2>1. CASE Crossed!Begin(s)
    <3>1. /\ job[s] = "begin" /\ job' = [job EXCEPT ![s] = "showing"] /\ posted' = "Starting" /\ value' = value
          /\ main' = main \o ((IF posted = "NoPost" THEN <<Quiet!Task("posted", "Starting")>> ELSE << >>)
                              \o <<Quiet!Task("show", s)>>)
      BY <2>1, TasksAre, JobNames DEF Crossed!Begin, Crossed!PostThen, Crossed!Enqueue, Crossed!Goto
    <3> QED
      BY <3>1
  <2>2. CASE Crossed!Report(s)
    <3>1. /\ job[s] = "report" /\ job' = [job EXCEPT ![s] = "core"] /\ posted' = "Started" /\ value' = value
          /\ main' = main \o ((IF posted = "NoPost" THEN <<Quiet!Task("posted", "Started")>> ELSE << >>)
                              \o << >>)
      BY <2>2, TasksAre, JobNames DEF Crossed!Report, Crossed!Reported, Crossed!PostThen, Crossed!Enqueue, Crossed!Goto
    <3> QED
      BY <3>1
  <2> QED
    BY <2>1, <2>2
<1> DEFINE P == Quiet!Task("posted", v)
           S == Quiet!Task("show", s)
<1>2. /\ P \in Task /\ P.what = "posted" /\ S \in Task /\ S.what = "show" /\ S.of = s
      /\ s \in Jobs /\ s \notin Stops
  BY TasksAre, JobNames DEF Whats
<1> HIDE DEF P, S
<1>3. PICK tasks \in Seq(Task) :
        /\ main' = main \o tasks
        /\ tasks = IF posted = "NoPost" THEN (IF v = "Starting" THEN <<P, S>> ELSE <<P>>)
                                        ELSE (IF v = "Starting" THEN <<S>> ELSE << >>)
  <2>1. /\ <<P>> \o <<S>> = <<P, S>> /\ << >> \o <<S>> = <<S>>
        /\ <<P, S>> \in Seq(Task) /\ <<P>> \in Seq(Task) /\ <<S>> \in Seq(Task) /\ << >> \in Seq(Task)
    BY <1>2, ShortQueues
  <2>2. <<P>> \o << >> = <<P>> /\ << >> \o << >> = << >>
    BY <2>1, ConcatEmptySeq
  <2> QED
    BY <1>1, <2>1, <2>2 DEF P, S
<1>4. QueueFrom(0, tasks)
  BY <1>3, Enqueued DEF CrossedInv
<1>5. \A k \in 1..Len(tasks) : tasks[k] \in {P, S} /\ (tasks[k] = S => v = "Starting")
                                /\ (tasks[k] = P => posted = "NoPost" /\ k = 1)
                                /\ (tasks[k] = S => k = Len(tasks))
  <2>1. Len(<<P, S>>) = 2 /\ Len(<<P>>) = 1 /\ Len(<<S>>) = 1 /\ Len(<< >>) = 0
    OBVIOUS
  <2> QED
    BY <1>2, <1>3, <2>1
<1>6. /\ posted = "NoPost" => 1 \in 1..Len(tasks) /\ tasks[1] = P
      /\ v = "Starting" => Len(tasks) \in 1..Len(tasks) /\ tasks[Len(tasks)] = S
      /\ posted = "NoPost" /\ v = "Starting" => 1 < Len(tasks)
  BY <1>3
<1>7. PostedOnce'
  <2>1. IF posted = "NoPost" THEN \E k \in 1..Len(tasks) : tasks[k].what = "posted"
                             ELSE \A k \in 1..Len(tasks) : tasks[k].what # "posted"
    BY <1>2, <1>5, <1>6
  <2>2. \A k, l \in 1..Len(tasks) : tasks[k].what = "posted" /\ tasks[l].what = "posted" => k = l
    BY <1>2, <1>5
  <2>3. v = "Starting" =>
          \E l \in 1..Len(tasks) : /\ tasks[l].what = "show"
                                   /\ \A k \in 1..Len(tasks) : tasks[k].what = "posted" => k < l
    BY <1>2, <1>5, <1>6
  <2> QED
    BY <1>1, <1>4, <2>1, <2>2, <2>3, PostedNow
<1>8. JobTypes' /\ job'[s] = p /\ \A k \in Jobs \ {s} : job'[k] = job[k]
  BY <1>1, <1>2, JobGoesOn DEF JobPlaces, Ending
<1>9. BlocksOnce'
  <2>1. \A k \in Jobs : job'[k] # job[k] /\ job[k] \in Waiting =>
          0 = 1 /\ main[1].what \in Blocks /\ main[1].of = k
    BY <1>1, <1>8 DEF Waiting
  <2>2. \A k \in 1..Len(tasks) : tasks[k].what \in Blocks =>
          /\ tasks[k].of \in Jobs /\ job'[tasks[k].of] \in WaitsAt(tasks[k].what)
          /\ job[tasks[k].of] \notin WaitsAt(tasks[k].what)
    BY <1>1, <1>2, <1>5, <1>8 DEF Blocks, WaitsAt
  <2>3. \A k, l \in 1..Len(tasks) : tasks[k].what \in Blocks /\ tasks[l].what \in Blocks => k = l
    BY <1>2, <1>5 DEF Blocks
  <2> QED
    BY <1>4, <2>1, <2>2, <2>3, BlocksKept
<1>10. HalfwayIsHeld'
  <2>1. job[s] \notin Ending /\ (p \in Early \/ posted' = "Started")
    BY <1>1 DEF Early, Ending
  <2> QED
    BY <1>1, <2>1, StartHolds DEF JobPlaces, Ending
<1> QED
  BY <1>1, <1>4, <1>7, <1>8, <1>9, <1>10 DEF CrossedInv, QueueFrom

\* A job goes on beside the main thread, perhaps to a block there.
LEMMA CrossedGoesOn ==
    ASSUME CrossedInv, NEW j \in Jobs, NEW p \in JobPlaces, job[j] \notin Waiting, job[j] # p,
           job' = [job EXCEPT ![j] = p], posted' = posted, value' = value,
           j \in Starts => p \notin Ending,
           j \in Stops => p \in {"unused", "done"} \cup Ending,
           NEW w \in Blocks,
           \/ main' = main
           \/ p \in WaitsAt(w) /\ main' = main \o <<Quiet!Task(w, j)>>,
           HalfwayIsHeld'
    PROVE  CrossedInv'
<1>0. main \in Seq(Task) /\ value \in Quiet!Status
  BY DEF CrossedInv
<1>1. CASE main' = main
  <2>1. QueueFrom(0, << >>) /\ << >> \in Seq(Task)
    <3>1. main' = main \o << >>
      BY <1>0, <1>1, ConcatEmptySeq
    <3> QED
      BY <1>0, <3>1, ShortQueues, Enqueued
  <2>2. 1..Len(<< >>) = {} /\ 0 \in {0, 1} /\ 0 # 1
    BY ShortQueues
  <2> DEFINE tasks == << >>
  <2>3. /\ tasks \in Seq(Task) /\ QueueFrom(0, tasks) /\ 1..Len(tasks) = {}
    BY <2>1, <2>2
  <2> HIDE DEF tasks
  <2> QED
    BY <1>0, <2>2, <2>3, JobMoves
<1>2. CASE p \in WaitsAt(w) /\ main' = main \o <<Quiet!Task(w, j)>>
  <2>1. Quiet!Task(w, j) \in Task /\ Quiet!Task(w, j).what = w /\ Quiet!Task(w, j).of = j /\ w # "posted"
    BY TasksAre DEF Blocks, Whats
  <2>2. QueueFrom(0, <<Quiet!Task(w, j)>>) /\ <<Quiet!Task(w, j)>> \in Seq(Task)
    BY <1>0, <1>2, <2>1, ShortQueues, Enqueued
  <2>3. Len(<<Quiet!Task(w, j)>>) = 1 /\ <<Quiet!Task(w, j)>>[1] = Quiet!Task(w, j)
    BY ShortQueues
  <2>4. \A k \in 1..Len(<<Quiet!Task(w, j)>>) :
          /\ k = 1 /\ <<Quiet!Task(w, j)>>[k].what = w
          /\ <<Quiet!Task(w, j)>>[k].of = j
    BY <2>1, <2>3
  <2> DEFINE tasks == <<Quiet!Task(w, j)>>
  <2>5. /\ tasks \in Seq(Task) /\ QueueFrom(0, tasks) /\ 0 \in {0, 1} /\ 0 # 1
        /\ \A k \in 1..Len(tasks) : tasks[k].what # "posted" /\ tasks[k].of = j /\ p \in WaitsAt(tasks[k].what)
              /\ job[j] \notin WaitsAt(tasks[k].what)
        /\ \A k, l \in 1..Len(tasks) : k = l
    <3>1. job[j] \notin WaitsAt(w)
      BY DEF WaitsAt, Waiting
    <3> QED
      BY <1>2, <2>1, <2>2, <2>4, <3>1
  <2> HIDE DEF tasks
  <2> QED
    BY <1>0, <2>5, JobMoves
<1> QED
  BY <1>1, <1>2

LEMMA CrossedStartStep ==
    ASSUME CrossedInv, NEW s \in Starts, Crossed!StartStep(s)
    PROVE  CrossedInv'
<1>0. s \in Jobs /\ s \notin Stops
  BY JobNames
<1>1. ASSUME NEW p \in {"setup", "report", "done", "alerting"}, job' = [job EXCEPT ![s] = p],
             job[s] \in {"monitor", "setup", "core"}, job[s] # p, UNCHANGED <<value, posted>>,
             p = "done" => job[s] = "core",
             \/ main' = main
             \/ p = "alerting" /\ main' = main \o <<Quiet!Task("alert", s)>>
      PROVE  CrossedInv'
  <2>1. p \in JobPlaces \ Ending /\ job[s] \notin Waiting
    BY <1>1 DEF JobPlaces, Waiting, Ending
  <2>2. HalfwayIsHeld'
    <3>1. job[s] \notin Ending /\ (p \in Early \/ job[s] \notin Early)
      BY <1>1 DEF Early, Ending
    <3> QED
      BY <1>1, <2>1, <3>1, StartHolds
  <2>3. "alert" \in Blocks /\ "alerting" \in WaitsAt("alert")
    BY DEF Blocks, WaitsAt
  <2> QED
    BY <1>0, <1>1, <2>1, <2>2, <2>3, CrossedGoesOn
<1>2. CASE Crossed!NoConfig(s) \/ Crossed!SetupThrows(s) \/ Crossed!CoreThrows(s)
  <2>1. /\ job' = [job EXCEPT ![s] = "alerting"] /\ job[s] \in {"monitor", "setup", "core"}
        /\ UNCHANGED <<value, posted>> /\ main' = main \o <<Quiet!Task("alert", s)>>
    BY <1>2, TasksAre DEF Crossed!NoConfig, Crossed!SetupThrows, Crossed!CoreThrows, Crossed!GiveUp,
                          Crossed!Goto, Crossed!Enqueue
  <2> QED
    BY <1>1, <2>1
<1>3. CASE Crossed!StartMonitor(s)
  BY <1>1, <1>3 DEF Crossed!StartMonitor, Crossed!Goto
<1>4. CASE Crossed!Setup(s)
  BY <1>1, <1>4 DEF Crossed!Setup, Crossed!Goto
<1>5. CASE Crossed!CoreStarted(s)
  BY <1>1, <1>5 DEF Crossed!CoreStarted, Crossed!Goto
<1> QED
  BY <1>2, <1>3, <1>4, <1>5, CrossedPosts DEF Crossed!StartStep

LEMMA CrossedRelease ==
    ASSUME CrossedInv, NEW t \in Stops, Crossed!Release(t)
    PROVE  CrossedInv'
<1>1. /\ job[t] = "release" /\ job' = [job EXCEPT ![t] = "closing"] /\ UNCHANGED <<value, posted>>
      /\ main' = main \o <<Quiet!Task("close", t)>>
  BY TasksAre DEF Crossed!Release, Crossed!Goto, Crossed!Enqueue
<1>2. t \in Jobs /\ t \notin Starts /\ "closing" \in JobPlaces
  BY JobNames DEF JobPlaces
<1>3. job'[t] = "closing" /\ \A k \in Jobs \ {t} : job'[k] = job[k]
  BY <1>1, <1>2, JobGoesOn DEF Ending
<1>4. HalfwayIsHeld'
  BY <1>1, <1>2, <1>3, JobNames DEF CrossedInv, HalfwayIsHeld, Ending
<1>5. "close" \in Blocks /\ "closing" \in WaitsAt("close") /\ "release" \notin Waiting
  BY DEF Blocks, WaitsAt, Waiting
<1> QED
  BY <1>1, <1>2, <1>4, <1>5, CrossedGoesOn DEF Ending

LEMMA CrossedInit == Quiet!Init => CrossedInv
<1> SUFFICES ASSUME Quiet!Init PROVE CrossedInv
  OBVIOUS
<1>1. /\ main = << >> /\ Len(main) = 0 /\ value = "Stopped" /\ posted = "NoPost"
      /\ job = [j \in Jobs |-> "unused"]
  BY JobNames DEF Quiet!Init, Jobs
<1>2. BlocksOnce /\ PostedOnce
  BY <1>1, JobNames DEF BlocksOnce, PostedOnce
<1>3. JobTypes /\ HalfwayIsHeld
  BY <1>1, JobNames DEF JobTypes, HalfwayIsHeld, JobPlaces, Ending
<1> QED
  BY <1>1, <1>2, <1>3, ShortQueues, JobNames DEF CrossedInv

LEMMA CrossedMain == CrossedInv /\ Crossed!Main => CrossedInv'
BY CrossedTell, CrossedCommand, CrossedDeliver, CrossedShow, CrossedClose, CrossedEnd DEF Crossed!Main

LEMMA CrossedNext == CrossedInv /\ [Crossed!Next]_serviceVars => CrossedInv'
<1> SUFFICES ASSUME CrossedInv, [Crossed!Next]_serviceVars PROVE CrossedInv'
  OBVIOUS
<1>1. CASE UNCHANGED serviceVars
  BY <1>1 DEF serviceVars, CrossedInv, JobTypes, BlocksOnce, PostedOnce, HalfwayIsHeld
<1>2. CASE Crossed!AskStart
  <2>1. UNCHANGED <<value, posted, job>>
    BY <1>2 DEF Crossed!AskStart
  <2>2. PICK i \in 1..(Len(main) + 1) : main' = Quiet!InsertAt(main, i, Quiet!Task("start", "app"))
    <3>1. \A i : Crossed!InsertAt(main, i, Crossed!Task("start", "app"))
                = Quiet!InsertAt(main, i, Quiet!Task("start", "app"))
      BY TasksAre DEF Crossed!InsertAt, Quiet!InsertAt
    <3>2. PICK i \in (IF Crossed!Held THEN 2 ELSE 1)..(Len(main) + 1) :
            main' = Crossed!InsertAt(main, i, Crossed!Task("start", "app"))
      BY <1>2 DEF Crossed!AskStart
    <3>3. i \in 1..(Len(main) + 1)
      BY <3>2, LenProperties DEF CrossedInv
    <3> QED
      BY <3>1, <3>2, <3>3
  <2>3. Quiet!Task("start", "app") \in Task /\ Quiet!Task("start", "app").what = "start"
    BY TasksAre DEF Whats
  <2> QED
    BY <2>1, <2>2, <2>3, Inserted, CrossedAskStart DEF CrossedInv
<1>3. CASE Crossed!TileStart \/ Crossed!AskStop \/ Crossed!Revoke
  <2>1. /\ UNCHANGED <<value, posted, job>>
        /\ \E w \in {"command", "stop"}, o \in {"app", "tile", "system"} :
             main' = main \o <<Quiet!Task(w, o)>> \/ main' = main \o << >>
    BY <1>3, TasksAre DEF Crossed!TileStart, Crossed!AskStop, Crossed!Revoke, Crossed!Enqueue
  <2> QED
    BY <2>1, CrossedAsk
<1> QED
  BY <1>1, <1>2, <1>3, CrossedMain, CrossedStartStep, CrossedRelease DEF Crossed!Next

\* Once nothing is under way, nothing holds a status half way.
LEMMA CrossedSettles == CrossedInv => Crossed!NothingHalfway
<1> SUFFICES ASSUME CrossedInv, Crossed!AtRest PROVE value \in {"Started", "Stopped"}
  BY DEF Crossed!NothingHalfway
<1>1. Len(main) = 0 /\ \A j \in Jobs : job[j] \in {"unused", "done"}
  BY JobNames DEF Crossed!AtRest, Crossed!Running
<1>2. posted = "NoPost"
  BY <1>1, JobNames DEF CrossedInv, PostedOnce
<1> QED
  BY <1>1, <1>2, JobNames DEF CrossedInv, HalfwayIsHeld, Early, Ending

\* The same, when stops wait for starts to end and no start fails.
LEMMA RunningIs ==
    /\ \A j : Quiet!Running(j) <=> job[j] \notin {"unused", "done"}
    /\ \A j : Quiet!Running(j)' <=> job'[j] \notin {"unused", "done"}
    /\ Quiet!AtRest <=> main = << >> /\ \A j \in Jobs : job[j] \in {"unused", "done"}
BY DEF Quiet!Running, Quiet!AtRest, Jobs

\* A step of the one job under way, or of one that begins when there is none.
LEMMA OneJobSteps ==
    ASSUME QuietInv, NEW j \in Jobs, NEW p \in JobPlaces, job' = [job EXCEPT ![j] = p],
           Quiet!Running(j) \/ \A k \in Jobs : ~Quiet!Running(k), JobKnows(j)'
    PROVE  /\ \A k, l \in Jobs : Quiet!Running(k)' /\ Quiet!Running(l)' => k = l
           /\ \A k \in Jobs : JobKnows(k)'
           /\ job'[j] = p /\ \A k \in Jobs \ {j} : job'[k] = job[k] /\ job[k] \in {"unused", "done"}
<1>1. job'[j] = p /\ \A k \in Jobs \ {j} : job'[k] = job[k] /\ job[k] \in {"unused", "done"}
  BY RunningIs DEF QuietInv, CrossedInv, JobTypes
<1>2. ASSUME NEW k \in Jobs \ {j} PROVE JobKnows(k)'
  <2>1. job'[k] \in {"unused", "done"}
    BY <1>1
  <2> QED
    BY <2>1 DEF JobKnows, Early, Ending
<1> QED
  BY <1>1, <1>2, RunningIs

\* No job moves.
LEMMA NoJobSteps ==
    ASSUME QuietInv, job' = job
    PROVE  \A k, l \in Jobs : Quiet!Running(k)' /\ Quiet!Running(l)' => k = l
BY RunningIs DEF QuietInv

\* Nothing in the queue tells a start that is over, or stops one that is not.
LEMMA QueueKnows ==
    ASSUME QuietInv, NEW n \in {0, 1}, NEW tasks \in Seq(Task), QueueFrom(n, tasks),
           \A k \in 1..Len(tasks) :
             tasks[k].what # "stop" /\ (tasks[k] = TellStarted => value' = "Started"),
           value = "Started" => value' = "Started" /\ main # << >> /\ main[1].what # "stop"
    PROVE  \A i \in 1..Len(main') :
             /\ main'[i] = TellStarted => value' = "Started"
             /\ main'[i].what # "stop"
<1>1. /\ main \in Seq(Task) /\ Len(main) \in Nat
      /\ \A i \in 1..Len(main) : main[i] = TellStarted => value = "Started"
      /\ \A i \in 1..Len(main) : main[i].what = "stop" => value = "Started" /\ Len(main) = 1
  BY LenProperties DEF QuietInv, CrossedInv, NewsKnows
<1>2. \A i \in 1..Len(main) : main[i].what # "stop"
  <2> SUFFICES ASSUME NEW i \in 1..Len(main), main[i].what = "stop" PROVE FALSE
    OBVIOUS
  <2>1. i = 1
    BY <1>1
  <2> QED
    BY <1>1, <2>1
<1> SUFFICES ASSUME NEW i \in 1..Len(main')
             PROVE  /\ main'[i] = TellStarted => value' = "Started"
                    /\ main'[i].what # "stop"
  OBVIOUS
<1>3. CASE i + n \in 1..Len(main) /\ main'[i] = main[i + n]
  BY <1>1, <1>2, <1>3
<1>4. CASE \E k \in 1..Len(tasks) : i = Len(main) - n + k /\ main'[i] = tasks[k]
  BY <1>4
<1> QED
  BY <1>1, <1>3, <1>4, QueueParts

\* What each status says while a start is under way.
LEMMA StartKnows ==
    ASSUME QuietInv, NEW s \in Jobs, job[s] \in Early
    PROVE  /\ value = "Starting" /\ receiver /\ posted \in {"NoPost", "Starting"}
           /\ job[s] # "report" => ~server
           /\ posted = "Starting" => job[s] = "showing"
           /\ s \in Starts /\ s \notin Stops
           /\ \A i \in 1..Len(main) : main[i] # TellStarted /\ main[i].what # "stop"
<1>1. JobKnows(s) /\ PostedOnce /\ JobTypes /\ NewsKnows
  BY DEF QuietInv, CrossedInv
<1>2. value = "Starting" /\ receiver /\ posted \in {"NoPost", "Starting"}
  BY <1>1, JobNames DEF JobKnows, PostedOnce
<1>3. (job[s] # "report" => ~server) /\ (posted = "Starting" => job[s] = "showing")
  BY <1>1 DEF JobKnows
<1>4. s \in Starts /\ s \notin Stops
  BY <1>1, JobNames DEF JobTypes, Early, Ending
<1>5. \A i \in 1..Len(main) : main[i] # TellStarted /\ main[i].what # "stop"
  BY <1>1, <1>2 DEF NewsKnows
<1> QED
  BY <1>2, <1>3, <1>4, <1>5

\* A step of a start that is under way.
LEMMA QuietStarts ==
    ASSUME QuietInv, CrossedInv', NEW s \in Jobs, job[s] \in Early, NEW p \in JobPlaces,
           job' = [job EXCEPT ![s] = p], p \in Early \/ p = "core",
           UNCHANGED <<value, receiver>>, {server', monitor'} \subseteq BOOLEAN,
           NEW n \in {0, 1}, NEW tasks \in Seq(Task), QueueFrom(n, tasks),
           \A k \in 1..Len(tasks) : tasks[k].what \notin {"stop", "tell"},
           JobKnows(s)', posted' = "Started" => server' /\ monitor'
    PROVE  QuietInv'
<1>1. value = "Starting" /\ receiver
  BY StartKnows
<1>2. Quiet!Running(s)
  BY RunningIs DEF Early
<1>3. /\ \A k, l \in Jobs : Quiet!Running(k)' /\ Quiet!Running(l)' => k = l
      /\ \A k \in Jobs : JobKnows(k)'
  BY <1>2, OneJobSteps
<1>4. StatusKnows'
  BY <1>1 DEF StatusKnows
<1>5. \A k \in 1..Len(tasks) :
        tasks[k].what # "stop" /\ (tasks[k] = TellStarted => value' = "Started")
  BY JobNames DEF TellStarted
<1>6. NewsKnows'
  BY <1>1, <1>5, QueueKnows, JobNames DEF NewsKnows, TellStarted
<1> QED
  BY <1>1, <1>3, <1>4, <1>6 DEF QuietInv

\* What a step of the quiet service does to the queue is what one of the other does.
LEMMA QuietIsCrossed ==
    /\ \A s \in Starts : Quiet!StartStep(s) => Crossed!StartStep(s) /\ ~Quiet!CoreThrows(s)
    /\ \A t \in Stops : Quiet!Release(t) => Crossed!Release(t)
    /\ Quiet!Main => Crossed!Main
<1>1. ASSUME NEW s \in Starts, Quiet!StartStep(s) PROVE Crossed!StartStep(s) /\ ~Quiet!CoreThrows(s)
  <2>1. ~Quiet!CoreThrows(s)
    BY DEF Quiet!CoreThrows
  <2>2. Quiet!Begin(s) => Crossed!Begin(s)
    BY JobNames DEF Quiet!Begin, Crossed!Begin, Quiet!PostThen, Crossed!PostThen, Quiet!Enqueue,
                    Crossed!Enqueue, Quiet!Goto, Crossed!Goto
  <2>3. Quiet!Report(s) => Crossed!Report(s)
    BY JobNames DEF Quiet!Report, Crossed!Report, Quiet!PostThen, Crossed!PostThen, Quiet!Enqueue,
                    Crossed!Enqueue, Quiet!Goto, Crossed!Goto, Quiet!Reported, Crossed!Reported
  <2>4. /\ Quiet!NoConfig(s) => Crossed!NoConfig(s)
        /\ Quiet!SetupThrows(s) => Crossed!SetupThrows(s)
    BY JobNames DEF Quiet!NoConfig, Crossed!NoConfig, Quiet!SetupThrows, Crossed!SetupThrows,
                    Quiet!GiveUp, Crossed!GiveUp, Quiet!Enqueue, Crossed!Enqueue, Quiet!Goto, Crossed!Goto
  <2>5. /\ Quiet!StartMonitor(s) => Crossed!StartMonitor(s)
        /\ Quiet!Setup(s) => Crossed!Setup(s)
        /\ Quiet!CoreStarted(s) => Crossed!CoreStarted(s)
    BY DEF Quiet!StartMonitor, Crossed!StartMonitor, Quiet!Setup, Crossed!Setup,
           Quiet!CoreStarted, Crossed!CoreStarted, Quiet!Goto, Crossed!Goto
  <2> QED
    BY <1>1, <2>1, <2>2, <2>3, <2>4, <2>5 DEF Quiet!StartStep, Crossed!StartStep
<1>2. ASSUME NEW t \in Stops, Quiet!Release(t) PROVE Crossed!Release(t)
  BY <1>2, JobNames DEF Quiet!Release, Crossed!Release, Quiet!Enqueue, Crossed!Enqueue, Quiet!Goto, Crossed!Goto
<1>3. Quiet!Main => Crossed!Main
  <2>1. /\ Quiet!StartAsked => Crossed!StartAsked
        /\ Quiet!Refused => Crossed!Refused
        /\ Quiet!Tell => Crossed!Tell
        /\ Quiet!Apply => Crossed!Apply
    BY JobNames
    DEF Quiet!StartAsked, Crossed!StartAsked, Quiet!Refused, Crossed!Refused, Quiet!Tell, Crossed!Tell,
        Quiet!Apply, Crossed!Apply,
        Quiet!Runs, Crossed!Runs, Quiet!Dequeue, Crossed!Dequeue, Quiet!Answers, Crossed!Answers,
        Quiet!Ready, Crossed!Ready
  <2>2. /\ Quiet!OnStartCommand => Crossed!OnStartCommand
        /\ Quiet!StopService => Crossed!StopService
        /\ Quiet!Deliver => Crossed!Deliver
    BY JobNames
    DEF Quiet!OnStartCommand, Crossed!OnStartCommand, Quiet!StopService, Crossed!StopService,
        Quiet!Deliver, Crossed!Deliver, Quiet!Runs, Crossed!Runs, Quiet!Dequeue, Crossed!Dequeue,
        Quiet!SetValue, Crossed!SetValue, Quiet!Goto, Crossed!Goto, Quiet!PostedAfter, Crossed!PostedAfter,
        Quiet!ReceiverAfterStart, Crossed!ReceiverAfterStart
  <2>3. /\ Quiet!Show => Crossed!Show
        /\ Quiet!Alert => Crossed!Alert
        /\ Quiet!Close => Crossed!Close
        /\ Quiet!Closed => Crossed!Closed
    BY JobNames
    DEF Quiet!Show, Crossed!Show, Quiet!Alert, Crossed!Alert, Quiet!Close, Crossed!Close,
        Quiet!Closed, Crossed!Closed,
        Quiet!Runs, Crossed!Runs, Quiet!Dequeue, Crossed!Dequeue, Quiet!SetValue, Crossed!SetValue,
        Quiet!Goto, Crossed!Goto, Quiet!AlertStatus, Crossed!AlertStatus,
        Quiet!ServerAfterClose, Crossed!ServerAfterClose
  <2> QED
    BY <2>1, <2>2, <2>3 DEF Quiet!Main, Crossed!Main
<1> QED
  BY <1>1, <1>2, <1>3

\* A start adds no news and no stop to the queue.
LEMMA StartTasks ==
    ASSUME QuietInv, NEW s \in Starts, Quiet!StartStep(s)
    PROVE  \E tasks \in Seq(Task) :
             /\ QueueFrom(0, tasks)
             /\ \A k \in 1..Len(tasks) : tasks[k].what \notin {"stop", "tell"}
<1>0. main \in Seq(Task)
  BY DEF QuietInv, CrossedInv
<1>1. ASSUME NEW tasks \in Seq(Task), main' = main \o tasks,
             \A k \in 1..Len(tasks) : tasks[k].what \notin {"stop", "tell"}
      PROVE  \E ts \in Seq(Task) :
               QueueFrom(0, ts) /\ \A k \in 1..Len(ts) : ts[k].what \notin {"stop", "tell"}
  BY <1>0, <1>1, Enqueued
<1>2. CASE UNCHANGED main
  <2>1. main' = main \o << >> /\ << >> \in Seq(Task) /\ 1..Len(<< >>) = {}
    BY <1>0, <1>2, ConcatEmptySeq, ShortQueues
  <2> QED
    BY <1>1, <2>1
<1>3. CASE main' = main \o <<Quiet!Task("alert", s)>>
  <2> DEFINE tasks == <<Quiet!Task("alert", s)>>
  <2>1. Quiet!Task("alert", s) \in Task /\ Quiet!Task("alert", s).what = "alert"
    BY TasksAre, JobNames DEF Whats
  <2>2. tasks \in Seq(Task) /\ Len(tasks) = 1 /\ tasks[1].what = "alert"
    BY <2>1, ShortQueues
  <2>3. \A k \in 1..Len(tasks) : tasks[k].what \notin {"stop", "tell"}
    BY <2>2
  <2>4. main' = main \o tasks
    BY <1>3
  <2> HIDE DEF tasks
  <2> QED
    BY <1>1, <2>2, <2>3, <2>4
<1>4. ASSUME NEW v \in {"Starting", "Started"}, NEW rest \in {<< >>, <<Quiet!Task("show", s)>>},
             main' = main \o ((IF posted = "NoPost" THEN <<Quiet!Task("posted", v)>> ELSE << >>) \o rest)
      PROVE  \E ts \in Seq(Task) :
               QueueFrom(0, ts) /\ \A k \in 1..Len(ts) : ts[k].what \notin {"stop", "tell"}
  <2> DEFINE first == IF posted = "NoPost" THEN <<Quiet!Task("posted", v)>> ELSE << >>
  <2>1. /\ Quiet!Task("posted", v) \in Task /\ Quiet!Task("posted", v).what = "posted"
        /\ Quiet!Task("show", s) \in Task /\ Quiet!Task("show", s).what = "show"
    BY TasksAre, JobNames DEF Whats
  <2>2. /\ first \in Seq(Task) /\ rest \in Seq(Task)
        /\ \A k \in 1..Len(first) : first[k].what \notin {"stop", "tell"}
        /\ \A k \in 1..Len(rest) : rest[k].what \notin {"stop", "tell"}
    <3> DEFINE Harmless(q) == q \in Seq(Task) /\ \A k \in 1..Len(q) : q[k].what \notin {"stop", "tell"}
    <3>1. Harmless(<< >>)
      BY ShortQueues
    <3>2. ASSUME NEW t \in Task, t.what \notin {"stop", "tell"} PROVE Harmless(<<t>>)
      <4>1. Len(<<t>>) = 1 /\ <<t>>[1] = t /\ <<t>> \in Seq(Task)
        BY ShortQueues
      <4> QED
        BY <3>2, <4>1
    <3>3. Harmless(<<Quiet!Task("posted", v)>>) /\ Harmless(<<Quiet!Task("show", s)>>)
      BY <2>1, <3>2
    <3> HIDE DEF Harmless
    <3>4. Harmless(first) /\ Harmless(rest)
      BY <1>4, <3>1, <3>3
    <3> QED
      BY <3>4 DEF Harmless
  <2>3. main' = main \o (first \o rest)
    BY <1>4
  <2> HIDE DEF first
  <2>4. /\ first \o rest \in Seq(Task) /\ Len(first \o rest) = Len(first) + Len(rest)
        /\ Len(first) \in Nat /\ Len(rest) \in Nat
        /\ \A k \in 1..(Len(first) + Len(rest)) :
             (first \o rest)[k] = IF k <= Len(first) THEN first[k] ELSE rest[k - Len(first)]
    BY <2>2, ConcatProperties, LenProperties
  <2>5. \A k \in 1..Len(first \o rest) : (first \o rest)[k].what \notin {"stop", "tell"}
    BY <2>2, <2>4
  <2> QED
    BY <1>1, <2>3, <2>4, <2>5
<1>5. CASE Quiet!Begin(s)
  <2>1. main' = main \o ((IF posted = "NoPost" THEN <<Quiet!Task("posted", "Starting")>> ELSE << >>)
                         \o <<Quiet!Task("show", s)>>)
    BY <1>5, JobNames DEF Quiet!Begin, Quiet!PostThen, Quiet!Enqueue
  <2> QED
    BY <1>4, <2>1
<1>6. CASE Quiet!Report(s)
  <2>1. main' = main \o ((IF posted = "NoPost" THEN <<Quiet!Task("posted", "Started")>> ELSE << >>) \o << >>)
    BY <1>6, JobNames DEF Quiet!Report, Quiet!Reported, Quiet!PostThen, Quiet!Enqueue
  <2> QED
    BY <1>4, <2>1
<1>7. CASE Quiet!NoConfig(s) \/ Quiet!SetupThrows(s)
  BY <1>3, <1>7 DEF Quiet!NoConfig, Quiet!SetupThrows, Quiet!GiveUp, Quiet!Enqueue
<1>8. CASE Quiet!StartMonitor(s) \/ Quiet!Setup(s) \/ Quiet!CoreStarted(s)
  BY <1>2, <1>8 DEF Quiet!StartMonitor, Quiet!Setup, Quiet!CoreStarted
<1> QED
  BY <1>5, <1>6, <1>7, <1>8, QuietIsCrossed DEF Quiet!StartStep

LEMMA QuietStartStep ==
    ASSUME QuietInv, NEW s \in Starts, Quiet!StartStep(s)
    PROVE  QuietInv'
<1>0. s \in Jobs /\ CrossedInv' /\ ~Quiet!CoreThrows(s)
  BY QuietIsCrossed, CrossedStartStep, JobNames DEF QuietInv
<1>1. PICK tasks \in Seq(Task) :
        QueueFrom(0, tasks) /\ \A k \in 1..Len(tasks) : tasks[k].what \notin {"stop", "tell"}
  BY StartTasks
<1>2. {receiver, server, monitor} \subseteq BOOLEAN /\ JobKnows(s) /\ job \in [Jobs -> JobPlaces]
  BY <1>0 DEF QuietInv, CrossedInv, JobTypes
<1>3. ASSUME job[s] \in Early, NEW p \in JobPlaces, job' = [job EXCEPT ![s] = p], p \in Early \/ p = "core",
             UNCHANGED <<value, receiver>>, {server', monitor'} \subseteq BOOLEAN,
             p = "setup" => monitor', p = "report" => monitor' /\ server',
             p \in Early \ {"report"} => ~server', posted' \in {posted, "Starting", "Started"},
             posted' = "Starting" => p = "showing" \/ (posted' = posted /\ p = "core"),
             posted' = "Started" <=> p = "core", posted' = "Started" => server' /\ monitor',
             p # "begin"
      PROVE  QuietInv'
  <2>1. job'[s] = p
    BY <1>0, <1>2, <1>3
  <2>2. value = "Starting" /\ receiver
    BY <1>0, <1>3, StartKnows
  <2>3. p \notin Ending
    BY <1>3 DEF Early, Ending
  <2>4. JobKnows(s)'
    BY <1>3, <2>1, <2>2, <2>3 DEF JobKnows, Ending
  <2> QED
    BY <1>0, <1>1, <1>3, <2>4, QuietStarts
<1>4. CASE Quiet!Begin(s)
  <2>1. /\ job[s] = "begin" /\ job' = [job EXCEPT ![s] = "showing"] /\ posted' = "Starting"
        /\ UNCHANGED <<value, receiver, server, monitor>>
    BY <1>4 DEF Quiet!Begin, Quiet!PostThen, Quiet!Goto
  <2>2. ~server
    BY <1>2, <2>1 DEF JobKnows, Early
  <2> QED
    BY <1>2, <1>3, <2>1, <2>2 DEF Early, JobPlaces
<1>5. CASE Quiet!NoConfig(s) \/ Quiet!SetupThrows(s)
  <2>1. /\ job[s] \in {"monitor", "setup"} /\ job' = [job EXCEPT ![s] = "alerting"]
        /\ UNCHANGED <<value, receiver, server, monitor, posted>>
    BY <1>5 DEF Quiet!NoConfig, Quiet!SetupThrows, Quiet!GiveUp, Quiet!Goto
  <2>2. ~server /\ posted = "NoPost"
    BY <1>0, <2>1, StartKnows DEF Early
  <2> QED
    BY <1>2, <1>3, <2>1, <2>2 DEF Early, JobPlaces
<1>6. CASE Quiet!StartMonitor(s)
  <2>1. /\ job[s] = "monitor" /\ job' = [job EXCEPT ![s] = "setup"] /\ monitor' = TRUE
        /\ UNCHANGED <<value, receiver, server, posted>>
    BY <1>6 DEF Quiet!StartMonitor, Quiet!Goto
  <2>2. ~server /\ posted = "NoPost"
    BY <1>0, <2>1, StartKnows DEF Early
  <2> QED
    BY <1>2, <1>3, <2>1, <2>2 DEF Early, JobPlaces
<1>7. CASE Quiet!Setup(s)
  <2>1. /\ job[s] = "setup" /\ job' = [job EXCEPT ![s] = "report"] /\ server' = TRUE
        /\ UNCHANGED <<value, receiver, monitor, posted>>
    BY <1>7 DEF Quiet!Setup, Quiet!Goto
  <2>2. monitor /\ posted = "NoPost"
    BY <1>0, <1>2, <2>1, StartKnows DEF Early, JobKnows
  <2> QED
    BY <1>2, <1>3, <2>1, <2>2 DEF Early, JobPlaces
<1>8. CASE Quiet!Report(s)
  <2>1. /\ job[s] = "report" /\ job' = [job EXCEPT ![s] = "core"] /\ posted' = "Started"
        /\ UNCHANGED <<value, receiver, server, monitor>>
    BY <1>8 DEF Quiet!Report, Quiet!Reported, Quiet!PostThen, Quiet!Goto
  <2>2. monitor /\ server
    BY <1>2, <2>1 DEF JobKnows
  <2> QED
    BY <1>2, <1>3, <2>1, <2>2 DEF Early, JobPlaces
<1>9. CASE Quiet!CoreStarted(s)
  <2>1. /\ job[s] = "core" /\ job' = [job EXCEPT ![s] = "done"]
        /\ UNCHANGED <<main, value, posted, receiver, server, monitor>>
    BY <1>9 DEF Quiet!CoreStarted, Quiet!Goto
  <2>2. job'[s] = "done" /\ Quiet!Running(s) /\ "done" \in JobPlaces
    BY <1>0, <1>2, <2>1, RunningIs DEF JobPlaces
  <2>3. JobKnows(s)'
    BY <2>2 DEF JobKnows, Early, Ending
  <2>4. /\ \A k, l \in Jobs : Quiet!Running(k)' /\ Quiet!Running(l)' => k = l
        /\ \A k \in Jobs : JobKnows(k)'
    BY <1>0, <2>1, <2>2, <2>3, OneJobSteps
  <2>5. value # "Stopped" /\ value # "Stopping"
    BY <1>0, <1>2, <2>1, <2>2, JobNames DEF JobKnows, StatusKnows, QuietInv
  <2>6. StatusKnows'
    BY <2>1, <2>5 DEF StatusKnows, QuietInv
  <2>7. NewsKnows'
    <3>1. \A i \in 1..Len(main) : main[i].what = "stop" => FALSE
      BY <1>0, <2>2 DEF QuietInv, NewsKnows
    <3> QED
      BY <2>1, <3>1 DEF QuietInv, NewsKnows, TellStarted
  <2> QED
    BY <1>0, <1>2, <2>1, <2>4, <2>6, <2>7 DEF QuietInv
<1> QED
  BY <1>0, <1>4, <1>5, <1>6, <1>7, <1>8, <1>9 DEF Quiet!StartStep

\* What holds while a stop is under way.
LEMMA StopKnows ==
    ASSUME QuietInv, NEW t \in Jobs, job[t] \in Ending
    PROVE  /\ value = "Stopping" /\ ~receiver /\ posted = "NoPost" /\ Quiet!Running(t)
           /\ t \in Stops /\ t \notin Starts
           /\ job[t] = "closed" => ~server
           /\ \A i \in 1..Len(main) : main[i] # TellStarted /\ main[i].what # "stop"
<1>1. JobKnows(t) /\ StatusKnows /\ NewsKnows /\ JobTypes
  BY DEF QuietInv, CrossedInv
<1>2. value = "Stopping" /\ Quiet!Running(t)
  BY <1>1, RunningIs DEF JobKnows, Ending
<1> QED
  BY <1>1, <1>2, JobNames DEF JobKnows, StatusKnows, NewsKnows, JobTypes, Ending

\* A step of a stop that is under way, up to the status.
LEMMA QuietStops ==
    ASSUME QuietInv, CrossedInv', NEW t \in Jobs, job[t] \in Ending, NEW p \in {"closing", "closed"},
           job' = [job EXCEPT ![t] = p], p = "closed" => ~server',
           UNCHANGED <<value, posted, receiver>>, {server', monitor'} \subseteq BOOLEAN,
           \A i \in 1..Len(main') : main'[i] # TellStarted /\ main'[i].what # "stop"
    PROVE  QuietInv'
<1>1. value = "Stopping" /\ ~receiver /\ posted = "NoPost" /\ Quiet!Running(t) /\ t \notin Starts
  BY StopKnows
<1>2. job'[t] = p /\ p \in JobPlaces
  BY DEF JobPlaces, QuietInv, CrossedInv, JobTypes
<1>3. JobKnows(t)'
  BY <1>1, <1>2 DEF JobKnows, Early, Ending
<1>4. /\ \A k, l \in Jobs : Quiet!Running(k)' /\ Quiet!Running(l)' => k = l
      /\ \A k \in Jobs : JobKnows(k)'
  BY <1>1, <1>2, <1>3, OneJobSteps
<1>5. StatusKnows'
  BY <1>1, JobNames DEF StatusKnows
<1>6. NewsKnows'
  BY DEF NewsKnows, TellStarted
<1> QED
  BY <1>1, <1>4, <1>5, <1>6 DEF QuietInv

LEMMA QuietRelease ==
    ASSUME QuietInv, NEW t \in Stops, Quiet!Release(t)
    PROVE  QuietInv'
<1>0. t \in Jobs /\ CrossedInv' /\ main \in Seq(Task)
  BY QuietIsCrossed, CrossedRelease, JobNames DEF QuietInv, CrossedInv
<1>1. /\ job[t] = "release" /\ job' = [job EXCEPT ![t] = "closing"] /\ monitor' = FALSE
      /\ main' = main \o <<Quiet!Task("close", t)>>
      /\ UNCHANGED <<value, posted, receiver, server>>
  BY DEF Quiet!Release, Quiet!Goto, Quiet!Enqueue
<1> DEFINE c == Quiet!Task("close", t)
           tasks == <<c>>
<1>2. c \in Task /\ c # TellStarted /\ c.what # "stop"
  BY <1>0, TasksAre, JobNames DEF Whats, TellStarted
<1>3. tasks \in Seq(Task) /\ main' = main \o tasks /\ Len(tasks) = 1 /\ tasks[1] = c
  BY <1>1, <1>2, ShortQueues
<1> HIDE DEF c, tasks
<1>4. QueueFrom(0, tasks)
  BY <1>0, <1>3, Enqueued
<1>5. value = "Stopping" /\ job[t] \in Ending
  BY <1>0, <1>1, StopKnows DEF Ending
<1>6. \A i \in 1..Len(main') : main'[i] # TellStarted /\ main'[i].what # "stop"
  <2>1. \A k \in 1..Len(tasks) : tasks[k].what # "stop" /\ (tasks[k] = TellStarted => value' = "Started")
    BY <1>2, <1>3
  <2> QED
    BY <1>1, <1>3, <1>4, <1>5, <2>1, QueueKnows
<1>7. {server', monitor'} \subseteq BOOLEAN
  BY <1>1 DEF QuietInv
<1> QED
  BY <1>0, <1>1, <1>5, <1>6, <1>7, QuietStops

\* Only a started service that has settled is asked to stop.
LEMMA StopAsked ==
    ASSUME QuietInv, Quiet!AtRest, receiver \/ server
    PROVE  value = "Started" /\ main = << >> /\ \A k \in Jobs : ~Quiet!Running(k)
<1>1. main = << >> /\ Len(main) = 0 /\ \A j \in Jobs : job[j] \in {"unused", "done"}
  BY RunningIs
<1>2. posted = "NoPost"
  BY <1>1, JobNames DEF QuietInv, CrossedInv, PostedOnce
<1>3. value \notin {"Starting", "Stopping"}
  BY <1>1, <1>2, JobNames DEF QuietInv, CrossedInv, HalfwayIsHeld, Early, Ending
<1>4. value # "Stopped"
  BY DEF QuietInv, StatusKnows
<1> QED
  BY <1>1, <1>3, <1>4, RunningIs, JobNames DEF QuietInv, CrossedInv

\* A step that moves the queue alone.
LEMMA QuietStill ==
    ASSUME QuietInv, CrossedInv', NewsKnows', UNCHANGED <<value, posted, receiver, job, server, monitor>>
    PROVE  QuietInv'
<1>1. \A j \in Jobs : JobKnows(j)'
  BY DEF QuietInv, JobKnows
<1>2. StatusKnows' /\ \A k, l \in Jobs : Quiet!Running(k)' /\ Quiet!Running(l)' => k = l
  BY RunningIs, NoJobSteps DEF QuietInv, StatusKnows
<1> QED
  BY <1>1, <1>2 DEF QuietInv

\* The app asks for a start when there is no core, so nobody stops the service.
LEMMA QuietAskStart ==
    ASSUME QuietInv, Quiet!AskStart
    PROVE  QuietInv'
<1>1. ~server /\ UNCHANGED <<value, posted, receiver, job, server, monitor>>
  BY DEF Quiet!AskStart
<1> DEFINE t == Quiet!Task("start", "app")
<1>2. t \in Task /\ t.what = "start" /\ t # TellStarted
  BY TasksAre, JobNames DEF Whats, TellStarted
<1>3. PICK i \in 1..(Len(main) + 1) : main' = Quiet!InsertAt(main, i, t)
  <2>1. PICK i \in (IF Quiet!Held THEN 2 ELSE 1)..(Len(main) + 1) : main' = Quiet!InsertAt(main, i, t)
    BY DEF Quiet!AskStart
  <2>2. i \in 1..(Len(main) + 1)
    BY <2>1, LenProperties DEF QuietInv, CrossedInv
  <2> QED
    BY <2>1, <2>2
<1> HIDE DEF t
<1>4. main \in Seq(Task) /\ Len(main) \in Nat /\ QueueWith(i, t)
  BY <1>2, <1>3, Inserted, LenProperties DEF QuietInv, CrossedInv
<1>5. CrossedInv'
  BY <1>1, <1>2, <1>4, CrossedAskStart DEF QuietInv
<1>6. \A k \in 1..Len(main) : main[k].what # "stop" /\ (main[k] = TellStarted => value = "Started")
  BY <1>1 DEF QuietInv, NewsKnows, StatusKnows
<1>7. \A k \in 1..Len(main') : main'[k] = t \/ \E l \in 1..Len(main) : main'[k] = main[l]
  <2> SUFFICES ASSUME NEW k \in 1..Len(main'), main'[k] # t PROVE \E l \in 1..Len(main) : main'[k] = main[l]
    OBVIOUS
  <2>1. k \in 1..(Len(main) + 1)
    BY <1>4 DEF QueueWith
  <2>2. k < i \/ k > i
    BY <1>4, <2>1 DEF QueueWith
  <2>3. CASE k < i
    <3>1. k \in 1..Len(main) /\ main'[k] = main[k]
      BY <1>4, <2>1, <2>3 DEF QueueWith
    <3> QED
      BY <3>1
  <2>4. CASE k > i
    <3>1. k - 1 \in 1..Len(main) /\ main'[k] = main[k - 1]
      BY <1>4, <2>1, <2>4 DEF QueueWith
    <3> QED
      BY <3>1
  <2> QED
    BY <2>2, <2>3, <2>4
<1>8. NewsKnows'
  BY <1>1, <1>2, <1>6, <1>7 DEF NewsKnows, TellStarted
<1> QED
  BY <1>1, <1>5, <1>8, QuietStill

LEMMA QuietAsk ==
    ASSUME QuietInv, Quiet!TileStart \/ Quiet!AskStop \/ Quiet!Revoke
    PROVE  QuietInv'
<1>1. PICK w \in {"command", "stop"}, o \in {"app", "tile", "system"} :
        /\ \/ main' = main \o <<Quiet!Task(w, o)>>
           \/ main' = main \o << >> /\ Quiet!AtRest
        /\ UNCHANGED <<value, posted, receiver, job, server, monitor>>
        /\ value = "Stopped" \/ Quiet!AtRest
        /\ w = "stop" => Quiet!AtRest /\ (receiver \/ server)
  <2>1. CASE Quiet!TileStart
    BY <2>1 DEF Quiet!TileStart, Quiet!Enqueue
  <2>2. CASE Quiet!AskStop
    <3>1. /\ main' = main \o (IF receiver THEN <<Quiet!Task("stop", "app")>> ELSE << >>)
          /\ UNCHANGED <<value, posted, receiver, job, server, monitor>> /\ Quiet!AtRest
      BY <2>2 DEF Quiet!AskStop, Quiet!Enqueue, Quiet!MayStop
    <3>2. CASE receiver
      BY <3>1, <3>2
    <3>3. CASE ~receiver
      <4>1. main' = main \o << >>
        BY <3>1, <3>3
      <4> QED
        BY <3>1, <4>1
    <3> QED
      BY <3>2, <3>3
  <2>3. CASE Quiet!Revoke
    <3>1. /\ main' = main \o <<Quiet!Task("stop", "system")>> /\ server
          /\ UNCHANGED <<value, posted, receiver, job, server, monitor>> /\ Quiet!AtRest
      BY <2>3 DEF Quiet!Revoke, Quiet!Enqueue, Quiet!MayStop
    <3> QED
      BY <3>1
  <2> QED
    BY <2>1, <2>2, <2>3
<1>2. CrossedInv' /\ main \in Seq(Task)
  BY <1>1, CrossedAsk DEF QuietInv, CrossedInv
<1> DEFINE t == Quiet!Task(w, o)
<1>3. t \in Task /\ t.what = w /\ t # TellStarted
  BY TasksAre, JobNames DEF Whats, TellStarted
<1>4. main' = main \o <<t>> \/ (main' = main \o << >> /\ Quiet!AtRest)
  BY <1>1
<1> HIDE DEF t
<1>5. \A i \in 1..Len(main') :
        /\ main'[i] = TellStarted => value' = "Started"
        /\ main'[i].what = "stop" => value' = "Started" /\ Len(main') = 1 /\ \A j \in Jobs : ~Quiet!Running(j)
  <2>1. CASE Quiet!AtRest
    <3>1. main = << >> /\ (main' = << >> \/ main' = <<t>>)
      BY <1>4, <2>1, RunningIs, ShortQueues, ConcatEmptySeq
    <3>2. w = "stop" => value = "Started" /\ \A k \in Jobs : ~Quiet!Running(k)
      BY <1>1, <2>1, StopAsked
    <3>3. CASE main' = << >>
      BY <3>3
    <3>4. CASE main' = <<t>>
      <4>1. Len(main') = 1 /\ main'[1] = t
        BY <3>4, ShortQueues
      <4> QED
        BY <1>1, <1>3, <3>2, <4>1
    <3> QED
      BY <3>1, <3>3, <3>4
  <2>2. CASE ~Quiet!AtRest
    <3>1. main' = main \o <<t>> /\ w = "command" /\ value = "Stopped" /\ value' = value
      BY <1>1, <1>4, <2>2
    <3> DEFINE tasks == <<t>>
    <3>2. tasks \in Seq(Task) /\ main' = main \o tasks /\ Len(tasks) = 1 /\ tasks[1] = t
      BY <1>3, <3>1, ShortQueues
    <3> HIDE DEF tasks
    <3>3. QueueFrom(0, tasks)
      BY <1>2, <3>2, Enqueued
    <3>4. \A k \in 1..Len(tasks) : tasks[k].what # "stop" /\ (tasks[k] = TellStarted => value' = "Started")
      BY <1>3, <3>1, <3>2
    <3> QED
      BY <3>1, <3>2, <3>3, <3>4, QueueKnows
  <2> QED
    BY <2>1, <2>2
<1>6. NewsKnows'
  BY <1>1, <1>5, RunningIs DEF NewsKnows, TellStarted
<1> QED
  BY <1>1, <1>2, <1>6, QuietStill

\* The main thread takes a task that changes nothing but the queue, and the app.
LEMMA QuietTake ==
    ASSUME QuietInv, CrossedInv', main # << >>, Head(main).what # "stop",
           NEW w \in {"command", "refused", "apply"},
           main' = Tail(main) \o << >> \/ main' = Tail(main) \o <<Quiet!Task(w, "app")>>,
           UNCHANGED <<value, posted, receiver, job, server, monitor>>
    PROVE  QuietInv'
<1>1. PICK tasks \in Seq(Task) :
        /\ main' = Tail(main) \o tasks
        /\ \A k \in 1..Len(tasks) : tasks[k].what \in {"command", "refused", "apply"}
  <2> DEFINE t == Quiet!Task(w, "app")
  <2>1. t \in Task /\ t.what = w
    BY TasksAre DEF Whats
  <2>2. main' = Tail(main) \o << >> \/ main' = Tail(main) \o <<t>>
    OBVIOUS
  <2> HIDE DEF t
  <2>3. /\ <<t>> \in Seq(Task) /\ Len(<<t>>) = 1 /\ <<t>>[1] = t
        /\ << >> \in Seq(Task) /\ Len(<< >>) = 0
    BY <2>1, ShortQueues
  <2>4. /\ \A k \in 1..Len(<<t>>) : <<t>>[k].what \in {"command", "refused", "apply"}
        /\ \A k \in 1..Len(<< >>) : << >>[k].what \in {"command", "refused", "apply"}
    BY <2>1, <2>3
  <2>5. CASE main' = Tail(main) \o << >>
    BY <2>3, <2>4, <2>5
  <2>6. CASE main' = Tail(main) \o <<t>>
    BY <2>3, <2>4, <2>6
  <2> QED
    BY <2>2, <2>5, <2>6
<1>2. QueueFrom(1, tasks) /\ Head(main) = main[1]
  BY <1>1, Took DEF QuietInv
<1>3. \A k \in 1..Len(tasks) : tasks[k].what # "stop" /\ (tasks[k] = TellStarted => value' = "Started")
  BY <1>1, JobNames DEF TellStarted
<1>4. \A i \in 1..Len(main') : (main'[i] = TellStarted => value' = "Started") /\ main'[i].what # "stop"
  BY <1>2, <1>3, QueueKnows
<1>5. NewsKnows'
  BY <1>4 DEF NewsKnows, TellStarted
<1> QED
  BY <1>5, QuietStill

LEMMA QuietQueue ==
    ASSUME QuietInv, CrossedInv', Quiet!StartAsked \/ Quiet!Refused \/ Quiet!Tell \/ Quiet!Apply
    PROVE  QuietInv'
<1>1. PICK w \in {"command", "refused", "apply"} :
        /\ main' = Tail(main) \o << >> \/ main' = Tail(main) \o <<Quiet!Task(w, "app")>>
        /\ main # << >> /\ Head(main).what \in {"start", "refused", "tell", "apply"}
        /\ UNCHANGED <<value, posted, receiver, job, server, monitor>>
  <2>1. CASE Quiet!StartAsked
    BY <2>1 DEF Quiet!StartAsked, Quiet!Runs, Quiet!Dequeue
  <2>2. CASE Quiet!Refused \/ Quiet!Apply
    BY <2>2 DEF Quiet!Refused, Quiet!Apply, Quiet!Runs, Quiet!Dequeue
  <2>3. CASE Quiet!Tell
    BY <2>3 DEF Quiet!Tell, Quiet!Runs, Quiet!Dequeue
  <2> QED
    BY <2>1, <2>2, <2>3
<1> QED
  BY <1>1, QuietTake

\* Only a stopped service, which hosts no core, starts.
LEMMA QuietCommand ==
    ASSUME QuietInv, CrossedInv', Quiet!OnStartCommand
    PROVE  QuietInv'
<1>1. /\ main # << >> /\ Head(main).what = "command" /\ UNCHANGED <<posted, server, monitor>>
  BY DEF Quiet!OnStartCommand, Quiet!Runs
<1>2. CASE value # "Stopped"
  <2>1. main' = Tail(main) \o << >> /\ UNCHANGED <<value, receiver, job>>
    BY <1>2 DEF Quiet!OnStartCommand, Quiet!Dequeue
  <2> QED
    BY <1>1, <2>1, QuietTake
<1>3. CASE value = "Stopped"
  <2>1. PICK s \in Starts :
          /\ job[s] = "unused" /\ job' = [job EXCEPT ![s] = "begin"] /\ value' = "Starting"
          /\ main' = Tail(main) \o (<< >> \o <<Quiet!Task("tell", "Starting")>>) /\ receiver' = TRUE
    BY <1>3 DEF Quiet!OnStartCommand, Quiet!SetValue, Quiet!Dequeue, Quiet!Goto, Quiet!ReceiverAfterStart
  <2>2. /\ ~server /\ posted = "NoPost" /\ \A j \in Jobs : ~Quiet!Running(j)
    BY <1>3, JobNames DEF QuietInv, StatusKnows
  <2>3. s \in Jobs /\ job'[s] = "begin" /\ "begin" \in JobPlaces
    BY <2>1, JobNames DEF QuietInv, CrossedInv, JobTypes, JobPlaces
  <2>4. JobKnows(s)'
    BY <1>1, <2>1, <2>2, <2>3, JobNames DEF JobKnows, Early, Ending
  <2>5. /\ \A k, l \in Jobs : Quiet!Running(k)' /\ Quiet!Running(l)' => k = l
        /\ \A k \in Jobs : JobKnows(k)'
    BY <2>1, <2>2, <2>3, <2>4, OneJobSteps
  <2>6. StatusKnows'
    BY <1>1, <2>1, <2>2 DEF StatusKnows
  <2> DEFINE t == Quiet!Task("tell", "Starting")
             tasks == <<t>>
  <2>7. t \in Task /\ t.what = "tell" /\ t # TellStarted
    BY TasksAre, JobNames DEF Whats, TellStarted
  <2>8. tasks \in Seq(Task) /\ main' = Tail(main) \o tasks /\ Len(tasks) = 1 /\ tasks[1] = t
    BY <2>1, <2>7, ShortQueues
  <2> HIDE DEF t, tasks
  <2>9. QueueFrom(1, tasks)
    BY <1>1, <2>8, Took DEF QuietInv
  <2>10. \A k \in 1..Len(tasks) :
           tasks[k].what # "stop" /\ (tasks[k] = TellStarted => value' = "Started")
    BY <2>7, <2>8
  <2>11. \A i \in 1..Len(main') :
          /\ main'[i] = TellStarted => value' = "Started"
          /\ main'[i].what # "stop"
    BY <1>3, <2>8, <2>9, <2>10, QueueKnows
  <2>12. NewsKnows'
    BY <2>11 DEF NewsKnows, TellStarted
  <2> QED
    BY <1>1, <2>1, <2>5, <2>6, <2>12 DEF QuietInv
<1> QED
  BY <1>2, <1>3

\* Only a started service that has settled is told to stop.
LEMMA QuietStop ==
    ASSUME QuietInv, CrossedInv', Quiet!StopService
    PROVE  QuietInv'
<1> DEFINE news == Quiet!Task("tell", "Stopping")
<1>0. news \in Task /\ news # TellStarted /\ news.what # "stop"
  BY TasksAre, JobNames DEF Whats, TellStarted
<1>1. /\ main # << >> /\ Head(main).what = "stop" /\ UNCHANGED <<posted, server, monitor>>
  BY DEF Quiet!StopService, Quiet!Runs
<1>2. Head(main) = main[1] /\ 1 \in 1..Len(main) /\ main \in Seq(Task)
  BY <1>1, HeadTailProperties, LenProperties, EmptySeq DEF QuietInv, CrossedInv
<1>3. value = "Started" /\ Len(main) = 1 /\ \A j \in Jobs : ~Quiet!Running(j)
  BY <1>1, <1>2 DEF QuietInv, NewsKnows
<1>4. PICK t \in Stops :
        /\ job[t] = "unused" /\ job' = [job EXCEPT ![t] = "release"] /\ value' = "Stopping"
        /\ main' = Tail(main) \o (<< >> \o <<news>>) /\ receiver' = FALSE
  BY <1>3 DEF Quiet!StopService, Quiet!SetValue, Quiet!Dequeue, Quiet!Goto
<1> HIDE DEF news
<1>5. main' = <<news>>
  <2>1. Tail(main) = << >>
    <3>1. Tail(main) \in Seq(Task) /\ Len(Tail(main)) = 0
      BY <1>1, <1>2, <1>3, HeadTailProperties
    <3> QED
      BY <3>1, EmptySeq
  <2> QED
    BY <1>0, <1>4, <2>1, ShortQueues
<1>6. server /\ posted = "NoPost"
  BY <1>3, JobNames DEF QuietInv, StatusKnows
<1>7. t \in Jobs /\ job'[t] = "release" /\ "release" \in JobPlaces
  BY <1>4, JobNames DEF QuietInv, CrossedInv, JobTypes, JobPlaces
<1>8. JobKnows(t)'
  BY <1>1, <1>4, <1>7 DEF JobKnows, Early, Ending
<1>9. /\ \A k, l \in Jobs : Quiet!Running(k)' /\ Quiet!Running(l)' => k = l
      /\ \A k \in Jobs : JobKnows(k)'
  BY <1>3, <1>4, <1>7, <1>8, OneJobSteps
<1>10. StatusKnows'
  BY <1>1, <1>4, <1>6, JobNames DEF StatusKnows
<1>11. NewsKnows'
  <2>1. Len(main') = 1 /\ main'[1] = news
    BY <1>5, ShortQueues
  <2> QED
    BY <1>0, <2>1 DEF NewsKnows, TellStarted
<1>12. {receiver', server', monitor'} \subseteq BOOLEAN
  BY <1>1, <1>4 DEF QuietInv
<1> QED
  BY <1>9, <1>10, <1>11, <1>12 DEF QuietInv

\* A "Started" waits only while a core is there.
LEMMA QuietDelivers ==
    ASSUME QuietInv, CrossedInv', Quiet!Deliver
    PROVE  QuietInv'
<1>1. /\ main # << >> /\ Head(main).what = "posted" /\ posted' = "NoPost" /\ value' = posted
      /\ main' = Tail(main) \o (<< >> \o <<Quiet!Task("tell", posted)>>)
      /\ UNCHANGED <<receiver, job, server, monitor>>
  BY JobNames DEF Quiet!Deliver, Quiet!Runs, Quiet!SetValue, Quiet!Dequeue, Quiet!PostedAfter
<1>2. Head(main) = main[1] /\ 1 \in 1..Len(main) /\ main \in Seq(Task)
  BY <1>1, HeadTailProperties, LenProperties, EmptySeq DEF QuietInv, CrossedInv
<1>3. posted \in {"Starting", "Started"}
  BY <1>1, <1>2, JobNames DEF QuietInv, CrossedInv, PostedOnce
<1>4. posted = "Starting" => \E s \in Jobs : job[s] = "showing"
  <2> SUFFICES ASSUME posted = "Starting" PROVE \E s \in Jobs : job[s] = "showing"
    OBVIOUS
  <2>1. PICK j \in 1..Len(main) : main[j].what = "show"
    BY DEF QuietInv, CrossedInv, PostedOnce
  <2> QED
    BY <2>1 DEF QuietInv, CrossedInv, BlocksOnce, Blocks, WaitsAt
<1>5. value = "Starting" /\ receiver
  <2>1. CASE posted = "Started"
    BY <2>1 DEF QuietInv, StatusKnows
  <2>2. CASE posted = "Starting"
    BY <1>4, <2>2, StartKnows DEF Early
  <2> QED
    BY <1>3, <2>1, <2>2
<1>6. posted = "Started" => server /\ monitor
  BY DEF QuietInv, StatusKnows
<1>7. \A j \in Jobs : JobKnows(j)'
  <2> SUFFICES ASSUME NEW j \in Jobs PROVE JobKnows(j)'
    OBVIOUS
  <2>1. JobKnows(j) /\ job'[j] = job[j] /\ job[j] \notin Ending
    BY <1>1, <1>5 DEF QuietInv, JobKnows
  <2>2. job[j] \in Early => posted = "Starting"
    BY <1>3, <2>1 DEF JobKnows
  <2>3. job[j] = "core" => posted = "Started"
    BY <1>5, <2>1 DEF JobKnows
  <2> QED
    BY <1>1, <1>5, <2>1, <2>2, <2>3, JobNames DEF JobKnows, Ending
<1>8. StatusKnows'
  BY <1>1, <1>3, <1>5, <1>6, JobNames DEF StatusKnows
<1> DEFINE t == Quiet!Task("tell", posted)
           tasks == <<t>>
<1>9. t \in Task /\ t.what = "tell" /\ t.of = posted
  BY <1>3, TasksAre, JobNames DEF Whats
<1>10. tasks \in Seq(Task) /\ main' = Tail(main) \o tasks /\ Len(tasks) = 1 /\ tasks[1] = t
  BY <1>1, <1>9, ShortQueues
<1> HIDE DEF t, tasks
<1>11. QueueFrom(1, tasks)
  BY <1>1, <1>10, Took DEF QuietInv
<1>12. \A k \in 1..Len(tasks) :
         tasks[k].what # "stop" /\ (tasks[k] = TellStarted => value' = "Started")
  BY <1>1, <1>9, <1>10, JobNames DEF TellStarted
<1>13. \A i \in 1..Len(main') :
         /\ main'[i] = TellStarted => value' = "Started"
         /\ main'[i].what # "stop"
  BY <1>5, <1>10, <1>11, <1>12, QueueKnows
<1>14. NewsKnows'
  BY <1>13 DEF NewsKnows, TellStarted
<1>15. \A k, l \in Jobs : Quiet!Running(k)' /\ Quiet!Running(l)' => k = l
  BY <1>1, NoJobSteps
<1> QED
  BY <1>1, <1>7, <1>8, <1>14, <1>15 DEF QuietInv

\* The notification is shown after the "Starting" before it was told.
LEMMA QuietShow ==
    ASSUME QuietInv, CrossedInv', Quiet!Show
    PROVE  QuietInv'
<1>0. PICK s : s = main[1].of
  OBVIOUS
<1>1. /\ main # << >> /\ Head(main).what = "show" /\ main' = Tail(main) \o << >>
      /\ job' = [job EXCEPT ![Head(main).of] = "monitor"]
      /\ UNCHANGED <<value, posted, receiver, server, monitor>>
  BY DEF Quiet!Show, Quiet!Runs, Quiet!Dequeue, Quiet!Goto
<1>2. Head(main) = main[1] /\ s \in Jobs /\ job[s] = "showing" /\ main[1].what = "show" /\ 1 \in 1..Len(main)
  <2>1. 1 \in 1..Len(main)
    BY <1>1, LenProperties, EmptySeq DEF QuietInv, CrossedInv
  <2> QED
    BY <1>0, <1>1, <2>1, BlockRuns DEF Blocks, WaitsAt, QuietInv
<1>3. job' = [job EXCEPT ![s] = "monitor"] /\ main[1].of = s
  BY <1>0, <1>1, <1>2
<1>4. /\ value = "Starting" /\ receiver /\ posted \in {"NoPost", "Starting"} /\ ~server
      /\ Quiet!Running(s)
  BY <1>2, StartKnows, RunningIs DEF Early
<1>5. posted = "NoPost"
  <2> SUFFICES ASSUME posted = "Starting" PROVE FALSE
    BY <1>4
  <2>1. PICK i, k \in 1..Len(main) : i < k /\ main[i].what = "posted" /\ main[k].what = "show"
    BY DEF QuietInv, CrossedInv, PostedOnce
  <2>2. main[k].of \in Jobs /\ job[main[k].of] = "showing"
    BY <2>1 DEF QuietInv, CrossedInv, BlocksOnce, Blocks, WaitsAt
  <2>3. main[k].of = s
    BY <1>2, <1>4, <2>2, RunningIs DEF QuietInv
  <2>4. k = 1
    BY <1>2, <1>3, <2>1, <2>3 DEF QuietInv, CrossedInv, BlocksOnce, Blocks
  <2> QED
    BY <2>1, <2>4
<1>6. job'[s] = "monitor" /\ "monitor" \in JobPlaces
  BY <1>2, <1>3 DEF QuietInv, CrossedInv, JobTypes, JobPlaces
<1>7. JobKnows(s)'
  <2>1. job'[s] = "monitor" /\ value' = "Starting" /\ receiver' /\ ~server' /\ posted' = "NoPost"
    BY <1>1, <1>4, <1>5, <1>6
  <2>2. /\ job'[s] \in Early \ {"report"} /\ job'[s] \notin {"begin", "setup", "report", "core"} \cup Ending
        /\ posted' # "Started" /\ posted' # "Starting"
    BY <2>1 DEF Early, Ending
  <2> QED
    BY <2>1, <2>2 DEF JobKnows, Ending
<1>8. QueueFrom(1, << >>) /\ << >> \in Seq(Task) /\ 1..Len(<< >>) = {}
  <2>1. << >> \in Seq(Task) /\ 1..Len(<< >>) = {}
    BY ShortQueues
  <2> QED
    BY <1>1, <2>1, Took DEF QuietInv
<1> DEFINE tasks == << >>
<1>9. /\ tasks \in Seq(Task) /\ QueueFrom(1, tasks) /\ 1 \in {0, 1}
      /\ \A k \in 1..Len(tasks) : tasks[k].what \notin {"stop", "tell"}
  BY <1>8
<1> HIDE DEF tasks
<1>10. {server', monitor'} \subseteq BOOLEAN
  BY <1>1 DEF QuietInv
<1> QED
  BY <1>1, <1>2, <1>3, <1>5, <1>6, <1>7, <1>9, <1>10, QuietStarts DEF Early

\* A start that gives up leaves no core.
LEMMA QuietAlert ==
    ASSUME QuietInv, CrossedInv', Quiet!Alert
    PROVE  QuietInv'
<1>0. PICK s : s = main[1].of
  OBVIOUS
<1>1. /\ main # << >> /\ Head(main).what = "alert" /\ value' = "Stopped" /\ receiver' = FALSE
      /\ main' = Tail(main) \o (<<Quiet!Task("tell", "Alert")>> \o <<Quiet!Task("tell", "Stopped")>>)
      /\ job' = [job EXCEPT ![Head(main).of] = "done"]
      /\ UNCHANGED <<posted, server, monitor>>
  BY DEF Quiet!Alert, Quiet!Runs, Quiet!SetValue, Quiet!Dequeue, Quiet!Goto, Quiet!AlertStatus
<1>2. Head(main) = main[1] /\ s \in Jobs /\ job[s] = "alerting"
  BY <1>0, <1>1, BlockRuns DEF Blocks, WaitsAt, QuietInv
<1>3. job' = [job EXCEPT ![s] = "done"]
  BY <1>0, <1>1, <1>2
<1>4. /\ value = "Starting" /\ posted = "NoPost" /\ ~server /\ Quiet!Running(s)
  BY <1>2, StartKnows, RunningIs DEF Early
<1>5. job'[s] = "done" /\ "done" \in JobPlaces
  BY <1>2, <1>3 DEF QuietInv, CrossedInv, JobTypes, JobPlaces
<1>6. JobKnows(s)'
  BY <1>5 DEF JobKnows, Early, Ending
<1>7. /\ \A k, l \in Jobs : Quiet!Running(k)' /\ Quiet!Running(l)' => k = l
      /\ \A k \in Jobs : JobKnows(k)'
      /\ \A k \in Jobs : ~Quiet!Running(k)'
  <2>1. /\ \A k, l \in Jobs : Quiet!Running(k)' /\ Quiet!Running(l)' => k = l
        /\ \A k \in Jobs : JobKnows(k)'
        /\ \A k \in Jobs \ {s} : job'[k] = job[k] /\ job[k] \in {"unused", "done"}
    BY <1>2, <1>3, <1>4, <1>5, <1>6, OneJobSteps
  <2> QED
    BY <1>5, <2>1, RunningIs
<1>8. StatusKnows'
  BY <1>1, <1>4, <1>7, JobNames DEF StatusKnows
<1> DEFINE tasks == <<Quiet!Task("tell", "Alert"), Quiet!Task("tell", "Stopped")>>
<1>9. /\ tasks \in Seq(Task) /\ main' = Tail(main) \o tasks
      /\ \A k \in 1..Len(tasks) : tasks[k].what = "tell" /\ tasks[k] # TellStarted
  <2> DEFINE t == Quiet!Task("tell", "Alert")
             u == Quiet!Task("tell", "Stopped")
  <2>1. t \in Task /\ u \in Task /\ main' = Tail(main) \o (<<t>> \o <<u>>)
    BY <1>1, TasksAre, JobNames DEF Whats
  <2>2. /\ t.what = "tell" /\ t # TellStarted
        /\ u.what = "tell" /\ u # TellStarted
    BY JobNames DEF TellStarted
  <2>3. tasks = <<t, u>>
    OBVIOUS
  <2> HIDE DEF t, u, tasks
  <2> QED
    BY <2>1, <2>2, <2>3, ShortQueues
<1> HIDE DEF tasks
<1>10. QueueFrom(1, tasks)
  BY <1>1, <1>9, Took DEF QuietInv
<1>11. \A i \in 1..Len(main') :
         /\ main'[i] = TellStarted => value' = "Started"
         /\ main'[i].what # "stop"
  BY <1>4, <1>9, <1>10, QueueKnows
<1>12. NewsKnows'
  BY <1>11 DEF NewsKnows, TellStarted
<1>13. {receiver', server', monitor'} \subseteq BOOLEAN
  BY <1>1 DEF QuietInv
<1> QED
  BY <1>7, <1>8, <1>12, <1>13 DEF QuietInv

\* A stop gives up the core before it sets the status.
LEMMA QuietClose ==
    ASSUME QuietInv, CrossedInv', Quiet!Close
    PROVE  QuietInv'
<1>0. PICK t : t = main[1].of
  OBVIOUS
<1>1. /\ main # << >> /\ Head(main).what = "close" /\ job[Head(main).of] = "closing" /\ server' = FALSE
      /\ job' = [job EXCEPT ![Head(main).of] = "closed"]
      /\ UNCHANGED <<main, value, posted, receiver, monitor>>
  BY DEF Quiet!Close, Quiet!Runs, Quiet!Goto, Quiet!ServerAfterClose
<1>2. Head(main) = main[1] /\ t \in Jobs
  BY <1>0, <1>1, BlockRuns DEF Blocks, QuietInv
<1>3. job[t] = "closing" /\ job' = [job EXCEPT ![t] = "closed"]
  BY <1>0, <1>1, <1>2
<1>4. \A i \in 1..Len(main') : main'[i] # TellStarted /\ main'[i].what # "stop"
  BY <1>1, <1>2, <1>3, StopKnows DEF Ending
<1>5. {server', monitor'} \subseteq BOOLEAN /\ job[t] \in Ending
  BY <1>1, <1>3 DEF QuietInv, Ending
<1> QED
  BY <1>1, <1>2, <1>3, <1>4, <1>5, QuietStops

\* A stop that ends has closed the core.
LEMMA QuietClosed ==
    ASSUME QuietInv, CrossedInv', Quiet!Closed
    PROVE  QuietInv'
<1>0. PICK t : t = main[1].of
  OBVIOUS
<1>1. /\ main # << >> /\ Head(main).what = "close" /\ job[Head(main).of] = "closed" /\ value' = "Stopped"
      /\ main' = Tail(main) \o (<< >> \o <<Quiet!Task("tell", "Stopped")>>)
      /\ job' = [job EXCEPT ![Head(main).of] = "done"]
      /\ UNCHANGED <<posted, receiver, server, monitor>>
  BY DEF Quiet!Closed, Quiet!Runs, Quiet!SetValue, Quiet!Dequeue, Quiet!Goto
<1>2. Head(main) = main[1] /\ t \in Jobs
  BY <1>0, <1>1, BlockRuns DEF Blocks, QuietInv
<1>3. job[t] = "closed" /\ job' = [job EXCEPT ![t] = "done"]
  BY <1>0, <1>1, <1>2
<1>4. value = "Stopping" /\ posted = "NoPost" /\ ~receiver /\ ~server /\ Quiet!Running(t)
  BY <1>2, <1>3, StopKnows DEF Ending
<1>5. job'[t] = "done" /\ "done" \in JobPlaces
  BY <1>2, <1>3 DEF QuietInv, CrossedInv, JobTypes, JobPlaces
<1>6. JobKnows(t)'
  BY <1>5 DEF JobKnows, Early, Ending
<1>7. /\ \A k, l \in Jobs : Quiet!Running(k)' /\ Quiet!Running(l)' => k = l
      /\ \A k \in Jobs : JobKnows(k)'
      /\ \A k \in Jobs : ~Quiet!Running(k)'
  <2>1. /\ \A k, l \in Jobs : Quiet!Running(k)' /\ Quiet!Running(l)' => k = l
        /\ \A k \in Jobs : JobKnows(k)'
        /\ \A k \in Jobs \ {t} : job'[k] = job[k] /\ job[k] \in {"unused", "done"}
    BY <1>2, <1>3, <1>4, <1>5, <1>6, OneJobSteps
  <2> QED
    BY <1>5, <2>1, RunningIs
<1>8. StatusKnows'
  BY <1>1, <1>4, <1>7, JobNames DEF StatusKnows
<1> DEFINE news == Quiet!Task("tell", "Stopped")
           tasks == <<news>>
<1>9. news \in Task /\ news.what = "tell" /\ news # TellStarted
  BY TasksAre, JobNames DEF Whats, TellStarted
<1>10. tasks \in Seq(Task) /\ main' = Tail(main) \o tasks /\ Len(tasks) = 1 /\ tasks[1] = news
  BY <1>1, <1>9, ShortQueues
<1> HIDE DEF news, tasks
<1>11. QueueFrom(1, tasks)
  BY <1>1, <1>10, Took DEF QuietInv
<1>12. \A k \in 1..Len(tasks) : tasks[k].what # "stop" /\ (tasks[k] = TellStarted => value' = "Started")
  BY <1>9, <1>10
<1>13. \A i \in 1..Len(main') : (main'[i] = TellStarted => value' = "Started") /\ main'[i].what # "stop"
  BY <1>4, <1>10, <1>11, <1>12, QueueKnows
<1>14. NewsKnows'
  BY <1>13 DEF NewsKnows, TellStarted
<1>15. {receiver', server', monitor'} \subseteq BOOLEAN
  BY <1>1 DEF QuietInv
<1> QED
  BY <1>7, <1>8, <1>14, <1>15 DEF QuietInv

LEMMA QuietInit == Quiet!Init => QuietInv
<1> SUFFICES ASSUME Quiet!Init PROVE QuietInv
  OBVIOUS
<1>1. /\ main = << >> /\ Len(main) = 0 /\ value = "Stopped" /\ posted = "NoPost"
      /\ ~receiver /\ ~server /\ receiver \in BOOLEAN /\ server \in BOOLEAN /\ monitor \in BOOLEAN
      /\ \A j \in Jobs : job[j] = "unused"
  BY JobNames DEF Quiet!Init, Jobs
<1>2. \A j \in Jobs : JobKnows(j)
  BY <1>1 DEF JobKnows, Early, Ending
<1>3. StatusKnows /\ NewsKnows
  BY <1>1, RunningIs, JobNames DEF StatusKnows, NewsKnows
<1> QED
  BY <1>1, <1>2, <1>3, CrossedInit, RunningIs DEF QuietInv

LEMMA QuietNext == QuietInv /\ [Quiet!Next]_serviceVars => QuietInv'
<1> SUFFICES ASSUME QuietInv, [Quiet!Next]_serviceVars PROVE QuietInv'
  OBVIOUS
<1>1. CASE UNCHANGED serviceVars
  <2>1. UNCHANGED <<main, value, posted, receiver, job, server, monitor>>
    BY <1>1 DEF serviceVars
  <2>2. CrossedInv'
    BY <1>1, CrossedNext DEF QuietInv
  <2>3. NewsKnows'
    BY <2>1, RunningIs DEF QuietInv, NewsKnows, TellStarted
  <2> QED
    BY <2>1, <2>2, <2>3, QuietStill
<1>2. CASE Quiet!Main
  <2>1. CrossedInv'
    BY <1>2, QuietIsCrossed, CrossedMain DEF QuietInv
  <2> QED
    BY <1>2, <2>1, QuietQueue, QuietCommand, QuietStop, QuietDelivers, QuietShow, QuietAlert, QuietClose, QuietClosed
    DEF Quiet!Main
<1> QED
  BY <1>1, <1>2, QuietAsk, QuietAskStart, QuietStartStep, QuietRelease DEF Quiet!Next

\* Once nothing is under way, a started service hosts a core and hears its stop,
\* and a stopped one hosts none.
LEMMA QuietSettles == QuietInv => Quiet!ReadyWhenStarted /\ Quiet!ClosedWhenStopped
BY DEF QuietInv, StatusKnows, Quiet!ReadyWhenStarted, Quiet!ClosedWhenStopped

\* The app hears yes from a service that has started.
LEMMA QuietAnswers == QuietInv /\ [Quiet!Next]_serviceVars => Quiet!ReadyHasCore
<1> SUFFICES ASSUME QuietInv, [Quiet!Next]_serviceVars, request, ~request', answer' = "ready"
             PROVE  server
  BY DEF Quiet!ReadyHasCore
<1>1. main # << >> /\ Head(main) = TellStarted
  <2>1. ~UNCHANGED serviceVars
    BY DEF serviceVars
  <2>2. ~(Quiet!TileStart \/ Quiet!Revoke \/ Quiet!AskStart \/ Quiet!AskStop)
    BY DEF Quiet!TileStart, Quiet!Revoke, Quiet!AskStart, Quiet!AskStop
  <2>3. \A s \in Starts : ~Quiet!StartStep(s)
    BY DEF Quiet!StartStep, Quiet!Begin, Quiet!NoConfig, Quiet!StartMonitor, Quiet!Setup, Quiet!SetupThrows,
           Quiet!Report, Quiet!CoreStarted, Quiet!CoreThrows
  <2>4. \A t \in Stops : ~Quiet!Release(t)
    BY DEF Quiet!Release
  <2>5. ~(Quiet!StartAsked \/ Quiet!Refused \/ Quiet!OnStartCommand \/ Quiet!StopService \/ Quiet!Deliver
          \/ Quiet!Show \/ Quiet!Alert \/ Quiet!Close \/ Quiet!Closed \/ Quiet!Apply)
    BY DEF Quiet!StartAsked, Quiet!Refused, Quiet!OnStartCommand, Quiet!StopService, Quiet!Deliver,
           Quiet!Show, Quiet!Alert, Quiet!Close, Quiet!Closed, Quiet!Apply
  <2>6. Quiet!Tell
    BY <2>1, <2>2, <2>3, <2>4, <2>5 DEF Quiet!Next, Quiet!Main
  <2>7. main # << >> /\ Head(main).what = "tell" /\ Head(main).of = "Started"
    BY <2>6 DEF Quiet!Tell, Quiet!Runs, Quiet!Answers, Quiet!Ready
  <2>8. Head(main) \in Task
    BY <2>7, HeadTailProperties DEF QuietInv, CrossedInv
  <2> QED
    BY <2>7, <2>8, JobNames DEF Task, TellStarted
<1>2. Head(main) = main[1] /\ 1 \in 1..Len(main)
  BY <1>1, HeadTailProperties, LenProperties, EmptySeq DEF QuietInv, CrossedInv
<1>3. value = "Started"
  BY <1>1, <1>2 DEF QuietInv, NewsKnows
<1> QED
  BY <1>3 DEF QuietInv, StatusKnows

-----------------------------------------------------------------------------
ConnectionInv ==
    /\ part \in {"quiet", "crossed", "quiet app", "crossed app", "listening"}
    /\ part = "listening" => ListeningInv
    /\ part = "crossed app" => CrossedAppInv
    /\ part = "quiet app" => QuietAppInv
    /\ part = "crossed" => CrossedInv
    /\ part = "quiet" => QuietInv

LEMMA ConnectionInit == Init => ConnectionInv
<1> SUFFICES ASSUME Init PROVE ConnectionInv
  OBVIOUS
<1>1. /\ part \in {"quiet", "crossed", "quiet app", "crossed app", "listening"}
      /\ Quiet!Init /\ Listening!Init
      /\ part = "quiet app" => QuietApp!Init
      /\ part # "quiet app" => CrossedApp!Init
  BY DEF Init
<1>2. ListeningInv /\ CrossedInv /\ QuietInv
  BY <1>1, ListeningInit, CrossedInit, QuietInit
<1>3. part = "quiet app" => QuietAppInv
  BY <1>1, QuietAppInit
<1>4. part = "crossed app" => CrossedAppInv
  BY <1>1, CrossedAppInit
<1> QED
  BY <1>1, <1>2, <1>3, <1>4 DEF ConnectionInv

\* The part that moves keeps its own invariant, and the others stand still.
LEMMA ConnectionNext == ConnectionInv /\ [Next]_vars => ConnectionInv'
<1> SUFFICES ASSUME ConnectionInv, [Next]_vars PROVE ConnectionInv'
  OBVIOUS
<1>1. /\ part' = part
      /\ part = "quiet" => [Quiet!Next]_serviceVars
      /\ part = "crossed" => [Crossed!Next]_serviceVars
      /\ part = "quiet app" => [QuietApp!Next]_appVars
      /\ part = "crossed app" => [CrossedApp!Next]_appVars
      /\ part = "listening" => [Listening!Next]_listenerVars
  BY DEF Next, vars, ConnectionInv
<1>2. CASE part = "quiet"
  <2>1. QuietInv'
    BY <1>1, <1>2, QuietNext DEF ConnectionInv
  <2> QED
    BY <1>1, <1>2, <2>1 DEF ConnectionInv
<1>3. CASE part = "crossed"
  <2>1. CrossedInv'
    BY <1>1, <1>3, CrossedNext DEF ConnectionInv
  <2> QED
    BY <1>1, <1>3, <2>1 DEF ConnectionInv
<1>4. CASE part = "quiet app"
  <2>1. QuietAppInv'
    BY <1>1, <1>4, QuietAppNext DEF ConnectionInv
  <2> QED
    BY <1>1, <1>4, <2>1 DEF ConnectionInv
<1>5. CASE part = "crossed app"
  <2>1. CrossedAppInv'
    BY <1>1, <1>5, CrossedAppNext DEF ConnectionInv
  <2> QED
    BY <1>1, <1>5, <2>1 DEF ConnectionInv
<1>6. CASE part = "listening"
  <2>1. ListeningInv'
    BY <1>1, <1>6, ListeningNext DEF ConnectionInv
  <2> QED
    BY <1>1, <1>6, <2>1 DEF ConnectionInv
<1> QED
  BY <1>2, <1>3, <1>4, <1>5, <1>6 DEF ConnectionInv

THEOREM ConnectionHolds == FairSpec => []ConnectionInv
<1>1. Init /\ [][Next]_vars => []ConnectionInv
  BY ConnectionInit, ConnectionNext, PTL
<1> QED
  BY <1>1, PTL DEF FairSpec

\* When the Android service has settled, it is started or stopped, however many
\* starts and stops cross and whichever step fails.  If stops wait for starts to
\* end, a started one hosts a core, watches the network and hears
\* SERVICE_CLOSE, and a stopped one hosts no core (BoxService).
THEOREM ServicesSettle == FairSpec => []ServiceSettles
<1>1. ConnectionInv => ServiceSettles
  BY CrossedSettles, QuietSettles DEF ConnectionInv, ServiceSettles
<1> QED
  BY <1>1, ConnectionHolds, PTL

\* When the connection of the app has settled, the app is not left connecting,
\* and if the user acted when nothing was under way it shows what the core does,
\* which is the user's last wish, with the active profile (ConnectionNotifier).
THEOREM AppsSettle == FairSpec => []ConnectionSettles
<1>1. ConnectionInv => ConnectionSettles
  BY CrossedAppSettles, QuietAppSettles DEF ConnectionInv, ConnectionSettles
<1> QED
  BY <1>1, ConnectionHolds, PTL

\* A registered stream has shown the status of the core once what was published
\* is told, and no other stream is open (listenSingle).
THEOREM ListenersTold == FairSpec => []ToldIsCore
<1>1. ConnectionInv => ToldIsCore
  BY ListeningTold DEF ConnectionInv, ToldIsCore
<1> QED
  BY <1>1, ConnectionHolds, PTL

\* If stops wait for starts to end, a start request that waits is answered yes
\* only while a core is there (startServiceAndWait, onServiceStatusChanged).
THEOREM AnswersHaveCore == FairSpec => AnswerHasCore
<1>1. ConnectionInv /\ [Next]_vars => (part = "quiet" => Quiet!ReadyHasCore)
  <2> SUFFICES ASSUME ConnectionInv, [Next]_vars, part = "quiet" PROVE Quiet!ReadyHasCore
    OBVIOUS
  <2>1. QuietInv /\ [Quiet!Next]_serviceVars
    BY DEF Next, vars, ConnectionInv
  <2> QED
    BY <2>1, QuietAnswers
<1>2. Init /\ [][Next]_vars => AnswerHasCore
  BY <1>1, ConnectionInit, ConnectionNext, PTL DEF AnswerHasCore
<1> QED
  BY <1>2, PTL DEF FairSpec
=============================================================================
