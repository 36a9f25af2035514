--------------------------- MODULE StatusListener ---------------------------
(***************************************************************************)
(* How the app listens to the status of the core: listenSingle, which      *)
(* keeps one subscription of a key in a table (hiddify_core_service.dart), *)
(* and CoreInfoListener of the core, which subscribes a channel of         *)
(* capacity one and then tells the status it reads (coreinfo.go).  Calls   *)
(* of listenSingle suspend only while they cancel what was registered.     *)
(***************************************************************************)
EXTENDS Naturals, Sequences

CONSTANTS
    Callers,        \* calls of listenSingle for one key
    States,         \* the statuses of the core
    MaxStreams,     \* bound on the streams opened
    MaxChanges,     \* bound on the statuses published
    MaxFails,       \* bound on the streams that fail
    Crossing,       \* a call may begin while another one suspends
    Apart           \* no status follows another within the sending of it

\* What the constants stand for.
ListenerAssumption ==
    /\ {MaxStreams, MaxChanges, MaxFails} \subseteq Nat
    /\ {Crossing, Apart} \subseteq BOOLEAN

VARIABLES
    core,       \* static.CoreState
    unsaid,     \* a status that was assigned and is not published yet
    entry,      \* the stream that subscriptions registers for the key, or None
    stream,     \* where each stream is
    chan,       \* the channel of each stream's listener in the core
    shown,      \* the last status statusController got
    pc,         \* where each call is
    changes, fails

vars == <<core, unsaid, entry, stream, chan, shown, pc, changes, fails>>

None == 0
Streams == 1..MaxStreams
Open == {s \in Streams : stream[s] \in {"new", "subscribed", "running"}}
Unopened == {s \in Streams : stream[s] = "unused"}

Init ==
    /\ core \in States /\ shown \in States
    /\ unsaid = << >> /\ entry = None
    /\ stream = [s \in Streams |-> "unused"]
    /\ chan = [s \in Streams |-> << >>]
    /\ pc = [c \in Callers |-> "idle"]
    /\ changes = 0 /\ fails = 0

-----------------------------------------------------------------------------
(* The core. *)

\* Mutation: a listener tells only what changes after it has subscribed.
OnlyChanges == shown
FirstStatus == core

Subscribed == {s \in Open : stream[s] \in {"subscribed", "running"}}

\* SetCoreStatus assigns the status, then publishes it.
Assign(v) ==
    /\ unsaid = << >> /\ changes < MaxChanges
    /\ Apart => \A s \in Streams : chan[s] = << >>
    /\ core' = v /\ unsaid' = <<v>>
    /\ changes' = changes + 1
    /\ UNCHANGED <<entry, stream, chan, shown, pc, fails>>

\* A full channel drops it.
Publish ==
    /\ unsaid # << >>
    /\ chan' = [s \in Streams |->
                  IF s \in Subscribed /\ chan[s] = << >> THEN unsaid ELSE chan[s]]
    /\ unsaid' = << >>
    /\ UNCHANGED <<core, entry, stream, shown, pc, changes, fails>>

Subscribe(s) ==
    /\ stream[s] = "new"
    /\ stream' = [stream EXCEPT ![s] = "subscribed"]
    /\ UNCHANGED <<core, unsaid, entry, chan, shown, pc, changes, fails>>

TellFirst(s) ==
    /\ stream[s] = "subscribed"
    /\ shown' = FirstStatus
    /\ stream' = [stream EXCEPT ![s] = "running"]
    /\ UNCHANGED <<core, unsaid, entry, chan, pc, changes, fails>>

Tell(s) ==
    /\ stream[s] = "running" /\ chan[s] # << >>
    /\ shown' = Head(chan[s])
    /\ chan' = [chan EXCEPT ![s] = << >>]
    /\ UNCHANGED <<core, unsaid, entry, stream, pc, changes, fails>>

-----------------------------------------------------------------------------
(* The app. *)

\* A cancelled stream tells nothing any more.
Cancelled(st, s) == IF s = None THEN st ELSE [st EXCEPT ![s] = "closed"]

\* The stream is opened and registered at once.
Register(c, st) ==
    \E s \in Unopened :
        /\ \A r \in Unopened : s <= r
        /\ stream' = [st EXCEPT ![s] = "new"]
        /\ entry' = s
        /\ pc' = [pc EXCEPT ![c] = "idle"]

\* With a subscription registered, stopListenSingle awaits its end.
Listen(c) ==
    /\ pc[c] = "idle" /\ Unopened # {}
    /\ Crossing \/ \A d \in Callers : pc[d] = "idle"
    /\ IF entry = None
       THEN Register(c, stream) /\ UNCHANGED chan
       ELSE /\ stream' = Cancelled(stream, entry)
            /\ chan' = [chan EXCEPT ![entry] = << >>]
            /\ pc' = [pc EXCEPT ![c] = "cancelling"]
            /\ UNCHANGED entry
    /\ UNCHANGED <<core, unsaid, shown, changes, fails>>

\* The entry of the key is removed, whatever it is by now.
Resume(c) ==
    /\ pc[c] = "cancelling"
    /\ Register(c, stream)
    /\ UNCHANGED <<core, unsaid, chan, shown, changes, fails>>

\* The error of a stream cancels and removes what is registered.
Fail(s) ==
    /\ s \in Open /\ fails < MaxFails
    /\ fails' = fails + 1
    /\ stream' = Cancelled(Cancelled(stream, entry), s)
    /\ chan' = [r \in Streams |-> IF r \in {entry, s} THEN << >> ELSE chan[r]]
    /\ entry' = None
    /\ UNCHANGED <<core, unsaid, shown, pc, changes>>

Next ==
    \/ \E v \in States : Assign(v)
    \/ Publish
    \/ \E s \in Streams : Subscribe(s) \/ TellFirst(s) \/ Tell(s) \/ Fail(s)
    \/ \E c \in Callers : Listen(c) \/ Resume(c)

Spec == Init /\ [][Next]_vars

-----------------------------------------------------------------------------
\* Once what was published is told, a registered stream has shown the status
\* of the core: none is lost between subscribing and reading the first one.
ToldIsCore ==
    entry # None /\ entry \in Open /\ stream[entry] = "running"
        /\ unsaid = << >> /\ (\A s \in Open : stream[s] = "running" /\ chan[s] = << >>)
      => shown = core

\* An open stream is the registered one: what is removed from the table was
\* cancelled before.
OpenIsRegistered == Open \subseteq {entry}

=============================================================================
