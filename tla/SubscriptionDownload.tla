------------------------ MODULE SubscriptionDownload ------------------------
(***************************************************************************)
(* The transports of a subscription (dio_http_client.dart): the addresses  *)
(* of the origin first, once at a time for a host and not while it cools   *)
(* down; then the public route, the local proxy, and last another endpoint *)
(* of the signed pool, which one discovery finds for all who wait and      *)
(* which is remembered until it fails.  Downloads run at once and are      *)
(* repeated.  A route that works answers within its budget.                *)
(***************************************************************************)
EXTENDS Naturals

CONSTANTS
    Downloads,
    Hosts,          \* hosts of subscription URLs
    Endpoints,      \* those of the signed pool that serve subscriptions
    MaxChanges,     \* bound on the changes of the network
    None

\* What the constants stand for.
DownloadAssumption ==
    Endpoints \subseteq Hosts /\ None \notin Hosts /\ MaxChanges \in Nat

VARIABLES
    routes,     \* what works to reach each host without the local proxy
    proxied,    \* the local proxy runs and reaches them
    inFlight,   \* _mappedHostsInFlight
    cooling,    \* hosts of _mappedHostUnavailableUntil
    base,       \* _subscriptionFallbackBaseUrl
    probing,    \* the candidates whose probes of the discovery have not ended
    pc,         \* where each download is
    host,       \* the host of its URL
    target,     \* the endpoint its fallback uses
    changes

vars == <<routes, proxied, inFlight, cooling, base, probing, pc, host, target, changes>>

Init ==
    /\ routes \in [Hosts -> SUBSET {"mapped", "direct"}]
    /\ proxied \in BOOLEAN
    /\ inFlight = {} /\ cooling = {} /\ base = None /\ probing = {}
    /\ pc = [d \in Downloads |-> "idle"]
    /\ host \in [Downloads -> Hosts]
    /\ target = [d \in Downloads |-> None]
    /\ changes = 0

Works(d, route) == route \in routes[host[d]]
Goto(d, p) == pc' = [pc EXCEPT ![d] = p]

-----------------------------------------------------------------------------
(* The network. *)

Change(h) ==
    /\ changes < MaxChanges /\ changes' = changes + 1
    /\ proxied' \in BOOLEAN
    /\ routes' \in {[routes EXCEPT ![h] = r] : r \in SUBSET {"mapped", "direct"}}
    /\ UNCHANGED <<inFlight, cooling, base, probing, pc, host, target>>

Cooled(h) ==
    /\ h \in cooling
    /\ cooling' = cooling \ {h}
    /\ UNCHANGED <<routes, proxied, inFlight, base, probing, pc, host, target, changes>>

-----------------------------------------------------------------------------
(* One download. *)

\* A download of a URL, also one that is tried again.
Begin(d) ==
    /\ pc[d] \in {"idle", "ok", "failed", "cancelled"}
    /\ IF host[d] \in cooling \cup inFlight
       THEN Goto(d, "direct") /\ UNCHANGED inFlight
       ELSE Goto(d, "mapped") /\ inFlight' = inFlight \cup {host[d]}
    /\ UNCHANGED <<routes, proxied, cooling, base, probing, host, target, changes>>

Released(d) == inFlight \ {host[d]}

\* A failure to connect makes the host cool down, another failure does not.
Mapped(d) ==
    /\ pc[d] = "mapped"
    /\ inFlight' = Released(d)
    /\ \/ Works(d, "mapped") /\ Goto(d, "ok") /\ cooling' = cooling \ {host[d]}
       \/ ~Works(d, "mapped") /\ Goto(d, "direct") /\ cooling' \in {cooling, cooling \cup {host[d]}}
    /\ UNCHANGED <<routes, proxied, base, probing, host, target, changes>>

Direct(d) ==
    /\ pc[d] = "direct"
    /\ Goto(d, IF Works(d, "direct") THEN "ok" ELSE "proxy")
    /\ UNCHANGED <<routes, proxied, inFlight, cooling, base, probing, host, target, changes>>

Proxy(d) ==
    /\ pc[d] = "proxy"
    /\ Goto(d, IF proxied THEN "ok" ELSE "resolve")
    /\ UNCHANGED <<routes, proxied, inFlight, cooling, base, probing, host, target, changes>>

\* The caller cancels it; this ends the transport it is at.
Cancel(d) ==
    /\ pc[d] \in {"mapped", "direct", "proxy", "fallback"}
    /\ inFlight' = IF pc[d] = "mapped" THEN Released(d) ELSE inFlight
    /\ Goto(d, "cancelled")
    /\ UNCHANGED <<routes, proxied, cooling, base, probing, host, target, changes>>

-----------------------------------------------------------------------------
(* Another endpoint. *)

Candidates(h) == Endpoints \ {h}
Remembered(d) == base \notin {None, host[d]}
Discovering == \E d \in Downloads : pc[d] = "discovery"
MayFallBack(d) ==
    host[d] \in Endpoints /\ (Remembered(d) \/ Discovering \/ Candidates(host[d]) # {})

NoFallback(d) ==
    /\ pc[d] = "resolve" /\ ~MayFallBack(d)
    /\ Goto(d, "failed")
    /\ UNCHANGED <<routes, proxied, inFlight, cooling, base, probing, host, target, changes>>

UseRemembered(d) ==
    /\ pc[d] = "resolve" /\ MayFallBack(d) /\ Remembered(d)
    /\ Goto(d, "fallback")
    /\ target' = [target EXCEPT ![d] = base]
    /\ UNCHANGED <<routes, proxied, inFlight, cooling, base, probing, host, changes>>

\* It starts the discovery, or waits for the one under way.
Discover(d) ==
    /\ pc[d] = "resolve" /\ MayFallBack(d) /\ ~Remembered(d)
    /\ probing' = IF Discovering THEN probing ELSE Candidates(host[d])
    /\ Goto(d, "discovery")
    /\ UNCHANGED <<routes, proxied, inFlight, cooling, base, host, target, changes>>

\* Everyone who waits for the discovery goes on.
Waiters == {d \in Downloads : pc[d] = "discovery"}
AllGoto(p) == pc' = [d \in Downloads |-> IF d \in Waiters THEN p ELSE pc[d]]

\* The first probe that succeeds cancels the others.
Found(e) ==
    /\ e \in probing /\ "direct" \in routes[e]
    /\ base' = e /\ probing' = {}
    /\ target' = [d \in Downloads |-> IF d \in Waiters THEN e ELSE target[d]]
    /\ AllGoto("fallback")
    /\ UNCHANGED <<routes, proxied, inFlight, cooling, host, changes>>

\* Mutation: the first probe that fails ends the discovery.
NothingLeft(left) == {}
Left(left) == left

\* The last probe that fails ends it with nothing.
NotFound(e) ==
    /\ e \in probing /\ "direct" \notin routes[e]
    /\ probing' = Left(probing \ {e})
    /\ IF probing' = {} THEN AllGoto("failed") ELSE UNCHANGED pc
    /\ UNCHANGED <<routes, proxied, inFlight, cooling, base, host, target, changes>>

BaseAfterFailure(d) == IF base = target[d] THEN None ELSE base

Fallback(d) ==
    /\ pc[d] = "fallback"
    /\ IF "direct" \in routes[target[d]]
       THEN Goto(d, "ok") /\ UNCHANGED base
       ELSE Goto(d, "failed") /\ base' = BaseAfterFailure(d)
    /\ UNCHANGED <<routes, proxied, inFlight, cooling, probing, host, target, changes>>

Attempt(d) ==
    \/ Mapped(d) \/ Direct(d) \/ Proxy(d)
    \/ NoFallback(d) \/ UseRemembered(d) \/ Discover(d) \/ Fallback(d)

Probe(e) == Found(e) \/ NotFound(e)

Next ==
    \/ \E h \in Hosts : Change(h) \/ Cooled(h)
    \/ \E d \in Downloads : Begin(d) \/ Attempt(d) \/ Cancel(d)
    \/ \E e \in Endpoints : Probe(e)

Spec == Init /\ [][Next]_vars

\* Every attempt and probe ends by its timeout, and a subscription is
\* downloaded again at the next synchronisation or update.
FairSpec ==
    /\ Spec
    /\ \A d \in Downloads : WF_vars(Attempt(d)) /\ WF_vars(Begin(d))
    /\ \A e \in Endpoints : WF_vars(Probe(e))

-----------------------------------------------------------------------------
TypeOK ==
    /\ cooling \subseteq Hosts /\ base \in Endpoints \cup {None} /\ probing \subseteq Endpoints
    /\ pc \in [Downloads -> {"idle", "mapped", "direct", "proxy", "resolve", "discovery",
                             "fallback", "ok", "failed", "cancelled"}]
    \* One mapped probe for a host, and it is accounted for.
    /\ inFlight = {host[d] : d \in {d \in Downloads : pc[d] = "mapped"}}
    /\ \A d, e \in Downloads :
         pc[d] = "mapped" /\ pc[e] = "mapped" /\ host[d] = host[e] => d = e

\* The public routes that lead to the subscriptions of a host.
PublicRoute(h) ==
    \/ proxied \/ "direct" \in routes[h]
    \/ h \in Endpoints /\ \E e \in Candidates(h) : "direct" \in routes[e]

\* While the network does not change, a download fails only if no public route
\* leads to its subscription, whatever the others are doing.
FindsRoute ==
    \A d \in Downloads : changes = 0 /\ pc[d] = "failed" => ~PublicRoute(host[d])

\* Once every subscription has a public route for good, no download goes on
\* failing: an endpoint that was remembered and died is forgotten.
FailuresEnd ==
    <>[](\A d \in Downloads : PublicRoute(host[d]))
      => \A d \in Downloads : <>[](pc[d] # "failed")
=============================================================================
