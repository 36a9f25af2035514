---------------------------- MODULE OriginConfig ----------------------------
(***************************************************************************)
(* The origin document of the app: the one in memory, the one in the       *)
(* preferences, and the endpoint pool kept beside it.  The refresh of the  *)
(* bootstrap and the persistence after a login both call replace, which    *)
(* checks the revision, waits for two writes and only then assigns.  The   *)
(* process may die between any two steps.                                  *)
(***************************************************************************)
EXTENDS Naturals, Sequences

CONSTANTS
    Callers,       \* tasks that call replace
    Bodies,        \* contents of a document
    MaxRevision,   \* bound on revisions
    MayThrow,      \* whether a write may throw instead of answering false
    MaxKills       \* bound on deaths of the process

\* What the constants stand for.
OriginAssumption ==
    /\ MaxRevision \in Nat /\ MaxKills \in Nat /\ MayThrow \in BOOLEAN

VARIABLES
    config,   \* _config
    stored,   \* the document under preferenceKey
    pool,     \* the document whose endpoints are under endpointPoolPreferenceKey
    doing,    \* per caller: the document it is replacing with, or NoDocument
    writes,   \* the writes the platform has not done yet, in order
    poolLost, \* whether a pool was ever not written after its document
    kills

vars == <<config, stored, pool, doing, writes, poolLost, kills>>

NoDocument == [revision |-> 0, body |-> "none"]
Documents == [revision : 1..MaxRevision, body : Bodies]

Write(what, c) == [what |-> what, by |-> c]

TypeOK ==
    /\ config \in Documents \cup {NoDocument} /\ stored \in Documents \cup {NoDocument}
    /\ pool \in Documents \cup {NoDocument}
    /\ doing \in [Callers -> Documents \cup {NoDocument}]
    /\ writes \in Seq([what : {"config", "pool"}, by : Callers])
    /\ \A c \in Callers : (doing[c] # NoDocument) <=> (\E i \in DOMAIN writes : writes[i].by = c)
    /\ poolLost \in BOOLEAN /\ kills \in 0..MaxKills

Init ==
    /\ stored \in Documents \cup {NoDocument} /\ pool = stored
    /\ config = stored
    /\ doing = [c \in Callers |-> NoDocument] /\ writes = <<>>
    /\ poolLost = FALSE /\ kills = 0

\* An older document is refused, the same revision is kept or a collision.
Newer(next) == next.revision > config.revision

\* replace up to its first await.
Replace(c, next) ==
    /\ doing[c] = NoDocument /\ Newer(next)
    /\ doing' = [doing EXCEPT ![c] = next]
    /\ writes' = Append(writes, Write("config", c))
    /\ UNCHANGED <<config, stored, pool, poolLost, kills>>

\* What is still to be written when the document is stored.
SecondWrite(rest, c) == Append(rest, Write("pool", c))

ConfigWritten ==
    /\ writes # <<>> /\ Head(writes).what = "config"
    /\ LET c == Head(writes).by IN
         /\ stored' = doing[c]
         /\ writes' = SecondWrite(Tail(writes), c)
    /\ UNCHANGED <<config, pool, doing, poolLost, kills>>

\* The write answers false, or throws: the call ends without an assignment.
ConfigRefused ==
    /\ writes # <<>> /\ Head(writes).what = "config"
    /\ writes' = Tail(writes)
    /\ doing' = [doing EXCEPT ![Head(writes).by] = NoDocument]
    /\ UNCHANGED <<config, stored, pool, poolLost, kills>>

\* Mutation: memory keeps the document it had.
AssignedOld(c) == config

\* The document in memory when a call ends.
Assigned(c) == doing[c]

\* The answer of the second write is not looked at.
PoolWritten ==
    /\ writes # <<>> /\ Head(writes).what = "pool"
    /\ LET c == Head(writes).by IN
         /\ \/ pool' = doing[c] /\ UNCHANGED poolLost
            \/ UNCHANGED pool /\ poolLost' = TRUE
         /\ config' = Assigned(c)
         /\ doing' = [doing EXCEPT ![c] = NoDocument]
    /\ writes' = Tail(writes)
    /\ UNCHANGED <<stored, kills>>

\* It throws: the document is stored but not in use.
PoolThrows ==
    /\ MayThrow /\ writes # <<>> /\ Head(writes).what = "pool"
    /\ doing' = [doing EXCEPT ![Head(writes).by] = NoDocument]
    /\ writes' = Tail(writes) /\ poolLost' = TRUE
    /\ UNCHANGED <<config, stored, pool, kills>>

\* The process dies with its pending writes; the next one restores.
Kill ==
    /\ kills < MaxKills /\ kills' = kills + 1
    /\ config' = stored
    /\ doing' = [c \in Callers |-> NoDocument] /\ writes' = <<>>
    /\ poolLost' = (poolLost \/ writes # <<>>)
    /\ UNCHANGED <<stored, pool>>

Next ==
    \/ \E c \in Callers, next \in Documents : Replace(c, next)
    \/ ConfigWritten \/ ConfigRefused \/ PoolWritten \/ PoolThrows
    \/ Kill

Spec == Init /\ [][Next]_vars

-----------------------------------------------------------------------------
\* The document in use is only ever replaced by one of a later revision, over
\* a death of the process too ("enforces strictly monotonic origin DNS
\* revisions", kuaifei_origin_test.dart).
MovesForward == config' = config \/ config'.revision > config.revision
OnlyForward == [][MovesForward]_vars

\* When no call is running a restart would come up with the document in use,
\* and the pool is that of this document unless its write was lost.
AgreeAtRest ==
    (\A c \in Callers : doing[c] = NoDocument) =>
        /\ stored = config
        /\ poolLost \/ pool = config
=============================================================================
