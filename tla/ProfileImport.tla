---------------------------- MODULE ProfileImport ----------------------------
(***************************************************************************)
(* The import of the subscriptions of an account as profiles: one upsert   *)
(* per subscription, all at once, over a database whose transactions are   *)
(* serial; then the activation, the removal of obsolete profiles and the   *)
(* names.  The periodic update of a profile and the user act meanwhile.    *)
(*                                                                         *)
(* A subscription is its URL.  A name is a sequence of its base and the    *)
(* digits after it: "VIP" is a prefix of "VIP2", as of any name that insert *)
(* makes when "VIP" is taken.                                              *)
(***************************************************************************)
EXTENDS Integers, Sequences, SequencesExt

CONSTANTS
    NSubs,        \* subscriptions delivered
    NUrls,        \* URLs in all: the others are of older profiles
    Bases,        \* bases of names
    Digits,       \* digits after a base
    MaxDigits,    \* bound on their number
    Distinct,     \* URLs whose titles are not generated from one another
    Updates,      \* whether a periodic update runs
    MaxActs       \* bound on the user's activations

\* What the constants stand for.
ImportAssumption ==
    /\ NSubs \in Nat \ {0} /\ NUrls \in Nat /\ NSubs <= NUrls
    /\ MaxDigits \in Nat \ {0} /\ Distinct \subseteq 1..NUrls
    /\ Updates \in BOOLEAN /\ MaxActs \in Nat

Urls == 1..NUrls
Subs == 1..NSubs
Updater == 0
Tasks == Subs \cup {Updater}
Numerals == UNION {[1..n -> Digits] : n \in 0..MaxDigits}
Names == UNION {{<<b>> \o d : d \in Numerals} : b \in Bases}
Titles == {n \in Names : Len(n) <= 2}

\* The row a task inserts has an identifier of its own.
NewId(t) == NUrls + 1 + t
Ids == Urls \cup {NewId(t) : t \in Tasks}
NoId == 0

VARIABLES
    title,    \* per URL: the name its subscription gives
    row,      \* profileEntries: per identifier a row, or Gone
    pc,       \* per task: its place in upsertRemote
    url,      \* the URL of the periodic update
    target,   \* per task: the row it updates, or NoId
    dups,     \* per task: the duplicates it has still to delete
    failed,   \* subscriptions whose upsert failed
    stage,    \* place of the import
    doomed,   \* obsolete rows still to be deleted, with their active flag as read
    acts

vars == <<title, row, pc, url, target, dups, failed, stage, doomed, acts>>

Gone == [url |-> 0, name |-> <<>>, active |-> FALSE]
Row == [url : Urls, name : Names, active : BOOLEAN]
Rows == {i \in Ids : row[i] # Gone}

TypeOK ==
    /\ title \in [Urls -> Titles]
    /\ row \in [Ids -> Row \cup {Gone}]
    /\ pc \in [Tasks -> {"idle", "url", "name", "save", "dups", "purge", "done"}]
    /\ url \in Urls \cup {0}
    /\ target \in [Tasks -> Ids \cup {NoId}]
    /\ dups \in [Tasks -> SUBSET Ids]
    /\ failed \subseteq Subs
    /\ stage \in {"upsert", "pick", "activate", "obsolete", "delete", "names", "done"}
    /\ doomed \subseteq Ids \X BOOLEAN
    /\ acts \in 0..MaxActs

\* _isGeneratedDuplicateName: the name itself, or with digits after it.
Generated(base, candidate) == IsPrefix(base, candidate)

\* Rows of distinct URLs, one of them active.
Init ==
    /\ title \in {f \in [Urls -> Titles] : \A u, v \in Distinct : u # v => ~Generated(f[u], f[v])}
    /\ \E old \in SUBSET Urls : \E top \in IF old = {} THEN {0} ELSE old :
         row = [i \in Ids |-> IF i \in old
                              THEN [url |-> i, name |-> title[i], active |-> i = top]
                              ELSE Gone]
    /\ pc = [t \in Tasks |-> IF t = Updater THEN "idle" ELSE "url"]
    /\ url = 0 /\ target = [t \in Tasks |-> NoId] /\ dups = [t \in Tasks |-> {}]
    /\ failed = {} /\ stage = "upsert" /\ doomed = {} /\ acts = 0

UrlOf(t) == IF t = Updater THEN url ELSE t

WithUrl(u) == {i \in Rows : row[i].url = u}
Named(n) == {i \in Rows : row[i].name = n}

Go(t, place) == pc' = [pc EXCEPT ![t] = place]
Rest == UNCHANGED <<title, url, failed, stage, doomed, acts>>

\* updateProfiles takes a profile of the list it has read.
UpdateBegins ==
    /\ Updates /\ pc[Updater] = "idle"
    /\ url' \in {row[i].url : i \in Rows}
    /\ Go(Updater, "url")
    /\ UNCHANGED <<title, row, target, dups, failed, stage, doomed, acts>>

\* Only a subscription brings a name to look for.
FindByUrl(t) ==
    /\ pc[t] = "url"
    /\ \/ \E i \in WithUrl(UrlOf(t)) : target' = [target EXCEPT ![t] = i] /\ Go(t, "save")
       \/ /\ WithUrl(UrlOf(t)) = {} /\ UNCHANGED target
          /\ Go(t, IF t = Updater THEN "save" ELSE "name")
    /\ UNCHANGED <<row, dups>> /\ Rest

\* getRemoteByName: a row of this name, else one of a generated name.
ByName(n) ==
    IF Named(n) # {} THEN Named(n) ELSE {i \in Rows : Generated(n, row[i].name)}

FindByName(t) ==
    /\ pc[t] = "name" /\ Go(t, "save")
    /\ \/ \E i \in ByName(title[t]) : target' = [target EXCEPT ![t] = i]
       \/ ByName(title[t]) = {} /\ UNCHANGED target
    /\ UNCHANGED <<row, dups>> /\ Rest

FailedWith(t) == failed \cup ({t} \cap Subs)

\* The download or the validation fails.
UpsertFails(t) ==
    /\ pc[t] = "save" /\ Go(t, "done")
    /\ failed' = FailedWith(t)
    /\ UNCHANGED <<title, row, url, target, dups, stage, doomed, acts>>

\* Mutation: the row becomes active beside the one that is.
OnlyActiveAdded(i, rows) == [rows EXCEPT ![i].active = TRUE]

\* The others become inactive in the same transaction.
OnlyActive(i, rows) ==
    [j \in Ids |-> IF rows[j] = Gone THEN Gone ELSE [rows[j] EXCEPT !.active = j = i]]

\* Digits are appended until the name is free.
FreeNames(n) ==
    {m \in Names : /\ Generated(n, m) /\ Named(m) = {}
                   /\ \A k \in Names : Generated(n, k) /\ IsStrictPrefix(k, m) => Named(k) # {}}

Insert(t) ==
    /\ pc[t] = "save" /\ target[t] = NoId
    /\ \E n \in FreeNames(title[UrlOf(t)]) :
         row' = OnlyActive(NewId(t),
                    [row EXCEPT ![NewId(t)] =
                        [url |-> UrlOf(t), name |-> n, active |-> TRUE]])
    /\ target' = [target EXCEPT ![t] = NewId(t)]
    /\ Go(t, "dups") /\ UNCHANGED dups /\ Rest

\* A row that was deleted meanwhile is not an error.
Edit(t) ==
    /\ pc[t] = "save" /\ target[t] # NoId
    /\ row' = IF target[t] \in Rows
              THEN [row EXCEPT ![target[t]].url = UrlOf(t),
                               ![target[t]].name = title[UrlOf(t)]]
              ELSE row
    /\ Go(t, "dups") /\ UNCHANGED <<target, dups>> /\ Rest

Duplicates(t) == {i \in Rows \ {target[t]} : Generated(title[UrlOf(t)], row[i].name)}

FindDups(t) ==
    /\ pc[t] = "dups" /\ dups' = [dups EXCEPT ![t] = Duplicates(t)]
    /\ Go(t, "purge") /\ UNCHANGED <<row, target>> /\ Rest

\* An active duplicate takes the activation with it.
Purge(t) ==
    /\ pc[t] = "purge"
    /\ \/ \E i \in dups[t] : /\ row' = [row EXCEPT ![i] = Gone]
                             /\ dups' = [dups EXCEPT ![t] = @ \ {i}]
                             /\ UNCHANGED pc
       \/ dups[t] = {} /\ Go(t, "done") /\ UNCHANGED <<row, dups>>
    /\ UNCHANGED target /\ Rest

Successes == Subs \ failed
Stage(from, to) == stage = from /\ stage' = to
Quiet == UNCHANGED <<title, pc, url, dups, failed, acts>>

\* All outcomes are in; nothing more when none is a success.
Outcomes ==
    /\ \A s \in Subs : pc[s] = "done"
    /\ Stage("upsert", IF Successes = {} THEN "done" ELSE "pick")
    /\ Quiet /\ UNCHANGED <<row, target, doomed>>

\* _activateSyncedProfile: the active one when it was imported, else the row
\* of the first subscription that has one.  The import is over for its task
\* 1, whose target keeps the row to activate.
PickActive ==
    LET kept == \E i \in Rows : row[i].active /\ row[i].url \in Successes
        have == {s \in Successes : WithUrl(s) # {}}
    IN  /\ \/ (kept \/ have = {}) /\ Stage("pick", "obsolete") /\ UNCHANGED target
           \/ /\ ~kept /\ have # {} /\ Stage("pick", "activate")
              /\ \E i \in WithUrl(CHOOSE s \in have : \A r \in have : s <= r) :
                   target' = [target EXCEPT ![1] = i]
        /\ Quiet /\ UNCHANGED <<row, doomed>>

\* setAsActive is an edit: it does nothing when the row is gone.
Activate ==
    /\ Stage("activate", "obsolete")
    /\ row' = IF target[1] \in Rows THEN OnlyActive(target[1], row) ELSE row
    /\ Quiet /\ UNCHANGED <<target, doomed>>

Obsolete == {i \in Rows : row[i].url \notin Subs}

\* _removeObsoleteProfiles reads all rows, but only after a full success.
FindObsolete ==
    /\ Stage("obsolete", "delete")
    /\ doomed' = {<<i, row[i].active>> : i \in IF failed = {} THEN Obsolete ELSE {}}
    /\ Quiet /\ UNCHANGED <<row, target>>

\* deleteById: the first other row is activated if this one was active when
\* it was read.
DeleteById(i, wasActive) ==
    LET left == [row EXCEPT ![i] = Gone]
        others == Rows \ {i}
    IN  \/ wasActive /\ \E j \in others : row' = [left EXCEPT ![j].active = TRUE]
        \/ ~(wasActive /\ others # {}) /\ row' = left

DeleteObsolete ==
    /\ stage = "delete"
    /\ \/ \E d \in doomed : DeleteById(d[1], d[2]) /\ doomed' = doomed \ {d} /\ UNCHANGED stage
       \/ doomed = {} /\ Stage("delete", "names") /\ UNCHANGED <<row, doomed>>
    /\ Quiet /\ UNCHANGED target

\* _normalizeSyncedProfileNames
NormalizeNames ==
    /\ Stage("names", "done")
    /\ row' = [i \in Ids |->
                 IF i \in Rows /\ row[i].url \in Successes
                    /\ Named(title[row[i].url]) \subseteq {i}
                 THEN [row[i] EXCEPT !.name = title[row[i].url]] ELSE row[i]]
    /\ Quiet /\ UNCHANGED <<target, doomed>>

\* The user chooses a profile.
SetAsActive(i) ==
    /\ acts < MaxActs /\ acts' = acts + 1
    /\ i \in Rows /\ row' = OnlyActive(i, row)
    /\ UNCHANGED <<title, pc, url, target, dups, failed, stage, doomed>>

Next ==
    \/ \E t \in Tasks : \/ FindByUrl(t) \/ FindByName(t) \/ UpsertFails(t)
                        \/ Insert(t) \/ Edit(t) \/ FindDups(t) \/ Purge(t)
    \/ UpdateBegins
    \/ Outcomes \/ PickActive \/ Activate \/ FindObsolete \/ DeleteObsolete \/ NormalizeNames
    \/ \E i \in Ids : SetAsActive(i)

Spec == Init /\ [][Next]_vars

-----------------------------------------------------------------------------
\* When every upsert has succeeded, every subscription has its profile
\* ("concurrent downloads allow available packages to appear immediately",
\* auth_notifier.dart).
ImportedAppear ==
    stage = "done" /\ failed = {} => \A s \in Subs : WithUrl(s) # {}

\* When the import and the update have ended and a profile is left, one
\* profile is active and no other (watchActiveProfile takes the first).
OneActive ==
    stage = "done" /\ pc[Updater] \in {"idle", "done"} /\ Rows # {} =>
        \E i \in Rows : \A j \in Rows : row[j].active <=> i = j

\* An import or an update never deletes the last profile: what the user had
\* is "safer than deleting the user's working configuration".
KeepsOne == Rows # {} => Rows' # {}
=============================================================================
