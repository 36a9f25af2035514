----------------------------- MODULE AuthSession -----------------------------
(***************************************************************************)
(* The session of the app: logins that may be cancelled while they run,    *)
(* the synchronisation a login leaves in the background, the refresh of a  *)
(* timer, and the logout.  All run on one thread and interleave at their   *)
(* awaits; none stops another.  ProfileImport has the import in detail:    *)
(* here it adds some of the profiles it wants, and removes all others when *)
(* it could add them all.                                                  *)
(***************************************************************************)
EXTENDS Naturals, FiniteSets

CONSTANTS
    Accounts, NoOne,
    Profiles,       \* profiles of a subscription
    Common,         \* profiles that every account has; the others have one each
    Legacy,         \* the profile of the aggregate URL, which an older app imported
    Logins,         \* tasks of login, each run once
    MayLogout

\* What the server may have for the accounts.
Assignments ==
    {f \in [Accounts -> Profiles \ Common] : \A a, b \in Accounts : a # b => f[a] # f[b]}

\* What the constants stand for.
SessionAssumption ==
    /\ NoOne \notin Accounts /\ Common \subseteq Profiles /\ Legacy \notin Profiles
    /\ MayLogout \in BOOLEAN /\ Assignments # {}

Plans == CHOOSE f \in Assignments : TRUE
PlansOf(a) == Common \cup {Plans[a]}

VARIABLES
    status,    \* state of the notifier
    token,     \* whose token is stored
    meta,      \* the profiles stored as metadata
    db,        \* the profiles in the database
    timer,     \* whether the refresh timers are set
    booting,   \* _originRefreshInFlight
    login,     \* per login: its place
    who,       \* per login: its account
    sync,      \* per login: place of its synchronisation
    refresh,   \* place of the refresh, which excludes itself
    asked,     \* the account whose token the refresh read
    waiter,    \* the login whose synchronisation awaits the refresh, or NoOne
    importing, \* per importer: its place in the import
    want,      \* per importer: the profiles to import
    out,       \* place of the logout
    crossed,   \* importers about to remove what is obsolete, but what they have added
               \* a logout or the import of other profiles has removed meanwhile
    cleared    \* whether a logout has ended and no login has begun since

vars == <<status, token, meta, db, timer, booting, login, who, sync, refresh,
          asked, waiter, importing, want, out, crossed, cleared>>

Refresher == "refresh"
Importers == Logins \cup {Refresher}

TypeOK ==
    /\ status \in {"idle", "loading", "authenticated", "error"}
    /\ token \in Accounts \cup {NoOne}
    /\ meta \subseteq Profiles /\ db \subseteq Profiles \cup {Legacy}
    /\ timer \in BOOLEAN /\ booting \in BOOLEAN
    /\ login \in [Logins -> {"new", "asking", "token", "meta", "ends", "done"}]
    /\ who \in [Logins -> Accounts]
    /\ sync \in [Logins -> {"none", "legacy", "start", "first", "import", "check", "again", "last", "done"}]
    /\ refresh \in {"off", "asking", "stored", "import"} /\ asked \in Accounts
    /\ waiter \in Logins \cup {NoOne} /\ (waiter # NoOne => refresh # "off")
    /\ importing \in [Importers -> {"off", "add", "remove"}]
    /\ want \in [Importers -> SUBSET Profiles]
    /\ \A p \in Importers : (importing[p] # "off") => want[p] # {}
    /\ out \in {"no", "meta", "files"} /\ crossed \subseteq Importers /\ cleared \in BOOLEAN

\* The app starts without a session in memory, whatever is stored, by itself or by
\* an older app; or it was logged out while a refresh was asking.
Init ==
    /\ status = "idle"
    /\ \/ token = NoOne /\ meta = {} /\ db = {} /\ refresh \in {"off", "asking"}
       \/ token \in Accounts /\ meta = PlansOf(token) /\ db = meta /\ refresh = "off"
       \/ token \in Accounts /\ meta = {} /\ db = {Legacy} /\ refresh = "off"
    /\ timer = FALSE /\ booting = FALSE
    /\ login = [l \in Logins |-> "new"] /\ who \in [Logins -> Accounts]
    /\ sync = [l \in Logins |-> "none"]
    /\ asked \in Accounts /\ waiter = NoOne
    /\ importing = [p \in Importers |-> "off"] /\ want = [p \in Importers |-> {}]
    /\ out = "no" /\ crossed = {} /\ cleared = FALSE

Stored == <<token, meta, db>>
Session == <<status, timer, booting, out, crossed, cleared>>
Tasks == <<login, who, sync, refresh, asked, waiter, importing, want>>

-----------------------------------------------------------------------------
\* Login: the page offers it when nothing is loading.
Login(l) ==
    /\ login[l] = "new" /\ status \in {"idle", "error"}
    /\ status' = "loading" /\ booting' = TRUE /\ cleared' = FALSE
    /\ login' = [login EXCEPT ![l] = "asking"]
    /\ UNCHANGED <<Stored, timer, out, crossed, who, sync, refresh, asked, waiter, importing, want>>

\* The guarded task failed or timed out: the state becomes its error.
LoginFails(l) ==
    /\ login[l] = "asking"
    /\ login' = [login EXCEPT ![l] = "done"] /\ status' = "error"
    /\ UNCHANGED <<Stored, timer, booting, out, crossed, cleared, who, sync, refresh, asked, waiter, importing, want>>

LoginAnswered(l) ==
    /\ login[l] = "asking" /\ login' = [login EXCEPT ![l] = "token"]
    /\ UNCHANGED <<Stored, Session, who, sync, refresh, asked, waiter, importing, want>>

WriteToken(l) ==
    /\ login[l] = "token" /\ login' = [login EXCEPT ![l] = "meta"]
    /\ token' = who[l]
    /\ UNCHANGED <<meta, db, Session, who, sync, refresh, asked, waiter, importing, want>>

\* The server may answer without profiles for once.
Answers(a) == {PlansOf(a), {}}

WriteMeta(l) ==
    /\ login[l] = "meta" /\ login' = [login EXCEPT ![l] = "ends"]
    /\ meta' \in Answers(who[l])
    /\ UNCHANGED <<token, db, Session, who, sync, refresh, asked, waiter, importing, want>>

\* Mutation: the timers of the last session are kept, if it had any.
TimerAfterLoginKept == timer

\* _scheduleRefreshes
TimerAfterLogin == TRUE

\* Credentials are stored: the timers are set and the import goes on behind.
LoginEnds(l) ==
    /\ login[l] = "ends" /\ login' = [login EXCEPT ![l] = "done"]
    /\ timer' = TimerAfterLogin /\ status' = "authenticated"
    /\ sync' = [sync EXCEPT ![l] = "legacy"]
    /\ UNCHANGED <<Stored, booting, out, crossed, cleared, who, refresh, asked, waiter, importing, want>>

\* cancelLogin only sets the state: the login goes on.
CancelLogin ==
    /\ status = "loading" /\ status' = "idle"
    /\ UNCHANGED <<Stored, timer, booting, out, crossed, cleared, Tasks>>

\* _refreshBootstrapConfig ends, and schedules when the document has changed.
BootstrapEnds ==
    /\ booting /\ booting' = FALSE /\ timer' \in {timer, TRUE}
    /\ UNCHANGED <<Stored, status, out, crossed, cleared, Tasks>>

-----------------------------------------------------------------------------
\* Mutation: missing metadata is imported as any other.
BeginImportAny(p) ==
    /\ want' = [want EXCEPT ![p] = meta]
    /\ importing' = [importing EXCEPT ![p] = "add"]

\* _syncStoredSubscriptionsToProfiles reads the metadata as it is stored now.
BeginImport(p) ==
    /\ want' = [want EXCEPT ![p] = meta]
    /\ importing' = [importing EXCEPT ![p] = IF meta = {} THEN "off" ELSE "add"]

\* Obsolete profiles are removed only after a full success.
Complete(done, p) == done = want[p]

AddProfiles(p) ==
    /\ importing[p] = "add"
    /\ \E done \in SUBSET want[p] :
         /\ db' = db \cup done
         /\ importing' = [importing EXCEPT ![p] = IF Complete(done, p) THEN "remove" ELSE "off"]
    /\ UNCHANGED <<token, meta, Session, login, who, sync, refresh, asked, waiter, want>>

\* Importers that an import of other profiles may take theirs from.
Removers == {p \in Importers : importing[p] = "remove"}

RemoveObsolete(p) ==
    /\ importing[p] = "remove"
    /\ importing' = [importing EXCEPT ![p] = "off"]
    /\ db' = db \cap want[p]
    /\ crossed' = (crossed \cup {q \in Removers : want[q] # want[p]}) \ {p}
    /\ UNCHANGED <<token, meta, status, timer, booting, out, cleared,
                   login, who, sync, refresh, asked, waiter, want>>

-----------------------------------------------------------------------------
\* _refreshSubscriptionProfiles, by the timer or by a synchronisation.
MayRefresh == refresh = "off" /\ token # NoOne

BeginRefresh == MayRefresh /\ refresh' = "asking" /\ asked' = token

TimerFires ==
    /\ timer /\ BeginRefresh
    /\ UNCHANGED <<Stored, Session, login, who, sync, waiter, importing, want>>

RefreshFails ==
    /\ refresh = "asking" /\ refresh' = "off" /\ waiter' = NoOne
    /\ UNCHANGED <<Stored, Session, login, who, sync, asked, importing, want>>

\* What the server answers for the token that was read is stored.
RefreshAnswered ==
    /\ refresh = "asking" /\ refresh' = "stored"
    /\ meta' \in Answers(asked)
    /\ UNCHANGED <<token, db, Session, login, who, sync, asked, waiter, importing, want>>

RefreshImports ==
    /\ refresh = "stored" /\ refresh' = "import" /\ BeginImport(Refresher)
    /\ UNCHANGED <<Stored, Session, login, who, sync, asked, waiter>>

\* The timers are set again when the origin document has changed.
RefreshEnds ==
    /\ refresh = "import" /\ importing[Refresher] = "off"
    /\ refresh' = "off" /\ waiter' = NoOne /\ timer' \in {timer, TRUE}
    /\ UNCHANGED <<Stored, status, booting, out, crossed, cleared, login, who, sync, asked, importing, want>>

-----------------------------------------------------------------------------
\* _syncProfilesAfterLogin.  A call of the refresh returns at once when one is
\* running or no token is stored, and else when the refresh has ended.
SyncTo(l, place) == sync' = [sync EXCEPT ![l] = place]

\* _removeLegacyDefaultSubscriptionProfile: the profile goes if its URL or its name
\* gives it away, also when it is the only one; a failure is logged.
RemoveLegacy(l) ==
    /\ sync[l] = "legacy" /\ SyncTo(l, "start")
    /\ db' \in {db, db \ {Legacy}}
    /\ UNCHANGED <<token, meta, Session, login, who, refresh, asked, waiter, importing, want>>

CallRefresh(l, place) ==
    /\ SyncTo(l, place)
    /\ \/ BeginRefresh /\ waiter' = l
       \/ ~MayRefresh /\ UNCHANGED <<refresh, asked, waiter>>
    /\ UNCHANGED <<Stored, Session, login, who, importing, want>>

SyncRefreshes(l) ==
    \/ sync[l] = "start" /\ meta = {} /\ CallRefresh(l, "first")
    \/ sync[l] = "check" /\ ~(want[l] \subseteq db) /\ CallRefresh(l, "again")

SyncImports(l) ==
    /\ \/ sync[l] = "start" /\ meta # {} /\ SyncTo(l, "import")
       \/ sync[l] = "first" /\ waiter # l /\ meta # {} /\ SyncTo(l, "import")
       \/ sync[l] = "again" /\ waiter # l /\ ~(meta \subseteq db) /\ SyncTo(l, "last")
    /\ BeginImport(l)
    /\ UNCHANGED <<Stored, Session, login, who, refresh, asked, waiter>>

\* Nothing to import keeps what is there.
SyncEnds(l) ==
    /\ \/ sync[l] = "first" /\ waiter # l /\ meta = {}
       \/ sync[l] = "check" /\ want[l] \subseteq db
       \/ sync[l] = "again" /\ waiter # l /\ meta \subseteq db
       \/ sync[l] = "last" /\ importing[l] = "off"
    /\ SyncTo(l, "done")
    /\ UNCHANGED <<Stored, Session, login, who, refresh, asked, waiter, importing, want>>

SyncChecks(l) ==
    /\ sync[l] = "import" /\ importing[l] = "off" /\ SyncTo(l, "check")
    /\ UNCHANGED <<Stored, Session, login, who, refresh, asked, waiter, importing, want>>

-----------------------------------------------------------------------------
\* logout: the timers, the credentials, the metadata, then the profiles.
Logout ==
    /\ MayLogout /\ status = "authenticated" /\ out = "no"
    /\ out' = "meta" /\ timer' = FALSE /\ token' = NoOne
    /\ UNCHANGED <<meta, db, status, booting, crossed, cleared, Tasks>>

LogoutMeta ==
    /\ out = "meta" /\ out' = "files" /\ meta' = {}
    /\ UNCHANGED <<token, db, status, timer, booting, crossed, cleared, Tasks>>

LogoutEnds ==
    /\ out = "files" /\ out' = "no" /\ db' = {}
    /\ status' = "idle" /\ crossed' = Removers /\ cleared' = TRUE
    /\ UNCHANGED <<token, meta, timer, booting, Tasks>>

Next ==
    \/ \E l \in Logins :
         \/ Login(l) \/ LoginFails(l) \/ LoginAnswered(l) \/ WriteToken(l) \/ WriteMeta(l) \/ LoginEnds(l)
         \/ RemoveLegacy(l)
         \/ SyncRefreshes(l) \/ SyncImports(l) \/ SyncEnds(l) \/ SyncChecks(l)
    \/ CancelLogin \/ BootstrapEnds
    \/ TimerFires \/ RefreshFails \/ RefreshAnswered \/ RefreshImports \/ RefreshEnds
    \/ \E p \in Importers : AddProfiles(p) \/ RemoveObsolete(p)
    \/ Logout \/ LogoutMeta \/ LogoutEnds

Spec == Init /\ [][Next]_vars

\* Requests end, timers fire, and a request that is made again and again is
\* answered in full at last.
FairSpec ==
    /\ Spec /\ WF_vars(BootstrapEnds) /\ WF_vars(TimerFires) /\ WF_vars(RefreshImports \/ RefreshEnds)
    /\ WF_vars(LogoutMeta) /\ WF_vars(LogoutEnds)
    /\ WF_vars(refresh = "asking" /\ (RefreshFails \/ RefreshAnswered))
    /\ SF_vars(RefreshAnswered /\ meta' = PlansOf(asked))
    /\ \A p \in Importers : /\ WF_vars(AddProfiles(p) \/ RemoveObsolete(p))
                            /\ SF_vars(AddProfiles(p) /\ importing'[p] = "remove")
    /\ \A l \in Logins :
         /\ WF_vars(LoginFails(l) \/ LoginAnswered(l) \/ WriteToken(l) \/ WriteMeta(l) \/ LoginEnds(l))
         /\ WF_vars(RemoveLegacy(l) \/ SyncRefreshes(l) \/ SyncImports(l) \/ SyncEnds(l) \/ SyncChecks(l))

-----------------------------------------------------------------------------
\* Whatever crossed while it began, a session that lasts comes to have the
\* profiles of the account whose token is stored, and keeps them: a refresh or
\* a synchronisation of the account before is put right by the timer.
SessionLasts == status = "authenticated" /\ out = "no" /\ token # NoOne
EventuallyOwn == <>[]SessionLasts => <>[](token # NoOne /\ db = PlansOf(token))

\* Metadata that is missing for once, or a download that fails, takes no last
\* profile away.  What does is a logout, the synchronisation of a login that finds
\* only the legacy profile, and an import that removes what is obsolete after a
\* logout or the import of other profiles has removed what it had added.
LastLegacyGoes == db = {Legacy} /\ \E l \in Logins : sync[l] = "legacy" /\ SyncTo(l, "start")
CrossedRemoves == \E p \in crossed : importing[p] = "remove" /\ importing'[p] = "off"
LoggedOut == out = "files" /\ out' = "no"
KeepsOne == db # {} => db' # {} \/ LoggedOut \/ LastLegacyGoes \/ CrossedRemoves

\* "Keep any existing local profiles on a transient metadata failure.  They are
\* safer than deleting the user's working configuration." (auth_notifier.dart): a
\* synchronisation that finds profiles and no metadata leaves some, if nobody logs out.
KeepsExisting ==
    \A l \in Logins :
        [](sync[l] = "legacy" /\ db # {} => [](sync[l] = "done" /\ meta = {} => db # {}))

\* "Auth: logged out, credentials and configs cleared"
LogoutClears == cleared => token = NoOne /\ meta = {} /\ db = {}
=============================================================================
