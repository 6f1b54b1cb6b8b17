---------------------------- MODULE SettingsAuth ----------------------------
(***************************************************************************)
(* The settings and the requests that change them:                         *)
(* AppSettingsService.update keeps settings.json and its mirror in the     *)
(* database together, and three kinds of request end in it: a form, a      *)
(* login at Pixiv by hand or through the browser sidecar, and the refresh  *)
(* of the token.                                                           *)
(*                                                                         *)
(* The settings are two fields, the refresh token and one option; a        *)
(* request gives a field a value or leaves it alone, and 0 leaves alone    *)
(* (an empty token of the form does so, and a field the form does not      *)
(* send).  Tokens are numbered in the order Pixiv issues them.  The flows  *)
(* of logins and the sessions of the browser live in the memory of the     *)
(* process and expire; both are looked up after a cleanup, so that an      *)
(* expired one is the same as one that is gone.                            *)
(***************************************************************************)
EXTENDS Integers, FiniteSets

CONSTANTS
  Requests,      \* concurrent requests of the settings API
  Flows,         \* flow ids
  NoFlow,        \* no flow
  MaxTokens,     \* bound: tokens Pixiv issues
  MaxRequests,   \* bound: requests
  MaxUpdateErrors,  \* bound: errors
  MaxAuthCrashes    \* bound: crashes

ASSUME SettingsAuthAssumption ==
  /\ NoFlow \notin Flows
  /\ MaxTokens \in Nat /\ MaxRequests \in Nat
  /\ MaxUpdateErrors \in Nat /\ MaxAuthCrashes \in Nat

VARIABLES
  file,       \* settings.json
  mirror,     \* the settings table
  lock,       \* the request inside BEGIN IMMEDIATE, a set of at most one
  flow,       \* PixivOAuthFlowStore
  session,    \* PixivBrowserAuthStore: status
  req,        \* where each request is, its flow, what it sets, what it saves
  wanted,     \* history: the value last asked for of each field
  torn,       \* history: a file was saved and its mirror was not
  exchanged,  \* history: tokens issued for each flow
  saved,      \* history: flows whose token was saved
  tokens, served, errors, authCrashes   \* history

authVars == <<file, mirror, lock, flow, session, req, wanted, torn, exchanged, saved,
              tokens, served, errors, authCrashes>>

Options  == 1..2
Settings == [token : 0..MaxTokens, option : Options]
Sets     == [token : 0..MaxTokens, option : {0} \cup Options]
NoSets   == [token |-> 0, option |-> 0]

RequestKinds  == {"form", "login", "callback", "error", "refresh"}
Stages == {"idle", "receiving", "popping", "posting", "locking", "loading", "saving",
           "mirroring", "completing", "failing", "writing failure"}

Request == [kind : RequestKinds, stage : Stages, flow : Flows \cup {NoFlow},
            sets : Sets, copy : Settings]

DefaultSettings == [token |-> 0, option |-> 1]

NoRequestYet == [kind |-> "form", stage |-> "idle", flow |-> NoFlow,
                 sets |-> NoSets, copy |-> DefaultSettings]

AuthInit ==
  /\ file = DefaultSettings /\ mirror = DefaultSettings /\ lock = {}
  /\ flow = [f \in Flows |-> "unused"]
  /\ session = [f \in Flows |-> "absent"]
  /\ req = [r \in Requests |-> NoRequestYet]
  /\ wanted = DefaultSettings /\ torn = FALSE
  /\ exchanged = [f \in Flows |-> 0] /\ saved = {}
  /\ tokens = 0 /\ served = 0 /\ errors = 0 /\ authCrashes = 0

memoryVars  == <<flow, session>>
historyVars == <<exchanged, saved, tokens, served, errors, authCrashes>>

-----------------------------------------------------------------------------
(* Rows and requests. *)

\* {**settings, **values} without the values that are left alone
Merge(settings, sets) ==
  [token  |-> IF sets.token = 0 THEN settings.token ELSE sets.token,
   option |-> IF sets.option = 0 THEN settings.option ELSE sets.option]

GoTo(r, stage) == req' = [req EXCEPT ![r].stage = stage]

\* req'[r] for a request that is over
Over == NoRequestYet

Arrive(r, kind, stage, f, sets) ==
  /\ req[r].stage = "idle" /\ served < MaxRequests
  /\ served' = served + 1
  /\ req' = [req EXCEPT ![r] = [NoRequestYet EXCEPT !.kind = kind, !.stage = stage,
                                                    !.flow = f, !.sets = sets]]

-----------------------------------------------------------------------------
(* Logins. *)

\* start() of the flow store; the browser login also opens a session before it
\* calls the sidecar, whose refusal leaves both behind.
StartLogin(f, browser) ==
  /\ flow[f] = "unused"
  /\ flow' = [flow EXCEPT ![f] = "open"]
  /\ session' = [session EXCEPT ![f] = IF browser THEN "pending" ELSE "absent"]
  /\ UNCHANGED <<file, mirror, lock, req, wanted, torn, historyVars>>

\* FLOW_TTL_SECONDS have passed
ExpireLogin(f) ==
  /\ flow[f] = "open" \/ session[f] # "absent"
  /\ flow' = [flow EXCEPT ![f] = "gone"]
  /\ session' = [session EXCEPT ![f] = "absent"]
  /\ UNCHANGED <<file, mirror, lock, req, wanted, torn, historyVars>>

ArriveUnchanged == UNCHANGED <<file, mirror, lock, memoryVars, wanted, torn, exchanged, saved,
                               tokens, errors, authCrashes>>

SubmitForm(r) == /\ \E o \in {0} \cup Options :
                      Arrive(r, "form", "locking", NoFlow, [token |-> 0, option |-> o])
                 /\ ArriveUnchanged

\* the code is there (extract_code refuses others before anything changes)
CompleteLogin(r, f) == Arrive(r, "login", "popping", f, NoSets) /\ ArriveUnchanged

\* The sidecar delivers the callback: set_callback looks at the session first.
BrowserCallback(r, f) ==
  /\ session[f] # "absent"
  /\ Arrive(r, "callback", IF session[f] = "completed" THEN "popping" ELSE "receiving", f, NoSets)
  /\ ArriveUnchanged

BrowserError(r, f) == /\ session[f] # "absent"
                      /\ Arrive(r, "error", "failing", f, NoSets) /\ ArriveUnchanged

\* The stored token is read before Pixiv is asked for its successor.
RefreshToken(r) == /\ file.token # 0
                   /\ Arrive(r, "refresh", "posting", NoFlow, NoSets) /\ ArriveUnchanged

\* A session that has expired in the meantime is no longer in the store.
WithStatus(f, status) == [session EXCEPT ![f] = IF @ = "absent" THEN @ ELSE status]

ReceiveCallback(r) ==
  /\ req[r].stage = "receiving"
  /\ session' = WithStatus(req[r].flow, "callback_received")
  /\ GoTo(r, "popping")
  /\ UNCHANGED <<file, mirror, lock, flow, wanted, torn, historyVars>>

\* where an exception takes a request: the callback records it in its session
AfterErrorCompleting(r) == IF req[r].kind = "callback" THEN "completing" ELSE "idle"
AfterError(r) == IF req[r].kind = "callback" THEN "failing" ELSE "idle"

Failed(r) ==
  req' = [req EXCEPT ![r] = IF AfterError(r) = "idle" THEN Over
                            ELSE [@ EXCEPT !.stage = AfterError(r)]]

Popped(f) == [flow EXCEPT ![f] = "gone"]

\* PixivOAuthFlowStore.pop
PopFlow(r) ==
  /\ req[r].stage = "popping"
  /\ LET f == req[r].flow IN
       IF flow[f] = "open" THEN flow' = Popped(f) /\ GoTo(r, "posting")
       ELSE flow' = flow /\ Failed(r)
  /\ UNCHANGED <<file, mirror, lock, session, wanted, torn, historyVars>>

\* Pixiv answers the request for a token ...
IssueToken(r) ==
  /\ req[r].stage = "posting" /\ tokens < MaxTokens
  /\ tokens' = tokens + 1
  /\ req' = [req EXCEPT ![r].stage = "locking", ![r].sets.token = tokens + 1]
  /\ exchanged' = [f \in Flows |-> exchanged[f] + IF f = req[r].flow THEN 1 ELSE 0]
  /\ UNCHANGED <<file, mirror, lock, memoryVars, wanted, torn, saved, served, errors, authCrashes>>

\* ... or refuses it.
RefuseToken(r) ==
  /\ req[r].stage = "posting"
  /\ Failed(r)
  /\ UNCHANGED <<file, mirror, lock, memoryVars, wanted, torn, historyVars>>

-----------------------------------------------------------------------------
(* AppSettingsService.update. *)

\* BEGIN IMMEDIATE waits for the writer of the database.
MayLockAlways(r) == TRUE
MayLock(r) == lock = {}

BeginUpdate(r) ==
  /\ req[r].stage = "locking" /\ MayLock(r)
  /\ lock' = lock \cup {r}
  /\ GoTo(r, "loading")
  /\ UNCHANGED <<file, mirror, memoryVars, wanted, torn, historyVars>>

LoadSettings(r) ==
  /\ req[r].stage = "loading"
  /\ req' = [req EXCEPT ![r].stage = "saving", ![r].copy = Merge(file, req[r].sets)]
  /\ UNCHANGED <<file, mirror, lock, memoryVars, wanted, torn, historyVars>>

\* a temporary file replaces settings.json
SaveFile(r) ==
  /\ req[r].stage = "saving"
  /\ file' = req[r].copy
  /\ wanted' = Merge(wanted, req[r].sets)
  /\ saved' = saved \cup ({req[r].flow} \ {NoFlow})
  /\ GoTo(r, "mirroring")
  /\ UNCHANGED <<mirror, lock, memoryVars, torn, exchanged, tokens, served, errors, authCrashes>>

\* set_many of all settings
Mirrored(r) == req[r].copy

CommitMirror(r) ==
  /\ req[r].stage = "mirroring"
  /\ mirror' = Mirrored(r)
  /\ torn' = FALSE
  /\ lock' = lock \ {r}
  /\ req' = [req EXCEPT ![r] = IF @.kind = "callback" THEN [@ EXCEPT !.stage = "completing"]
                               ELSE Over]
  /\ UNCHANGED <<file, memoryVars, wanted, historyVars>>

\* An exception: the store is being changed by another request while pop cleans
\* it up, the database stays locked, settings.json is not valid or cannot be
\* written, or the mirror cannot.  The transaction is rolled back; the file is not.
UpdateError(r) ==
  /\ req[r].stage \in {"popping", "locking", "loading", "saving", "mirroring"}
  /\ errors < MaxUpdateErrors
  /\ errors' = errors + 1
  /\ torn' = (torn \/ req[r].stage = "mirroring")
  /\ lock' = lock \ {r}
  /\ Failed(r)
  /\ UNCHANGED <<file, mirror, memoryVars, wanted, exchanged, saved, tokens, served, authCrashes>>

-----------------------------------------------------------------------------
(* The end of a callback. *)

\* A session that is gone makes set_completed raise; the token is saved by then.
CompleteSession(r) ==
  /\ req[r].stage = "completing"
  /\ session' = WithStatus(req[r].flow, "completed")
  /\ req' = [req EXCEPT ![r] = Over]
  /\ UNCHANGED <<file, mirror, lock, flow, wanted, torn, historyVars>>

\* set_failed looks whether the session is completed, and then writes.
CheckFailed(r) ==
  /\ req[r].stage = "failing"
  /\ IF session[req[r].flow] \in {"absent", "completed"} THEN req' = [req EXCEPT ![r] = Over]
     ELSE GoTo(r, "writing failure")
  /\ UNCHANGED <<file, mirror, lock, memoryVars, wanted, torn, historyVars>>

FailSession(r) ==
  /\ req[r].stage = "writing failure"
  /\ session' = WithStatus(req[r].flow, "failed")
  /\ req' = [req EXCEPT ![r] = Over]
  /\ UNCHANGED <<file, mirror, lock, flow, wanted, torn, historyVars>>

\* Flows, sessions and requests are lost; an open transaction is rolled back.
CrashAuth ==
  /\ authCrashes < MaxAuthCrashes
  /\ authCrashes' = authCrashes + 1
  /\ torn' = (torn \/ \E r \in Requests : req[r].stage = "mirroring")
  /\ lock' = {}
  /\ flow' = [f \in Flows |-> IF flow[f] = "open" THEN "gone" ELSE flow[f]]
  /\ session' = [f \in Flows |-> "absent"]
  /\ req' = [r \in Requests |-> Over]
  /\ UNCHANGED <<file, mirror, wanted, exchanged, saved, tokens, served, errors>>

Update(r) == BeginUpdate(r) \/ LoadSettings(r) \/ SaveFile(r) \/ CommitMirror(r)

AuthNext ==
  \/ \E f \in Flows : ExpireLogin(f) \/ \E browser \in BOOLEAN : StartLogin(f, browser)
  \/ \E r \in Requests :
       \/ SubmitForm(r) \/ RefreshToken(r)
       \/ \E f \in Flows : CompleteLogin(r, f) \/ BrowserCallback(r, f) \/ BrowserError(r, f)
       \/ ReceiveCallback(r) \/ PopFlow(r) \/ IssueToken(r) \/ RefuseToken(r)
       \/ Update(r) \/ UpdateError(r)
       \/ CompleteSession(r) \/ CheckFailed(r) \/ FailSession(r)
  \/ CrashAuth

AuthSpec == AuthInit /\ [][AuthNext]_authVars

-----------------------------------------------------------------------------
(* Properties. *)

AuthTypeOK ==
  /\ file \in Settings /\ mirror \in Settings /\ wanted \in Settings
  /\ lock \subseteq Requests
  /\ flow \in [Flows -> {"unused", "open", "gone"}]
  /\ session \in [Flows -> {"absent", "pending", "callback_received", "completed", "failed"}]
  /\ req \in [Requests -> Request]
  /\ torn \in BOOLEAN
  /\ exchanged \in [Flows -> 0..MaxTokens] /\ saved \subseteq Flows
  /\ tokens \in 0..MaxTokens /\ served \in 0..MaxRequests
  /\ errors \in 0..MaxUpdateErrors /\ authCrashes \in 0..MaxAuthCrashes

\* No update is lost: each field of settings.json has the value of the last
\* request that gave it one, although every request writes all fields from a
\* copy; and outside of an update the mirror in the database agrees with the
\* file, except from an error or a crash between the two writes to the next
\* update, which repairs all fields and not only those it sets
\* (AppSettingsService.update).
NoUpdateIsLost == /\ file = wanted
                  /\ lock = {} /\ ~torn => mirror = file

\* However often, late and in whatever order the callbacks, errors and polls of a
\* login arrive, it is exchanged for one token at most (PixivOAuthFlowStore.pop),
\* and its browser session says completed only when that token is saved
\* (receive_pixiv_browser_auth_callback).
LoginsAreHonest ==
  \A f \in Flows : exchanged[f] <= 1 /\ (session[f] = "completed" => f \in saved)
=============================================================================
