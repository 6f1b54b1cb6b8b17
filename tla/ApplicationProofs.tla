------------------------- MODULE ApplicationProofs -------------------------
(***************************************************************************)
(* Theorems about SettingsAuth, for any number of requests, logins and     *)
(* tokens, and about Startup, for any number of processes, scripts and     *)
(* starts; and about the services of the application side by side, to      *)
(* which the theorems of LibraryProofs and DownloadsProofs apply as well.  *)
(***************************************************************************)
EXTENDS MCServices, LibraryProofs, DownloadsProofs, TLAPS

-----------------------------------------------------------------------------
(* SettingsAuth *)

InUpdate == {"loading", "saving", "mirroring"}

\* What the stage of a request says: who is in the transaction, what its copy of
\* the settings is, which flow it has spent and what it has saved.
RequestOK(r) ==
  /\ req[r].stage \in InUpdate <=> r \in lock
  /\ req[r].stage = "saving" => req[r].copy = Merge(file, req[r].sets)
  /\ req[r].stage = "mirroring" => req[r].copy = file /\ req[r].flow \in saved \cup {NoFlow}
  /\ req[r].stage = "completing" => req[r].flow \in saved
  /\ req[r].stage = "posting" /\ req[r].flow # NoFlow
       => flow[req[r].flow] = "gone" /\ exchanged[req[r].flow] = 0
  /\ req[r].kind = "callback" \/ req[r].stage \in {"receiving", "popping", "failing", "writing failure"}
       => req[r].flow \in Flows

RequestsOK == \A r \in Requests : RequestOK(r)

OneWriter == \A r, s \in lock : r = s

\* A flow that is spent is asked for by one request.
OneExchange ==
  \A r, s \in Requests :
    req[r].stage = "posting" /\ req[s].stage = "posting"
    /\ req[r].flow = req[s].flow /\ req[r].flow # NoFlow => r = s

FlowsOK == \A f \in Flows : /\ exchanged[f] <= 1
                            /\ flow[f] # "gone" => exchanged[f] = 0
                            /\ session[f] = "completed" => f \in saved

MirrorOK == ~torn /\ (\A r \in Requests : req[r].stage # "mirroring") => mirror = file

AuthInv == /\ AuthTypeOK /\ RequestsOK /\ OneWriter /\ OneExchange /\ FlowsOK /\ MirrorOK
           /\ file = wanted

\* A request that is over is a request.
LEMMA OverIsRequest ==
  /\ Over \in Request /\ NoRequestYet \in Request /\ DefaultSettings \in Settings
  /\ Over.stage = "idle" /\ Over.kind = "form" /\ Over.flow = NoFlow
PROOF
  <1>1. 0 \in 0..MaxTokens
    BY SettingsAuthAssumption
  <1>2. DefaultSettings \in Settings /\ NoSets \in Sets
    BY <1>1 DEF DefaultSettings, Settings, NoSets, Sets, Options
  <1> QED BY <1>2 DEF Over, NoRequestYet, Request, RequestKinds, Stages

\* Merging keeps settings settings.
LEMMA MergeType ==
  ASSUME NEW s \in Settings, NEW u \in Sets
  PROVE  Merge(s, u) \in Settings
PROOF
  BY DEF Merge, Settings, Sets, Options

\* A bounded counter stays within its bound.
LEMMA Counting ==
  ASSUME NEW max \in Nat, NEW n \in 0..max, n < max
  PROVE  n + 1 \in 0..max
PROOF OBVIOUS

\* No request has arrived.
LEMMA InitInv == AuthInit => AuthInv
PROOF
  <1> SUFFICES ASSUME AuthInit PROVE AuthInv
    OBVIOUS
  <1>1. AuthTypeOK
    <2>1. /\ 0 \in 0..MaxTokens /\ 0 \in 0..MaxRequests
          /\ 0 \in 0..MaxUpdateErrors /\ 0 \in 0..MaxAuthCrashes
      BY SettingsAuthAssumption
    <2> QED BY <2>1, OverIsRequest DEF AuthInit, AuthTypeOK
  <1>2. \A r \in Requests : req[r].stage = "idle" /\ req[r].kind = "form"
    BY OverIsRequest DEF AuthInit, Over
  <1>3. RequestsOK
    BY <1>2 DEF AuthInit, RequestsOK, RequestOK, InUpdate
  <1>4. OneWriter /\ OneExchange /\ FlowsOK /\ MirrorOK /\ file = wanted
    BY <1>2 DEF AuthInit, OneWriter, OneExchange, FlowsOK, MirrorOK
  <1> QED BY <1>1, <1>3, <1>4 DEF AuthInv

\* A request moves outside of an update, or leaves one that failed: no settings
\* are written, and a flow is neither spent nor exchanged.
LEMMA MoveInv ==
  ASSUME AuthInv, NEW r \in Requests, NEW to \in Request,
         req' = [req EXCEPT ![r] = to],
         to.stage \notin InUpdate \cup {"completing"},
         to.stage = "posting" => to.flow = NoFlow,
         to.kind = "callback" \/ to.stage \in {"receiving", "popping", "failing", "writing failure"}
           => to.flow \in Flows,
         lock' = lock \ {r},
         torn' = (torn \/ req[r].stage = "mirroring"),
         UNCHANGED <<file, mirror, flow, wanted, exchanged, saved, tokens, authCrashes>>,
         session' \in [Flows -> {"absent", "pending", "callback_received", "completed", "failed"}],
         \A f \in Flows : session'[f] = "completed" => f \in saved,
         served' \in 0..MaxRequests, errors' \in 0..MaxUpdateErrors
  PROVE  AuthInv'
PROOF
  <1>1. /\ req \in [Requests -> Request] /\ lock \subseteq Requests
        /\ req'[r] = to
        /\ \A s \in Requests : s # r => req'[s] = req[s]
    BY DEF AuthInv, AuthTypeOK
  <1>2. AuthTypeOK'
    BY <1>1 DEF AuthInv, AuthTypeOK
  <1>3. RequestsOK'
    <2> SUFFICES ASSUME NEW s \in Requests PROVE RequestOK(s)'
      BY DEF RequestsOK
    <2>1. CASE s = r
      BY <1>1, <2>1 DEF RequestOK, InUpdate
    <2>2. CASE s # r
      <3>1. RequestOK(s) /\ req'[s] = req[s] /\ (s \in lock' <=> s \in lock)
        BY <1>1, <2>2 DEF AuthInv, RequestsOK
      <3>2. /\ file' = file /\ flow' = flow /\ exchanged' = exchanged /\ saved' = saved
        OBVIOUS
      <3> QED BY <3>1, <3>2 DEF RequestOK, InUpdate, Merge
    <2> QED BY <2>1, <2>2
  <1>4. OneWriter'
    BY DEF AuthInv, OneWriter
  <1>5. OneExchange'
    BY <1>1 DEF AuthInv, OneExchange
  <1>6. FlowsOK'
    BY DEF AuthInv, FlowsOK
  <1>7. MirrorOK'
    BY <1>1 DEF AuthInv, MirrorOK
  <1>8. (file = wanted)'
    BY DEF AuthInv
  <1> QED BY <1>2, <1>3, <1>4, <1>5, <1>6, <1>7, <1>8 DEF AuthInv

-----------------------------------------------------------------------------
(* The actions. *)

\* A login is started, or its flow and its session are forgotten.
LEMMA LoginInv ==
  ASSUME AuthInv, NEW f \in Flows,
         (\E browser \in BOOLEAN : StartLogin(f, browser)) \/ ExpireLogin(f)
  PROVE  AuthInv'
PROOF
  <1>1. /\ UNCHANGED <<file, mirror, lock, req, wanted, torn, historyVars>>
        /\ flow' \in [Flows -> {"unused", "open", "gone"}]
        /\ \A g \in Flows : /\ flow[g] = "gone" => flow'[g] = "gone"
                            /\ flow'[g] # "gone" => flow[g] # "gone"
        /\ session' \in [Flows -> {"absent", "pending", "callback_received", "completed", "failed"}]
        /\ \A g \in Flows : session'[g] = "completed" => session[g] = "completed"
    BY DEF StartLogin, ExpireLogin, AuthInv, AuthTypeOK
  <1>2. AuthTypeOK'
    BY <1>1 DEF AuthInv, AuthTypeOK, historyVars
  <1>3. RequestsOK'
    <2> SUFFICES ASSUME NEW s \in Requests PROVE RequestOK(s)'
      BY DEF RequestsOK
    <2>1. RequestOK(s) /\ req[s] \in Request
      BY DEF AuthInv, RequestsOK, AuthTypeOK
    <2>2. req[s].flow # NoFlow => req[s].flow \in Flows
      BY <2>1 DEF Request
    <2> QED BY <1>1, <2>1, <2>2 DEF RequestOK, InUpdate, Merge, historyVars
  <1>4. OneWriter' /\ OneExchange' /\ FlowsOK' /\ MirrorOK' /\ (file = wanted)'
    BY <1>1 DEF AuthInv, OneWriter, OneExchange, FlowsOK, MirrorOK, historyVars
  <1> QED BY <1>2, <1>3, <1>4 DEF AuthInv

\* What a new request is.
LEMMA Arrival ==
  ASSUME AuthInv, NEW r \in Requests, NEW kind \in RequestKinds, NEW stage \in Stages,
         NEW f \in Flows \cup {NoFlow}, NEW sets \in Sets,
         stage \notin InUpdate \cup {"completing"},
         stage = "posting" => f = NoFlow,
         kind = "callback" \/ stage \in {"receiving", "popping", "failing"} => f \in Flows,
         stage # "writing failure",
         Arrive(r, kind, stage, f, sets), ArriveUnchanged
  PROVE  AuthInv'
PROOF
  <1>0. served' \in 0..MaxRequests
    <2>1. served \in 0..MaxRequests
      BY DEF AuthInv, AuthTypeOK
    <2>2. served < MaxRequests /\ served' = served + 1
      BY DEF Arrive
    <2>3. MaxRequests \in Nat
      BY SettingsAuthAssumption
    <2> QED BY <2>1, <2>2, <2>3, Counting
  <1> DEFINE to == [NoRequestYet EXCEPT !.kind = kind, !.stage = stage, !.flow = f,
                                        !.sets = sets]
  <1>1. /\ to \in Request /\ to.kind = kind /\ to.stage = stage /\ to.flow = f
    BY OverIsRequest DEF NoRequestYet, Request
  <1>2. req' = [req EXCEPT ![r] = to]
    BY DEF Arrive
  <1>3. req[r].stage = "idle"
    BY DEF Arrive
  <1>4. lock' = lock \ {r}
    BY <1>3 DEF AuthInv, RequestsOK, RequestOK, InUpdate, ArriveUnchanged
  <1>6. /\ torn' = (torn \/ req[r].stage = "mirroring")
        /\ UNCHANGED <<file, mirror, flow, wanted, exchanged, saved, tokens, authCrashes>>
        /\ UNCHANGED <<session, errors>>
    <2>1. torn \in BOOLEAN /\ torn' = torn /\ req[r].stage # "mirroring"
      BY <1>3 DEF ArriveUnchanged, AuthInv, AuthTypeOK
    <2> QED BY <2>1 DEF ArriveUnchanged, memoryVars
  <1>7. /\ session' \in [Flows -> {"absent", "pending", "callback_received", "completed", "failed"}]
        /\ \A g \in Flows : session'[g] = "completed" => g \in saved
        /\ errors' \in 0..MaxUpdateErrors
    BY <1>6 DEF AuthInv, AuthTypeOK, FlowsOK
  <1> QED BY <1>0, <1>1, <1>2, <1>4, <1>6, <1>7, MoveInv

LEMMA ArrivalInv ==
  ASSUME AuthInv, NEW r \in Requests,
         \/ SubmitForm(r) \/ RefreshToken(r)
         \/ \E f \in Flows : CompleteLogin(r, f) \/ BrowserCallback(r, f) \/ BrowserError(r, f)
  PROVE  AuthInv'
PROOF
  <1>1. NoSets \in Sets /\ \A o \in {0} \cup Options : [token |-> 0, option |-> o] \in Sets
    BY SettingsAuthAssumption DEF NoSets, Sets, Options
  <1>2. ASSUME NEW f \in Flows, CompleteLogin(r, f) PROVE AuthInv'
    BY <1>1, <1>2, Arrival DEF CompleteLogin, RequestKinds, Stages, InUpdate
  <1>3. ASSUME NEW f \in Flows, BrowserError(r, f) PROVE AuthInv'
    BY <1>1, <1>3, Arrival DEF BrowserError, RequestKinds, Stages, InUpdate
  <1>4. ASSUME NEW f \in Flows, BrowserCallback(r, f) PROVE AuthInv'
    BY <1>1, <1>4, Arrival DEF BrowserCallback, RequestKinds, Stages, InUpdate
  <1>5. CASE RefreshToken(r)
    BY <1>1, <1>5, Arrival DEF RefreshToken, RequestKinds, Stages, InUpdate
  <1>6. CASE SubmitForm(r)
    <2>1. PICK o \in {0} \cup Options :
            Arrive(r, "form", "locking", NoFlow, [token |-> 0, option |-> o])
      BY <1>6 DEF SubmitForm
    <2>2. [token |-> 0, option |-> o] \in Sets /\ ArriveUnchanged
      BY <1>1, <1>6 DEF SubmitForm
    <2> QED BY <2>1, <2>2, Arrival DEF RequestKinds, Stages, InUpdate
  <1> QED BY <1>2, <1>3, <1>4, <1>5, <1>6

\* The sessions of a browser change, but no session is completed.
LEMMA SessionStatus ==
  ASSUME AuthInv, NEW f \in Flows, NEW to \in {"callback_received", "failed", "completed"},
         to = "completed" => f \in saved
  PROVE  /\ WithStatus(f, to)
              \in [Flows -> {"absent", "pending", "callback_received", "completed", "failed"}]
         /\ \A g \in Flows : WithStatus(f, to)[g] = "completed" => g \in saved
PROOF
  BY DEF WithStatus, AuthInv, AuthTypeOK, FlowsOK

\* What an exception makes of a request.
LEMMA FailedType ==
  ASSUME AuthInv, NEW r \in Requests
  PROVE  \E to \in Request :
           /\ Failed(r) <=> req' = [req EXCEPT ![r] = to]
           /\ to.stage \notin InUpdate \cup {"completing", "posting"}
           /\ to.kind = "callback" \/ to.stage \in {"receiving", "popping", "failing", "writing failure"}
                => to.flow \in Flows
PROOF
  <1>1. req[r] \in Request /\ (req[r].kind = "callback" => req[r].flow \in Flows)
    BY DEF AuthInv, AuthTypeOK, RequestsOK, RequestOK
  <1>2. CASE req[r].kind = "callback"
    <2> DEFINE to == [req[r] EXCEPT !.stage = "failing"]
    <2>1. /\ to \in Request /\ to.stage = "failing" /\ to.flow = req[r].flow
      BY <1>1 DEF Request, Stages
    <2>2. AfterError(r) = "failing"
      BY <1>2 DEF AfterError
    <2>3. Failed(r) <=> req' = [req EXCEPT ![r] = to]
      BY <2>2 DEF Failed
    <2> QED BY <1>1, <1>2, <2>1, <2>3 DEF InUpdate
  <1>3. CASE req[r].kind # "callback"
    <2>1. AfterError(r) = "idle"
      BY <1>3 DEF AfterError
    <2>2. Failed(r) <=> req' = [req EXCEPT ![r] = Over]
      BY <2>1 DEF Failed
    <2> QED BY <2>2, OverIsRequest DEF InUpdate
  <1> QED BY <1>2, <1>3

\* Steps at the end of a callback, a refusal by Pixiv and errors.
LEMMA QuietInv ==
  ASSUME AuthInv, NEW r \in Requests,
         \/ ReceiveCallback(r) \/ CompleteSession(r) \/ CheckFailed(r) \/ FailSession(r)
         \/ RefuseToken(r) \/ UpdateError(r)
  PROVE  AuthInv'
PROOF
  <1>1. /\ req \in [Requests -> Request] /\ req[r] \in Request /\ torn \in BOOLEAN
        /\ served \in 0..MaxRequests /\ errors \in 0..MaxUpdateErrors
        /\ lock \subseteq Requests
        /\ session \in [Flows -> {"absent", "pending", "callback_received", "completed", "failed"}]
        /\ \A f \in Flows : session[f] = "completed" => f \in saved
    BY DEF AuthInv, AuthTypeOK, FlowsOK
  <1>2. RequestOK(r)
    BY DEF AuthInv, RequestsOK
  <1>3. ASSUME req[r].stage \notin InUpdate
        PROVE  lock = lock \ {r} /\ torn = (torn \/ req[r].stage = "mirroring")
    BY <1>1, <1>2, <1>3 DEF RequestOK, InUpdate
  <1>4. CASE ReceiveCallback(r)
    <2> DEFINE to == [req[r] EXCEPT !.stage = "popping"]
    <2>1. /\ to \in Request /\ to.stage = "popping" /\ to.flow = req[r].flow
          /\ req' = [req EXCEPT ![r] = to]
      BY <1>1, <1>4 DEF ReceiveCallback, GoTo, Request, Stages
    <2>2. req[r].flow \in Flows /\ req[r].stage \notin InUpdate
      BY <1>2, <1>4 DEF ReceiveCallback, RequestOK, InUpdate
    <2>3. /\ session' = WithStatus(req[r].flow, "callback_received")
          /\ UNCHANGED <<file, mirror, lock, flow, wanted, torn, exchanged, saved, tokens,
                         served, errors, authCrashes>>
      BY <1>4 DEF ReceiveCallback, historyVars
    <2> QED BY <1>1, <1>3, <2>1, <2>2, <2>3, SessionStatus, MoveInv DEF InUpdate
  <1>5. CASE CompleteSession(r)
    <2>1. /\ req[r].flow \in saved /\ req[r].stage \notin InUpdate /\ saved \subseteq Flows
      BY <1>2, <1>5 DEF CompleteSession, RequestOK, InUpdate, AuthInv, AuthTypeOK
    <2>2. /\ session' = WithStatus(req[r].flow, "completed")
          /\ req' = [req EXCEPT ![r] = Over]
          /\ UNCHANGED <<file, mirror, lock, flow, wanted, torn, exchanged, saved, tokens,
                         served, errors, authCrashes>>
      BY <1>5 DEF CompleteSession, historyVars
    <2>3. req[r].flow \in Flows
      BY <2>1
    <2> QED BY <1>1, <1>3, <2>1, <2>2, <2>3, SessionStatus, MoveInv, OverIsRequest DEF InUpdate
  <1>6. CASE CheckFailed(r)
    <2>1. /\ req[r].flow \in Flows /\ req[r].stage \notin InUpdate
      BY <1>2, <1>6 DEF CheckFailed, RequestOK, InUpdate
    <2> DEFINE to == [req[r] EXCEPT !.stage = "writing failure"]
    <2>2. /\ to \in Request /\ to.stage = "writing failure" /\ to.flow = req[r].flow
      BY <1>1 DEF Request, Stages
    <2>3. req' = [req EXCEPT ![r] = Over] \/ req' = [req EXCEPT ![r] = to]
      BY <1>6 DEF CheckFailed, GoTo
    <2>4. UNCHANGED <<file, mirror, lock, flow, session, wanted, torn, exchanged, saved, tokens,
                      served, errors, authCrashes>>
      BY <1>6 DEF CheckFailed, memoryVars, historyVars
    <2>5. CASE req' = [req EXCEPT ![r] = Over]
      BY <1>1, <1>3, <2>1, <2>4, <2>5, MoveInv, OverIsRequest DEF InUpdate
    <2>6. CASE req' = [req EXCEPT ![r] = to]
      BY <1>1, <1>3, <2>1, <2>2, <2>4, <2>6, MoveInv DEF InUpdate
    <2> QED BY <2>3, <2>5, <2>6
  <1>7. CASE FailSession(r)
    <2>1. /\ req[r].flow \in Flows /\ req[r].stage \notin InUpdate
      BY <1>2, <1>7 DEF FailSession, RequestOK, InUpdate
    <2>2. /\ session' = WithStatus(req[r].flow, "failed")
          /\ req' = [req EXCEPT ![r] = Over]
          /\ UNCHANGED <<file, mirror, lock, flow, wanted, torn, exchanged, saved, tokens,
                         served, errors, authCrashes>>
      BY <1>7 DEF FailSession, historyVars
    <2> QED BY <1>1, <1>3, <2>1, <2>2, SessionStatus, MoveInv, OverIsRequest DEF InUpdate
  <1>8. CASE RefuseToken(r)
    <2>1. PICK to \in Request :
            /\ req' = [req EXCEPT ![r] = to]
            /\ to.stage \notin InUpdate \cup {"completing", "posting"}
            /\ to.kind = "callback" \/ to.stage \in {"receiving", "popping", "failing", "writing failure"}
                 => to.flow \in Flows
      BY <1>8, FailedType DEF RefuseToken
    <2>2. /\ req[r].stage \notin InUpdate
          /\ UNCHANGED <<file, mirror, lock, flow, session, wanted, torn, exchanged, saved,
                         tokens, served, errors, authCrashes>>
      BY <1>8 DEF RefuseToken, InUpdate, memoryVars, historyVars
    <2> QED BY <1>1, <1>3, <2>1, <2>2, MoveInv
  <1>9. CASE UpdateError(r)
    <2>1. PICK to \in Request :
            /\ req' = [req EXCEPT ![r] = to]
            /\ to.stage \notin InUpdate \cup {"completing", "posting"}
            /\ to.kind = "callback" \/ to.stage \in {"receiving", "popping", "failing", "writing failure"}
                 => to.flow \in Flows
      BY <1>9, FailedType DEF UpdateError
    <2>2. /\ lock' = lock \ {r} /\ torn' = (torn \/ req[r].stage = "mirroring")
          /\ errors < MaxUpdateErrors /\ errors' = errors + 1
          /\ UNCHANGED <<file, mirror, flow, session, wanted, exchanged, saved,
                         tokens, served, authCrashes>>
      BY <1>9 DEF UpdateError, memoryVars
    <2>3. errors' \in 0..MaxUpdateErrors
      BY <1>1, <2>2, SettingsAuthAssumption
    <2> QED BY <1>1, <2>1, <2>2, <2>3, MoveInv
  <1> QED BY <1>4, <1>5, <1>6, <1>7, <1>8, <1>9

\* A flow is spent by the request that finds it, and has issued no token.
LEMMA PopInv ==
  ASSUME AuthInv, NEW r \in Requests, PopFlow(r)
  PROVE  AuthInv'
PROOF
  <1> DEFINE f == req[r].flow
  <1>1. /\ req \in [Requests -> Request] /\ req[r] \in Request /\ torn \in BOOLEAN
        /\ req[r].stage = "popping" /\ f \in Flows
        /\ UNCHANGED <<file, mirror, lock, session, wanted, torn, exchanged, saved, tokens,
                       served, errors, authCrashes>>
    BY DEF PopFlow, AuthInv, AuthTypeOK, RequestsOK, RequestOK, historyVars
  <1>2. CASE flow[f] = "open"
    <2> DEFINE to == [req[r] EXCEPT !.stage = "posting"]
    <2>1. /\ to \in Request /\ to.stage = "posting" /\ to.flow = f /\ to.kind = req[r].kind
          /\ req' = [req EXCEPT ![r] = to]
      BY <1>1, <1>2 DEF PopFlow, GoTo, Request, Stages
    <2>2. /\ req' \in [Requests -> Request] /\ req'[r] = to
          /\ \A s \in Requests : s # r => req'[s] = req[s]
      BY <1>1, <2>1
    <2>3. /\ flow' \in [Flows -> {"unused", "open", "gone"}] /\ flow'[f] = "gone"
          /\ \A g \in Flows : g # f => flow'[g] = flow[g]
          /\ exchanged[f] = 0
      BY <1>1, <1>2 DEF PopFlow, Popped, AuthInv, AuthTypeOK, FlowsOK
    <2>4. AuthTypeOK'
      BY <1>1, <2>2, <2>3 DEF AuthInv, AuthTypeOK
    <2>5. RequestsOK'
      <3> SUFFICES ASSUME NEW s \in Requests PROVE RequestOK(s)'
        BY DEF RequestsOK
      <3>1. RequestOK(s) /\ RequestOK(r) /\ req[s] \in Request
        BY <1>1 DEF AuthInv, RequestsOK
      <3>2. req[s].flow # NoFlow => req[s].flow \in Flows
        BY <3>1 DEF Request
      <3>3. CASE s = r
        BY <1>1, <2>1, <2>2, <2>3, <3>1, <3>3 DEF RequestOK, InUpdate, Merge
      <3>4. CASE s # r
        BY <1>1, <2>2, <2>3, <3>1, <3>2, <3>4 DEF RequestOK, InUpdate, Merge
      <3> QED BY <3>3, <3>4
    <2>6. OneExchange'
      <3> SUFFICES ASSUME NEW s \in Requests, s # r, req[s].stage = "posting"
                   PROVE  req[s].flow # f
        BY <2>1, <2>2 DEF OneExchange, AuthInv
      <3> QED BY <1>1, <1>2, SettingsAuthAssumption DEF AuthInv, RequestsOK, RequestOK
    <2>7. FlowsOK'
      BY <1>1, <2>3 DEF AuthInv, FlowsOK
    <2>8. OneWriter' /\ MirrorOK' /\ (file = wanted)'
      BY <1>1, <2>1, <2>2 DEF AuthInv, OneWriter, MirrorOK
    <2> QED BY <2>4, <2>5, <2>6, <2>7, <2>8 DEF AuthInv
  <1>3. CASE flow[f] # "open"
    <2>1. flow' = flow /\ Failed(r)
      BY <1>3 DEF PopFlow
    <2>2. PICK to \in Request :
            /\ req' = [req EXCEPT ![r] = to]
            /\ to.stage \notin InUpdate \cup {"completing", "posting"}
            /\ to.kind = "callback" \/ to.stage \in {"receiving", "popping", "failing", "writing failure"}
                 => to.flow \in Flows
      BY <2>1, FailedType
    <2>3. lock = lock \ {r} /\ torn = (torn \/ req[r].stage = "mirroring")
      BY <1>1 DEF AuthInv, RequestsOK, RequestOK, InUpdate
    <2>4. /\ served \in 0..MaxRequests /\ errors \in 0..MaxUpdateErrors
          /\ session \in [Flows -> {"absent", "pending", "callback_received", "completed", "failed"}]
          /\ \A g \in Flows : session[g] = "completed" => g \in saved
      BY DEF AuthInv, AuthTypeOK, FlowsOK
    <2> QED BY <1>1, <2>1, <2>2, <2>3, <2>4, MoveInv
  <1> QED BY <1>2, <1>3

\* Pixiv exchanges the code of a flow for one token.
LEMMA IssueInv ==
  ASSUME AuthInv, NEW r \in Requests, IssueToken(r)
  PROVE  AuthInv'
PROOF
  <1> DEFINE f == req[r].flow
  <1> DEFINE to == [req[r] EXCEPT !.stage = "locking", !.sets.token = tokens + 1]
  <1>1. /\ req \in [Requests -> Request] /\ req[r] \in Request
        /\ req[r].stage = "posting" /\ f \in Flows \cup {NoFlow}
        /\ req[r].sets \in Sets /\ tokens \in 0..MaxTokens
        /\ UNCHANGED <<file, mirror, lock, flow, session, wanted, torn, saved, served, errors,
                       authCrashes>>
    BY DEF IssueToken, AuthInv, AuthTypeOK, memoryVars, Request
  <1>2. tokens + 1 \in 0..MaxTokens /\ tokens' = tokens + 1
    BY <1>1, SettingsAuthAssumption, Counting DEF IssueToken
  <1>3. /\ to \in Request /\ to.stage = "locking" /\ to.flow = f /\ to.kind = req[r].kind
        /\ req' = [req EXCEPT ![r] = to]
    <2>1. [req[r].sets EXCEPT !.token = tokens + 1] \in Sets
      BY <1>1, <1>2 DEF Sets
    <2>2. to = [req[r] EXCEPT !.stage = "locking", !.sets = [req[r].sets EXCEPT !.token = tokens + 1]]
      BY <1>1 DEF Request
    <2>3. req' = [req EXCEPT ![r] = to]
      BY <1>1 DEF IssueToken
    <2> QED BY <1>1, <2>1, <2>2, <2>3 DEF Request, Stages
  <1>4. /\ req' \in [Requests -> Request] /\ req'[r] = to
        /\ \A s \in Requests : s # r => req'[s] = req[s]
    BY <1>1, <1>3
  <1>5. \A g \in Flows : exchanged'[g] = exchanged[g] + (IF g = f THEN 1 ELSE 0)
    BY DEF IssueToken
  <1>6. f \in Flows => exchanged[f] = 0 /\ flow[f] = "gone"
    BY <1>1, SettingsAuthAssumption DEF AuthInv, RequestsOK, RequestOK
  <1>7. \A g \in Flows : /\ exchanged[g] \in 0..MaxTokens /\ exchanged'[g] \in 0..MaxTokens
                         /\ exchanged'[g] <= 1
                         /\ g # f => exchanged'[g] = exchanged[g]
    BY <1>2, <1>5, <1>6, SettingsAuthAssumption DEF AuthInv, AuthTypeOK, FlowsOK
  <1>8. AuthTypeOK'
    <2>1. exchanged' \in [Flows -> 0..MaxTokens]
      BY <1>7 DEF IssueToken
    <2> QED BY <1>1, <1>2, <1>4, <2>1 DEF AuthInv, AuthTypeOK
  <1>9. RequestsOK'
    <2> SUFFICES ASSUME NEW s \in Requests PROVE RequestOK(s)'
      BY DEF RequestsOK
    <2>1. RequestOK(s) /\ RequestOK(r) /\ req[s] \in Request
      BY <1>1 DEF AuthInv, RequestsOK
    <2>2. req[s].flow # NoFlow => req[s].flow \in Flows
      BY <2>1 DEF Request
    <2>3. CASE s = r
      BY <1>1, <1>3, <1>4, <2>1, <2>3 DEF RequestOK, InUpdate, Merge
    <2>4. CASE s # r
      <3>1. req[s].stage = "posting" /\ req[s].flow # NoFlow => req[s].flow # f
        BY <1>1, <2>4 DEF AuthInv, OneExchange
      <3> QED BY <1>1, <1>4, <1>7, <2>1, <2>2, <2>4, <3>1 DEF RequestOK, InUpdate, Merge
    <2> QED BY <2>3, <2>4
  <1>10. FlowsOK'
    BY <1>1, <1>6, <1>7 DEF AuthInv, FlowsOK
  <1>11. OneWriter' /\ OneExchange' /\ MirrorOK' /\ (file = wanted)'
    BY <1>1, <1>3, <1>4 DEF AuthInv, OneWriter, OneExchange, MirrorOK
  <1> QED BY <1>8, <1>9, <1>10, <1>11 DEF AuthInv

\* The transaction waits for the one that is open.
LEMMA BeginInv ==
  ASSUME AuthInv, NEW r \in Requests, BeginUpdate(r)
  PROVE  AuthInv'
PROOF
  <1> DEFINE to == [req[r] EXCEPT !.stage = "loading"]
  <1>1. /\ req \in [Requests -> Request] /\ req[r] \in Request
        /\ req[r].stage = "locking" /\ lock = {} /\ lock' = {r}
        /\ UNCHANGED <<file, mirror, flow, session, wanted, torn, exchanged, saved, tokens,
                       served, errors, authCrashes>>
    BY DEF BeginUpdate, MayLock, AuthInv, AuthTypeOK, memoryVars, historyVars
  <1>2. /\ to \in Request /\ to.stage = "loading" /\ to.flow = req[r].flow
        /\ to.kind = req[r].kind /\ req' = [req EXCEPT ![r] = to]
    BY <1>1 DEF BeginUpdate, GoTo, Request, Stages
  <1>3. /\ req' \in [Requests -> Request] /\ req'[r] = to
        /\ \A s \in Requests : s # r => req'[s] = req[s]
    BY <1>1, <1>2
  <1>4. AuthTypeOK'
    BY <1>1, <1>3 DEF AuthInv, AuthTypeOK
  <1>5. RequestsOK'
    <2> SUFFICES ASSUME NEW s \in Requests PROVE RequestOK(s)'
      BY DEF RequestsOK
    <2>1. RequestOK(s)
      BY DEF AuthInv, RequestsOK
    <2>2. CASE s = r
      BY <1>1, <1>2, <1>3, <2>1, <2>2 DEF RequestOK, InUpdate, Merge
    <2>3. CASE s # r
      BY <1>1, <1>3, <2>1, <2>3 DEF RequestOK, InUpdate, Merge
    <2> QED BY <2>2, <2>3
  <1>6. OneWriter' /\ OneExchange' /\ FlowsOK' /\ MirrorOK' /\ (file = wanted)'
    BY <1>1, <1>2, <1>3 DEF AuthInv, OneWriter, OneExchange, FlowsOK, MirrorOK
  <1> QED BY <1>4, <1>5, <1>6 DEF AuthInv

\* The copy is the file with what the request sets.
LEMMA LoadInv ==
  ASSUME AuthInv, NEW r \in Requests, LoadSettings(r)
  PROVE  AuthInv'
PROOF
  <1> DEFINE to == [req[r] EXCEPT !.stage = "saving", !.copy = Merge(file, req[r].sets)]
  <1>1. /\ req \in [Requests -> Request] /\ req[r] \in Request /\ req[r].stage = "loading"
        /\ file \in Settings /\ req[r].sets \in Sets
        /\ UNCHANGED <<file, mirror, lock, flow, session, wanted, torn, exchanged, saved,
                       tokens, served, errors, authCrashes>>
    BY DEF LoadSettings, AuthInv, AuthTypeOK, memoryVars, historyVars, Request
  <1>2. Merge(file, req[r].sets) \in Settings
    BY <1>1, MergeType
  <1>3. /\ to \in Request /\ to.stage = "saving" /\ to.flow = req[r].flow
        /\ to.kind = req[r].kind /\ to.copy = Merge(file, req[r].sets)
        /\ to.sets = req[r].sets
        /\ req' = [req EXCEPT ![r] = to]
    BY <1>1, <1>2 DEF LoadSettings, Request, Stages
  <1>4. /\ req' \in [Requests -> Request] /\ req'[r] = to
        /\ \A s \in Requests : s # r => req'[s] = req[s]
    BY <1>1, <1>3
  <1>5. AuthTypeOK'
    BY <1>1, <1>4 DEF AuthInv, AuthTypeOK
  <1>6. RequestsOK'
    <2> SUFFICES ASSUME NEW s \in Requests PROVE RequestOK(s)'
      BY DEF RequestsOK
    <2>1. RequestOK(s)
      BY DEF AuthInv, RequestsOK
    <2>2. CASE s = r
      BY <1>1, <1>3, <1>4, <2>1, <2>2 DEF RequestOK, InUpdate, Merge
    <2>3. CASE s # r
      BY <1>1, <1>4, <2>1, <2>3 DEF RequestOK, InUpdate, Merge
    <2> QED BY <2>2, <2>3
  <1>7. OneWriter' /\ OneExchange' /\ FlowsOK' /\ MirrorOK' /\ (file = wanted)'
    BY <1>1, <1>3, <1>4 DEF AuthInv, OneWriter, OneExchange, FlowsOK, MirrorOK
  <1> QED BY <1>5, <1>6, <1>7 DEF AuthInv

\* The file is what the request has loaded and set: no other request has written
\* it in between.
LEMMA SaveInv ==
  ASSUME AuthInv, NEW r \in Requests, SaveFile(r)
  PROVE  AuthInv'
PROOF
  <1> DEFINE to == [req[r] EXCEPT !.stage = "mirroring"]
  <1>1. /\ req \in [Requests -> Request] /\ req[r] \in Request /\ req[r].stage = "saving"
        /\ file \in Settings /\ req[r].sets \in Sets /\ req[r].copy \in Settings
        /\ req[r].copy = Merge(file, req[r].sets) /\ file = wanted
        /\ file' = req[r].copy /\ wanted' = Merge(wanted, req[r].sets)
        /\ saved' = saved \cup ({req[r].flow} \ {NoFlow})
        /\ UNCHANGED <<mirror, lock, flow, session, torn, exchanged, tokens, served, errors,
                       authCrashes>>
    BY DEF SaveFile, AuthInv, AuthTypeOK, RequestsOK, RequestOK, memoryVars, Request
  <1>2. /\ to \in Request /\ to.stage = "mirroring" /\ to.flow = req[r].flow
        /\ to.kind = req[r].kind /\ to.copy = req[r].copy
        /\ req' = [req EXCEPT ![r] = to]
    BY <1>1 DEF SaveFile, GoTo, Request, Stages
  <1>3. /\ req' \in [Requests -> Request] /\ req'[r] = to
        /\ \A s \in Requests : s # r => req'[s] = req[s]
    BY <1>1, <1>2
  <1>4. saved \subseteq saved' /\ saved' \subseteq Flows
    BY <1>1 DEF AuthInv, AuthTypeOK, Request
  <1>5. file' = wanted' /\ file' \in Settings
    BY <1>1
  <1>6. AuthTypeOK'
    BY <1>1, <1>3, <1>4, <1>5 DEF AuthInv, AuthTypeOK
  <1>7. \A s \in Requests : s # r => req[s].stage \notin InUpdate
    BY <1>1 DEF AuthInv, RequestsOK, RequestOK, OneWriter, InUpdate
  <1>8. RequestsOK'
    <2> SUFFICES ASSUME NEW s \in Requests PROVE RequestOK(s)'
      BY DEF RequestsOK
    <2>1. RequestOK(s)
      BY DEF AuthInv, RequestsOK
    <2>2. CASE s = r
      <3>1. to.copy = file' /\ to.flow \in saved' \cup {NoFlow}
        BY <1>1, <1>2
      <3>2. r \in lock' /\ (to.kind = "callback" => to.flow \in Flows)
        BY <1>1, <1>2, <2>1, <2>2 DEF RequestOK, InUpdate
      <3> QED BY <1>2, <1>3, <2>2, <3>1, <3>2 DEF RequestOK, InUpdate
    <2>3. CASE s # r
      BY <1>1, <1>3, <1>4, <1>7, <2>1, <2>3 DEF RequestOK, InUpdate, Merge
    <2> QED BY <2>2, <2>3
  <1>9. OneWriter' /\ OneExchange' /\ FlowsOK' /\ MirrorOK'
    BY <1>1, <1>2, <1>3, <1>4 DEF AuthInv, OneWriter, OneExchange, FlowsOK, MirrorOK
  <1> QED BY <1>5, <1>6, <1>8, <1>9 DEF AuthInv

\* The commit ends the update, and a callback has saved its token by then.
LEMMA CommitInv ==
  ASSUME AuthInv, NEW r \in Requests, CommitMirror(r)
  PROVE  AuthInv'
PROOF
  <1> DEFINE to == IF req[r].kind = "callback" THEN [req[r] EXCEPT !.stage = "completing"]
                   ELSE Over
  <1>1. /\ req \in [Requests -> Request] /\ req[r] \in Request /\ req[r].stage = "mirroring"
        /\ req[r].copy \in Settings /\ req[r].copy = file
        /\ req[r].flow \in saved \cup {NoFlow}
        /\ req[r].kind = "callback" => req[r].flow \in Flows
        /\ mirror' = req[r].copy /\ torn' = FALSE /\ lock' = lock \ {r}
        /\ UNCHANGED <<file, flow, session, wanted, exchanged, saved, tokens, served, errors,
                       authCrashes>>
    BY DEF CommitMirror, Mirrored, AuthInv, AuthTypeOK, RequestsOK, RequestOK, memoryVars,
           historyVars, Request
  <1>2. to \in Request /\ req' = [req EXCEPT ![r] = to]
    <2>1. req' = [req EXCEPT ![r] = to]
      BY <1>1 DEF CommitMirror
    <2>2. [req[r] EXCEPT !.stage = "completing"] \in Request
      BY <1>1 DEF Request, Stages
    <2> QED BY <2>1, <2>2, OverIsRequest
  <1>3. /\ to.stage \in {"completing", "idle"}
        /\ to.stage = "completing" => to.flow = req[r].flow /\ req[r].kind = "callback"
        /\ to.kind = "callback" => to.flow \in Flows
    BY <1>1, OverIsRequest DEF Request
  <1> HIDE DEF to
  <1>4. /\ req' \in [Requests -> Request] /\ req'[r] = to
        /\ \A s \in Requests : s # r => req'[s] = req[s]
    BY <1>1, <1>2
  <1>5. AuthTypeOK'
    BY <1>1, <1>4 DEF AuthInv, AuthTypeOK
  <1>6. \A s \in Requests : s # r => req[s].stage \notin InUpdate
    BY <1>1 DEF AuthInv, RequestsOK, RequestOK, OneWriter, InUpdate
  <1>7. RequestsOK'
    <2> SUFFICES ASSUME NEW s \in Requests PROVE RequestOK(s)'
      BY DEF RequestsOK
    <2>1. RequestOK(s)
      BY DEF AuthInv, RequestsOK
    <2>2. CASE s = r
      <3>1. to.stage = "completing" => to.flow \in saved
        BY <1>1, <1>3, SettingsAuthAssumption
      <3> QED BY <1>1, <1>3, <1>4, <2>2, <3>1 DEF RequestOK, InUpdate
    <2>3. CASE s # r
      BY <1>1, <1>4, <1>6, <2>1, <2>3 DEF RequestOK, InUpdate, Merge
    <2> QED BY <2>2, <2>3
  <1>8. OneWriter' /\ FlowsOK' /\ MirrorOK' /\ (file = wanted)'
    BY <1>1 DEF AuthInv, OneWriter, FlowsOK, MirrorOK
  <1>9. OneExchange'
    BY <1>3, <1>4 DEF AuthInv, OneExchange
  <1> QED BY <1>5, <1>7, <1>8, <1>9 DEF AuthInv

\* A crash forgets requests, flows and sessions.
LEMMA CrashInv ==
  ASSUME AuthInv, CrashAuth
  PROVE  AuthInv'
PROOF
  <1>1. /\ req' = [r \in Requests |-> Over] /\ lock' = {}
        /\ session' = [f \in Flows |-> "absent"]
        /\ flow' \in [Flows -> {"unused", "open", "gone"}]
        /\ \A f \in Flows : flow'[f] # "gone" => flow[f] # "gone"
        /\ torn' = (torn \/ \E r \in Requests : req[r].stage = "mirroring")
        /\ UNCHANGED <<file, mirror, wanted, exchanged, saved, tokens, served, errors>>
    BY DEF CrashAuth, AuthInv, AuthTypeOK
  <1>2. authCrashes' \in 0..MaxAuthCrashes
    BY SettingsAuthAssumption, Counting DEF CrashAuth, AuthInv, AuthTypeOK
  <1>3. torn' \in BOOLEAN
    BY <1>1
  <1>4. AuthTypeOK'
    BY <1>1, <1>2, <1>3, OverIsRequest DEF AuthInv, AuthTypeOK
  <1>5. RequestsOK' /\ OneExchange'
    BY <1>1, OverIsRequest DEF RequestsOK, RequestOK, InUpdate, OneExchange
  <1>6. OneWriter' /\ FlowsOK' /\ (file = wanted)'
    BY <1>1 DEF AuthInv, OneWriter, FlowsOK
  <1>7. MirrorOK'
    BY <1>1 DEF AuthInv, MirrorOK
  <1> QED BY <1>4, <1>5, <1>6, <1>7 DEF AuthInv

\* Every step keeps the invariant.
LEMMA NextInv == AuthInv /\ [AuthNext]_authVars => AuthInv'
PROOF
  <1> SUFFICES ASSUME AuthInv, [AuthNext]_authVars PROVE AuthInv'
    OBVIOUS
  <1>1. CASE UNCHANGED authVars
    BY <1>1 DEF authVars, AuthInv, AuthTypeOK, RequestsOK, RequestOK, Merge, OneWriter,
                OneExchange, FlowsOK, MirrorOK
  <1>2. CASE \E f \in Flows : ExpireLogin(f) \/ \E browser \in BOOLEAN : StartLogin(f, browser)
    BY <1>2, LoginInv
  <1>3. ASSUME NEW r \in Requests, Update(r) PROVE AuthInv'
    BY <1>3, BeginInv, LoadInv, SaveInv, CommitInv DEF Update
  <1>4. ASSUME NEW r \in Requests,
               \/ SubmitForm(r) \/ RefreshToken(r)
               \/ \E f \in Flows : CompleteLogin(r, f) \/ BrowserCallback(r, f) \/ BrowserError(r, f)
        PROVE  AuthInv'
    BY <1>4, ArrivalInv
  <1>5. ASSUME NEW r \in Requests,
               \/ ReceiveCallback(r) \/ CompleteSession(r) \/ CheckFailed(r) \/ FailSession(r)
               \/ RefuseToken(r) \/ UpdateError(r)
        PROVE  AuthInv'
    BY <1>5, QuietInv
  <1>6. ASSUME NEW r \in Requests, PopFlow(r) \/ IssueToken(r) PROVE AuthInv'
    BY <1>6, PopInv, IssueInv
  <1>7. CASE CrashAuth
    BY <1>7, CrashInv
  <1> QED BY <1>1, <1>2, <1>3, <1>4, <1>5, <1>6, <1>7 DEF AuthNext

-----------------------------------------------------------------------------

\* Types, for any number of requests and logins (SettingsAuth).
THEOREM AuthTypes == AuthSpec => []AuthTypeOK
PROOF
  <1>1. AuthInv => AuthTypeOK
    BY DEF AuthInv
  <1> QED BY InitInv, NextInv, <1>1, PTL DEF AuthSpec

\* No update of the settings is lost, and the mirror agrees with the file but
\* after an error or a crash between the two writes (AppSettingsService.update).
THEOREM UpdatesAreKept == AuthSpec => []NoUpdateIsLost
PROOF
  <1>1. AuthInv => NoUpdateIsLost
    BY DEF AuthInv, NoUpdateIsLost, MirrorOK, RequestsOK, RequestOK, InUpdate
  <1> QED BY InitInv, NextInv, <1>1, PTL DEF AuthSpec

\* A login is exchanged once at most, and a completed session has its token
\* saved (PixivOAuthFlowStore, PixivBrowserAuthStore).
THEOREM LoginsStayHonest == AuthSpec => []LoginsAreHonest
PROOF
  <1>1. AuthInv => LoginsAreHonest
    BY DEF AuthInv, LoginsAreHonest, FlowsOK
  <1> QED BY InitInv, NextInv, <1>1, PTL DEF AuthSpec

-----------------------------------------------------------------------------
(* Startup *)

\* A process between BEGIN IMMEDIATE and its end is the only writer, its
\* transaction holds the changes of its script, and a script whose version it
\* has inserted is not recorded yet.
WriterOK ==
  \A p \in Processes :
    /\ process[p].phase \in {"executing", "recording", "committing"}
         => process[p].version \in Versions
    /\ process[p].phase \in {"recording", "committing"}
         => writer = {p} /\ process[p].dirty
    /\ process[p].phase = "committing" => process[p].version \notin recorded

StartupInv == StartupTypeOK /\ WriterOK /\ ScriptsRunOnce

\* A process that is down, and one that starts with n scripts.
LEMMA DownIsProcess ==
  /\ Down \in Process /\ Down.phase = "down"
  /\ \A n \in 0..Migrations :
       LET begun == [Down EXCEPT !.phase = "reading", !.scripts = n]
       IN begun \in Process /\ begun.phase = "reading"
PROOF
  <1>1. 0 \in 0..Migrations /\ {} \subseteq Versions
    BY StartupAssumption
  <1> QED BY <1>1 DEF Down, Process, Phases

\* Nothing has been started.
LEMMA StartupInitInv == StartupInit => StartupInv
PROOF
  BY StartupAssumption
  DEF StartupInit, StartupInv, StartupTypeOK, WriterOK, ScriptsRunOnce, Versions, Process,
      Phases, Down

\* Steps that touch neither the tables nor the lock: a process moves to a phase
\* outside of the transaction.
LEMMA StartupMoveInv ==
  ASSUME StartupInv, NEW p \in Processes, NEW to \in Process,
         to.phase \notin {"executing", "recording", "committing"},
         process' = [process EXCEPT ![p] = to],
         process[p].phase \in {"recording", "committing"} => writer' = writer \ {p},
         writer' \in {writer, writer \ {p}},
         UNCHANGED <<changes, recorded>>, starts' \in 0..MaxStarts
  PROVE  StartupInv'
PROOF
  <1>1. StartupTypeOK'
    BY DEF StartupInv, StartupTypeOK
  <1>2. WriterOK'
    <2> SUFFICES ASSUME NEW q \in Processes PROVE
          /\ process'[q].phase \in {"executing", "recording", "committing"}
               => process'[q].version \in Versions
          /\ process'[q].phase \in {"recording", "committing"}
               => writer' = {q} /\ process'[q].dirty
          /\ process'[q].phase = "committing" => process'[q].version \notin recorded'
      BY DEF WriterOK
    <2>1. CASE q = p
      BY <2>1 DEF StartupInv, StartupTypeOK
    <2>2. CASE q # p
      <3>1. process'[q] = process[q]
        BY <2>2 DEF StartupInv, StartupTypeOK
      <3>2. writer = {q} => writer' = {q}
        BY <2>2
      <3> QED BY <3>1, <3>2 DEF StartupInv, WriterOK
    <2> QED BY <2>1, <2>2
  <1>3. ScriptsRunOnce'
    BY DEF StartupInv, ScriptsRunOnce
  <1> QED BY <1>1, <1>2, <1>3 DEF StartupInv

\* Choosing a script does not begin its transaction.
LEMMA ChooseInv ==
  ASSUME StartupInv, NEW p \in Processes, ChooseScript(p)
  PROVE  StartupInv'
PROOF
  <1>1. CASE Missing(p) = {} /\ Enter(p, "recovering")
    <2> DEFINE to == [process[p] EXCEPT !.phase = "recovering"]
    <2>1. /\ to \in Process /\ to.phase = "recovering"
          /\ process' = [process EXCEPT ![p] = to]
      BY <1>1 DEF Enter, StartupInv, StartupTypeOK, Process, Phases
    <2> QED
      BY <2>1, StartupMoveInv DEF ChooseScript, In, StartupInv, StartupTypeOK
  <1>2. ASSUME NEW v \in Missing(p),
               process' = [process EXCEPT ![p].phase = "executing", ![p].version = v]
        PROVE  StartupInv'
    <2>1. v \in Versions /\ v \in 0..Migrations
      BY StartupAssumption DEF Missing, Versions, StartupInv, StartupTypeOK, Process
    <2> DEFINE to == [process[p] EXCEPT !.phase = "executing", !.version = v]
    <2>2. process' \in [Processes -> Process]
      <3>1. process[p] \in Process /\ process \in [Processes -> Process]
        BY DEF StartupInv, StartupTypeOK
      <3>2. to \in Process
        BY <2>1, <3>1 DEF Process, Phases
      <3>3. process' = [process EXCEPT ![p] = to]
        BY <1>2, <3>1
      <3> QED BY <3>1, <3>2, <3>3
    <2>3. \A q \in Processes : q # p => process'[q] = process[q]
      BY <1>2 DEF StartupInv, StartupTypeOK
    <2>4. process'[p].phase = "executing" /\ process'[p].version = v
      BY <1>2 DEF StartupInv, StartupTypeOK, Process
    <2>5. StartupTypeOK'
      BY <2>2 DEF ChooseScript, StartupInv, StartupTypeOK
    <2>6. WriterOK'
      BY <2>1, <2>3, <2>4 DEF ChooseScript, StartupInv, WriterOK
    <2>7. ScriptsRunOnce'
      BY DEF ChooseScript, StartupInv, ScriptsRunOnce
    <2> QED BY <2>5, <2>6, <2>7 DEF StartupInv
  <1> QED BY <1>1, <1>2 DEF ChooseScript

\* BEGIN IMMEDIATE waits for the writer.
LEMMA ExecuteInv ==
  ASSUME StartupInv, NEW p \in Processes, ExecuteScript(p)
  PROVE  StartupInv'
PROOF
  <1>1. process' \in [Processes -> Process]
    <2> DEFINE to == [process[p] EXCEPT !.phase = "recording", !.dirty = TRUE]
    <2>1. process[p] \in Process /\ process \in [Processes -> Process]
      BY DEF StartupInv, StartupTypeOK
    <2>2. to \in Process
      BY <2>1 DEF Process, Phases
    <2>3. process' = [process EXCEPT ![p] = to]
      BY <2>1 DEF ExecuteScript
    <2> QED BY <2>1, <2>2, <2>3
  <1>2. \A q \in Processes : q # p => process'[q] = process[q]
    BY DEF ExecuteScript, StartupInv, StartupTypeOK
  <1>3. /\ process'[p].phase = "recording" /\ process'[p].version = process[p].version
        /\ process'[p].dirty
    BY DEF ExecuteScript, StartupInv, StartupTypeOK, Process
  <1>4. StartupTypeOK'
    BY <1>1 DEF ExecuteScript, AfterScript, StartupInv, StartupTypeOK
  <1>5. WriterOK'
    BY <1>2, <1>3 DEF ExecuteScript, In, StartupInv, WriterOK
  <1>6. ScriptsRunOnce'
    BY DEF ExecuteScript, AfterScript, StartupInv, ScriptsRunOnce
  <1> QED BY <1>4, <1>5, <1>6 DEF StartupInv

\* The primary key refuses a version that is recorded.
LEMMA RecordInv ==
  ASSUME StartupInv, NEW p \in Processes, RecordVersion(p)
  PROVE  StartupInv'
PROOF
  <1>1. process' \in [Processes -> Process]
    BY DEF RecordVersion, Enter, StartupInv, StartupTypeOK, Process, Phases
  <1>2. \A q \in Processes : q # p => process'[q] = process[q]
    BY DEF RecordVersion, Enter, StartupInv, StartupTypeOK
  <1>3. /\ process'[p].phase = "committing" /\ process'[p].version = process[p].version
        /\ process'[p].dirty = process[p].dirty
    BY DEF RecordVersion, Enter, StartupInv, StartupTypeOK, Process
  <1>4. StartupTypeOK'
    BY <1>1 DEF RecordVersion, StartupInv, StartupTypeOK
  <1>5. WriterOK'
    BY <1>2, <1>3 DEF RecordVersion, In, StartupInv, WriterOK
  <1>6. ScriptsRunOnce'
    BY DEF RecordVersion, StartupInv, ScriptsRunOnce
  <1> QED BY <1>4, <1>5, <1>6 DEF StartupInv

\* Changes and version are committed together, and no other process is between
\* the insertion of a version and its commit.
LEMMA StartupCommitInv ==
  ASSUME StartupInv, NEW p \in Processes, CommitScript(p)
  PROVE  StartupInv'
PROOF
  <1> DEFINE v == process[p].version
  <1>1. /\ v \in Versions /\ v \notin recorded
        /\ writer = {p} /\ process[p].dirty
    BY DEF CommitScript, In, StartupInv, WriterOK
  <1>2. process' \in [Processes -> Process]
    <2> DEFINE to == [process[p] EXCEPT !.phase = "choosing", !.dirty = FALSE]
    <2>1. process[p] \in Process /\ process \in [Processes -> Process]
      BY DEF StartupInv, StartupTypeOK
    <2>2. to \in Process
      BY <2>1 DEF Process, Phases
    <2>3. process' = [process EXCEPT ![p] = to]
      BY <2>1 DEF CommitScript
    <2> QED BY <2>1, <2>2, <2>3
  <1>3. \A q \in Processes : q # p => process'[q] = process[q]
    BY DEF CommitScript, StartupInv, StartupTypeOK
  <1>4. process'[p].phase = "choosing"
    BY DEF CommitScript, StartupInv, StartupTypeOK, Process
  <1>5. \A q \in Processes : q # p =>
          process[q].phase \notin {"recording", "committing"}
    BY <1>1 DEF StartupInv, WriterOK
  <1>6. changes' = [changes EXCEPT ![v] = @ + 1]
    BY <1>1 DEF CommitScript
  <1>7. StartupTypeOK'
    BY <1>1, <1>2, <1>6 DEF CommitScript, StartupInv, StartupTypeOK
  <1>8. WriterOK'
    BY <1>3, <1>4, <1>5 DEF StartupInv, WriterOK
  <1>9. ScriptsRunOnce'
    BY <1>1, <1>6 DEF CommitScript, StartupInv, StartupTypeOK, ScriptsRunOnce
  <1> QED BY <1>7, <1>8, <1>9 DEF StartupInv

\* Every step keeps the invariant.
LEMMA StartupNextInv == StartupInv /\ [StartupNext]_startupVars => StartupInv'
PROOF
  <1> SUFFICES ASSUME StartupInv, [StartupNext]_startupVars PROVE StartupInv'
    OBVIOUS
  <1>1. CASE UNCHANGED startupVars
    BY <1>1 DEF startupVars, StartupInv, StartupTypeOK, WriterOK, ScriptsRunOnce
  <1>2. ASSUME NEW p \in Processes,
               StartProcess(p) \/ ReadVersions(p) \/ ChooseScript(p) \/ ExecuteScript(p)
               \/ RecordVersion(p) \/ CommitScript(p) \/ FailStartup(p)
               \/ Recover(p) \/ StartQueue(p) \/ StartScheduler(p)
               \/ StopScheduler(p) \/ StopQueue(p) \/ KillProcess(p)
        PROVE  StartupInv'
    <2>0. /\ process \in [Processes -> Process] /\ process[p] \in Process
          /\ starts \in 0..MaxStarts /\ recorded \subseteq Versions
          /\ Down \in Process /\ Down.phase = "down"
      BY DownIsProcess DEF StartupInv, StartupTypeOK
    <2>1. CASE StartProcess(p)
      <3>1. PICK n \in {Shipped, Migrations} :
              process' = [process EXCEPT
                            ![p] = [Down EXCEPT !.phase = "reading", !.scripts = n]]
        BY <2>1 DEF StartProcess
      <3> DEFINE to == [Down EXCEPT !.phase = "reading", !.scripts = n]
      <3>2. n \in 0..Migrations
        BY StartupAssumption
      <3>3. to \in Process /\ to.phase = "reading"
        BY <3>2, DownIsProcess
      <3>4. starts' \in 0..MaxStarts
        BY <2>0, <2>1, StartupAssumption DEF StartProcess
      <3> QED BY <2>1, <3>1, <3>3, <3>4, StartupMoveInv DEF StartProcess, In
    <2>2. CASE ReadVersions(p)
      <3> DEFINE to == [process[p] EXCEPT !.phase = "choosing", !.applied = recorded]
      <3>1. /\ to \in Process /\ to.phase = "choosing"
            /\ process' = [process EXCEPT ![p] = to]
        BY <2>0, <2>2 DEF ReadVersions, Process, Phases
      <3> QED BY <2>0, <2>2, <3>1, StartupMoveInv DEF ReadVersions, In
    <2>3. CASE ChooseScript(p)
      BY <2>3, ChooseInv
    <2>4. CASE ExecuteScript(p)
      BY <2>4, ExecuteInv
    <2>5. CASE RecordVersion(p)
      BY <2>5, RecordInv
    <2>6. CASE CommitScript(p)
      BY <2>6, StartupCommitInv
    <2>7. CASE FailStartup(p) \/ StopQueue(p) \/ KillProcess(p)
      BY <2>0, <2>7, StartupMoveInv DEF FailStartup, StopQueue, KillProcess, In
    <2>8. CASE Recover(p)
      <3> DEFINE to == [process[p] EXCEPT !.phase = "starting queue"]
      <3>1. to \in Process /\ to.phase = "starting queue" /\ process' = [process EXCEPT ![p] = to]
        BY <2>0, <2>8 DEF Recover, Enter, Process, Phases
      <3> QED BY <2>0, <2>8, <3>1, StartupMoveInv DEF Recover, In
    <2>9. CASE StartQueue(p)
      <3> DEFINE to == [process[p] EXCEPT !.phase = "starting scheduler", !.queue = TRUE]
      <3>1. /\ to \in Process /\ to.phase = "starting scheduler"
            /\ process' = [process EXCEPT ![p] = to]
        BY <2>0, <2>9 DEF StartQueue, Process, Phases
      <3> QED BY <2>0, <2>9, <3>1, StartupMoveInv DEF StartQueue, In
    <2>10. CASE StartScheduler(p)
      <3> DEFINE to == [process[p] EXCEPT !.phase = "serving", !.scheduler = TRUE]
      <3>1. to \in Process /\ to.phase = "serving" /\ process' = [process EXCEPT ![p] = to]
        BY <2>0, <2>10 DEF StartScheduler, Process, Phases
      <3> QED BY <2>0, <2>10, <3>1, StartupMoveInv DEF StartScheduler, In
    <2>11. CASE StopScheduler(p)
      <3> DEFINE to == [process[p] EXCEPT !.phase = "stopping", !.scheduler = FALSE]
      <3>1. to \in Process /\ to.phase = "stopping" /\ process' = [process EXCEPT ![p] = to]
        BY <2>0, <2>11 DEF StopScheduler, Process, Phases
      <3> QED BY <2>0, <2>11, <3>1, StartupMoveInv DEF StopScheduler, In
    <2> QED BY <1>2, <2>1, <2>2, <2>3, <2>4, <2>5, <2>6, <2>7, <2>8, <2>9, <2>10, <2>11
  <1> QED BY <1>1, <1>2 DEF StartupNext

\* Types, for any number of processes and scripts (Startup).
THEOREM StartupTypes == StartupSpec => []StartupTypeOK
PROOF
  <1>1. StartupInv => StartupTypeOK
    BY DEF StartupInv
  <1> QED BY StartupInitInv, StartupNextInv, <1>1, PTL DEF StartupSpec

\* A script and its version are applied together and once, whatever crashes and
\* fails and however many processes start on the database (apply_migration).
THEOREM MigrationsRunOnce == StartupSpec => []ScriptsRunOnce
PROOF
  <1>1. StartupInv => ScriptsRunOnce
    BY DEF StartupInv
  <1> QED BY StartupInitInv, StartupNextInv, <1>1, PTL DEF StartupSpec

-----------------------------------------------------------------------------
(* The services side by side (MCServices). *)

\* A behaviour of the composition is one of each of its services: what is proved
\* of one of them holds while the others exist.
THEOREM ServicesAreIndependent ==
  Spec => AuthSpec /\ FileSpec /\ SyncSpec /\ ImportSpec /\ StartupSpec /\ CandSpec
PROOF
  <1>1. Init => AuthInit /\ FileInit /\ SyncInit /\ ImportInit /\ StartupInit /\ CandInit
    BY DEF Init
  <1>2. [Next]_vars => [AuthNext]_authVars
    BY DEF Next, vars
  <1>3. [Next]_vars => [FileNext]_fileVars
    BY DEF Next, vars
  <1>4. [Next]_vars => [SyncNext]_syncVars
    BY DEF Next, vars
  <1>5. [Next]_vars => [ImportNext]_importVars
    BY DEF Next, vars
  <1>6. [Next]_vars => [StartupNext]_startupVars
    BY DEF Next, vars
  <1>7. [Next]_vars => [CandNext]_candVars
    BY DEF Next, vars
  <1> QED
    BY <1>1, <1>2, <1>3, <1>4, <1>5, <1>6, <1>7, PTL
    DEF Spec, AuthSpec, FileSpec, SyncSpec, ImportSpec, StartupSpec, CandSpec

\* All variables of the services keep their types, also of those a behaviour is
\* not about.
THEOREM ServicesTypes == Spec => []ServicesTypeOK
PROOF
  <1>1. Init => part \in Parts
    BY DEF Init
  <1>2. part \in Parts /\ [Next]_vars => (part \in Parts)'
    BY DEF Next, vars
  <1>3. /\ part \in Parts /\ AuthTypeOK /\ FileTypeOK /\ SyncTypeOK
        /\ ImportTypeOK /\ StartupTypeOK /\ CandTypeOK
        => ServicesTypeOK
    BY DEF ServicesTypeOK
  <1> QED
    BY <1>1, <1>2, <1>3, ServicesAreIndependent, AuthTypes, FileTypes, SyncTypes, ImportTypes,
       StartupTypes, CandTypes, PTL DEF Spec
=============================================================================
