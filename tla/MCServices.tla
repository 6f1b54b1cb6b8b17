----------------------------- MODULE MCServices -----------------------------
(***************************************************************************)
(* The services around the queue, the runner and the scheduler, checked    *)
(* side by side: each behaviour is one of SettingsAuth, FileDownloads,     *)
(* LibrarySync, LegacyImport, Startup and WorkflowCandidates, the others   *)
(* stay in their initial states.                                           *)
(***************************************************************************)
EXTENDS SettingsAuth, FileDownloads, LibrarySync, LegacyImport, Startup, MCCandidates

VARIABLE part  \* the module this behaviour is about

Parts == {"auth", "files", "sync", "import", "startup", "candidates"}

\* two files that want the same name, and one that wants the numbered name of it
MCWanted == ("u1" :> "a") @@ ("u2" :> "a") @@ ("u3" :> "a (1)")
MCNumbered == ("a" :> <<"a (1)", "a (2)">>) @@ ("a (1)" :> <<"a (1) (1)">>)
              @@ ("a (2)" :> <<>>) @@ ("a (1) (1)" :> <<>>)
MCLockOf == ("a" :> 1) @@ ("a (1)" :> 2) @@ ("a (2)" :> 3) @@ ("a (1) (1)" :> 4)
MCLeftovers == {{}, {"a"}, {"a", "a (1)"}}
MCIntervalOf == <<1>>

\* the workers of the largest part and the runs are interchangeable
MCSymmetry == Permutations(Loaders) \cup Permutations(Runs)

Init == /\ part \in Parts
        /\ AuthInit /\ FileInit /\ SyncInit /\ ImportInit /\ StartupInit /\ CandInit
        /\ part = "files" \/ disk = [p \in Paths |-> NoFile]

vars == <<part, authVars, fileVars, syncVars, importVars, startupVars, candVars>>

Next ==
  \/ /\ part = "auth" /\ AuthNext
     /\ UNCHANGED <<part, fileVars, syncVars, importVars, startupVars, candVars>>
  \/ /\ part = "files" /\ FileNext
     /\ UNCHANGED <<part, authVars, syncVars, importVars, startupVars, candVars>>
  \/ /\ part = "sync" /\ SyncNext
     /\ UNCHANGED <<part, authVars, fileVars, importVars, startupVars, candVars>>
  \/ /\ part = "import" /\ ImportNext
     /\ UNCHANGED <<part, authVars, fileVars, syncVars, startupVars, candVars>>
  \/ /\ part = "startup" /\ StartupNext
     /\ UNCHANGED <<part, authVars, fileVars, syncVars, importVars, candVars>>
  \/ /\ part = "candidates" /\ CandNext
     /\ UNCHANGED <<part, authVars, fileVars, syncVars, importVars, startupVars>>

Spec == Init /\ [][Next]_vars

\* The variables of the module a behaviour is about keep their types.
ServicesTypeOK ==
  /\ part \in Parts
  /\ part = "auth" => AuthTypeOK
  /\ part = "files" => FileTypeOK
  /\ part = "sync" => SyncTypeOK
  /\ part = "import" => ImportTypeOK
  /\ part = "startup" => StartupTypeOK
  /\ part = "candidates" => CandTypeOK
=============================================================================
