----------------------------- MODULE PageLedger -----------------------------
(***************************************************************************)
(* What the download claims promise about the pages of an artist: a page   *)
(* is worked on by one worker at a time, its recorded result changes only  *)
(* by its holder or by the legacy import, a page recorded as downloaded    *)
(* stays downloaded, and a restart gives every page back with the result   *)
(* it had.                                                                 *)
(***************************************************************************)
CONSTANTS Pages, Workers, Nobody

VARIABLES ledger,  \* [Pages -> Results]
          holder   \* [Pages -> Workers \cup {Nobody}]

\* "interrupted" is the result of a page an older process left downloading
Results == {"remote_only", "pending", "interrupted", "downloaded", "skipped", "failed"}

Init == /\ ledger \in [Pages -> Results]
        /\ holder = [p \in Pages |-> Nobody]

Acquire(w, p) ==
  /\ holder[p] = Nobody
  /\ holder' = [holder EXCEPT ![p] = w]
  /\ ledger' = [ledger EXCEPT ![p] = IF @ = "interrupted" THEN "failed" ELSE @]

Record(w, p) ==
  /\ holder[p] = w
  /\ ledger[p] # "downloaded"
  /\ \E result \in {"downloaded", "skipped", "failed"} :
       ledger' = [ledger EXCEPT ![p] = result]
  /\ UNCHANGED holder

Release(w, p) ==
  /\ holder[p] = w
  /\ holder' = [holder EXCEPT ![p] = Nobody]
  /\ UNCHANGED ledger

Import(p) ==
  /\ ledger' = [ledger EXCEPT ![p] = "downloaded"]
  /\ UNCHANGED holder

Restart ==
  /\ holder' = [p \in Pages |-> Nobody]
  /\ UNCHANGED ledger

Next ==
  \/ \E w \in Workers, p \in Pages : Acquire(w, p) \/ Record(w, p) \/ Release(w, p)
  \/ \E p \in Pages : Import(p)
  \/ Restart

Spec == Init /\ [][Next]_<<ledger, holder>>
=============================================================================
