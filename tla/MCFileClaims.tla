---------------------------- MODULE MCFileClaims ----------------------------
(* Small instances of FileClaims for TLC. *)
EXTENDS FileClaims, TLC

\* artworks of one page each
OnePageEach == [p \in Pages |-> p]

WorkerSymmetry == Permutations(Workers)

\* bound: the older page is new, or left downloading by a version of the program
\* without claims; the other is new, failed or downloaded
MCInit == /\ Init
          /\ status[1] \in {"remote_only", "downloading"}
          /\ status[2] # "downloading"

MCSpec == MCInit /\ [][Next]_vars
=============================================================================
