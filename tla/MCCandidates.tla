---------------------------- MODULE MCCandidates ----------------------------
(* WorkflowCandidates on two artists and three artworks. *)
EXTENDS WorkflowCandidates, TLC

MCOwners == {1, 2}
MCOwnerOf == <<1, 2, 1>>
MCLibraries == {<<"failed", "pending", "absent">>}
MCRuns == Permutations(Runs)

Every == [scope |-> "all_artists", artists |-> {}, works |-> {}, max |-> 1,
          pick |-> "oldest", skip |-> TRUE, stale |-> FALSE, actions |-> {"download"},
          mode |-> "new_since_last_download", limit |-> 0, order |-> "newest_first",
          range |-> Works, blocks |-> FALSE, stop |-> 0, unit |-> "artist"]

MCAsks ==
  {Every,
   \* two artworks in one set, of artists the resolver finds; a blocked tag and
   \* a limit that stops
   [Every EXCEPT !.scope = "artworks", !.works = {2, 3}, !.pick = "any", !.max = 0,
                 !.mode = "pending_files", !.blocks = TRUE, !.stop = 1, !.unit = "set"],
   \* everything of one artist again unless checked lately, oldest first and
   \* limited, then what failed
   [Every EXCEPT !.scope = "selected", !.artists = {1}, !.pick = "any", !.mode = "all_synced",
                 !.stale = TRUE,
                 !.actions = {"download", "retry"}, !.limit = 1, !.order = "oldest_first"]}
====
