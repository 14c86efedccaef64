----------------------------- MODULE MCRepoLife -----------------------------
(* Small instances of RepoLife. *)
EXTENDS RepoLife

WallOnly  == {"wall"}
AllFaults == {"wall", "crash", "runner", "diskfull"}
=============================================================================
