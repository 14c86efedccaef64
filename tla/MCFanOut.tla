------------------------------ MODULE MCFanOut ------------------------------
(* Small instances of FanOut: repositories are numbers in dataset order. *)
EXTENDS FanOut

TwoRepos   == {1, 2}
TwoList    == <<1, 2>>
ThreeRepos == {1, 2, 3}
ThreeList  == <<1, 2, 3>>
GateDisk   == {"ok", "low"}
AnyDisk    == {"ok", "low", "full"}
MachineOnly == {"machine"}
AnyCrash   == {"machine", "runner"}
=============================================================================
