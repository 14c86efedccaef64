---------------------------- MODULE MCSetupScript ----------------------------
(* Small instances of SetupScript: two packages and two libraries, one of whose    *)
(* apt names begins with the other's, and a block that runs its own update.    *)
EXTENDS SetupScript

Nodes    == {"a", "b", "dev", "lib"}
Packages == {"a", "b"}
Apt      == {"dev", "lib"}
Blocks   == {"block"}
Ranks    == [a |-> 1, b |-> 2, dev |-> 1, lib |-> 2, block |-> 1]

Texts == {"pip a", "pip b", "apt lib-dev", "apt lib", "apt-get update", "make", "editable",
          "pip pytest", "reformatted"}
ReportsOf == [a |-> {"pip a"}, b |-> {"pip b"}, dev |-> {"apt lib-dev"}, lib |-> {"apt lib"},
              block |-> {"apt-get update", "make", "reformatted"},
              project |-> {"editable"}, preamble |-> {"pip pytest"}]
HeldBy    == [a |-> {"pip a"}, b |-> {"pip b"}, dev |-> {"apt lib-dev", "apt lib"},
              lib |-> {"apt lib"}, block |-> {"apt-get update", "make"},
              project |-> {"editable"}, preamble |-> {"pip pytest"}]
=============================================================================
