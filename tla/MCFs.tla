-------------------------------- MODULE MCFs --------------------------------
(* Two processes that create and remove the same file, for TLC. *)
EXTENDS Fs

oneEach == [t \in Threads |-> t]
file == [abs |-> TRUE, elems |-> <<"a">>]
createAndRemove ==
  [t \in Threads |-> {[op |-> "create", path |-> file, type |-> "FILE"], [op |-> "unlink", path |-> file]}]
=============================================================================
