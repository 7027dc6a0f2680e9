----------------------------- MODULE MCRunChain -----------------------------
(***************************************************************************)
(* A backlog for RunChain: five rows at five instants, each of an object   *)
(* of its own that the one rule matches, read two or fewer at a time.      *)
(***************************************************************************)
EXTENDS RunChain

CONSTANT red

Five     == 1..5
Each     == [o \in Five |-> o]
AllRed   == [o \in Five |-> {red}]
RedRule  == {[enabled |-> TRUE, tags |-> {red}, keys |-> Five]}
TagNames == {red}
None     == {}
ChainFaults == {"bound", "read", "service", "invoke"}
=============================================================================
