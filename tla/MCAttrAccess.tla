----------------------------- MODULE MCAttrAccess -----------------------------
(***************************************************************************)
(* One processor and four threads: the one that starts the system, the     *)
(* shell at the same priority, one more urgent and one less.               *)
(***************************************************************************)
EXTENDS AttrAccess

CONSTANTS main, shell, urgent, low

MCThreads == {main, shell, urgent, low}
MCPriority == [t \in MCThreads |-> CASE t = urgent -> 1 [] t = low -> 3 [] OTHER -> 2]
MCCalls == [t \in MCThreads |->
              CASE t = urgent -> {"copy", "get"}
                [] t = main -> {}
                [] t = shell -> {"show", "set"}
                [] t = low -> {"set", "default", "reset"}]
MCMaxCalls == [t \in MCThreads |->
                 CASE t = main -> 0 [] t = low -> 2 [] OTHER -> 2]
==============================================================================
