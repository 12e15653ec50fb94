----------------------------- MODULE MCWpUrandom -----------------------------
(* Two threads in the parent and the one thread a fork leaves in the child; *)
(* a request wants two bytes and stdio reads three ahead, so that requests  *)
(* both leave bytes behind and start in a buffer that does not suffice.     *)
EXTENDS WpUrandom

MCThread == {"main", "worker", "child"}
MCProcOf == [t \in MCThread |-> IF t = "child" THEN "child" ELSE "parent"]
==============================================================================
