----------------------------- MODULE CastService -----------------------------
(***************************************************************************)
(* What the lazy FIPS self-test promises its callers, without the mutex    *)
(* and without the two reads of the flag: a category is passed at most     *)
(* once and for ever, a caller is told "ok" only for a category that has   *)
(* passed, and a caller that is told "failed" learns nothing.              *)
(***************************************************************************)
CONSTANTS
  Thread,    \* the threads that enter provider functions
  Algo,      \* the WP_CAST_ALGO_* categories
  BadAlgo    \* values wp_init_cast refuses as out of range

VARIABLES
  passed,    \* passed[a]: the self-tests of category a have completed
  request    \* request[t]: what thread t asked for and was told

svars == <<passed, request>>

Asked(t) == request[t].state = "asked"

Init ==
  /\ passed = [a \in Algo |-> FALSE]
  /\ request \in [Thread -> [state : {"none"}, algo : Algo]]

Ask(t, a) ==
  /\ request[t].state = "none"
  /\ request' = [request EXCEPT ![t] = [state |-> "asked", algo |-> a]]
  /\ UNCHANGED passed

Refuse(t, a) ==
  /\ request[t].state = "none"
  /\ request' = [request EXCEPT ![t] = [state |-> "failed", algo |-> a]]
  /\ UNCHANGED passed

(* A category passes only on behalf of a thread that waits for it. *)
Pass(t) ==
  /\ Asked(t)
  /\ ~passed[request[t].algo]
  /\ passed' = [passed EXCEPT ![request[t].algo] = TRUE]
  /\ UNCHANGED request

Grant(t) ==
  /\ Asked(t)
  /\ passed[request[t].algo]
  /\ request' = [request EXCEPT ![t].state = "ok"]
  /\ UNCHANGED passed

Fail(t) ==
  /\ Asked(t)
  /\ request' = [request EXCEPT ![t].state = "failed"]
  /\ UNCHANGED passed

Leave(t) ==
  /\ request[t].state \in {"ok", "failed"}
  /\ request' = [request EXCEPT ![t].state = "none"]
  /\ UNCHANGED passed

Next ==
  \E t \in Thread :
    \/ \E a \in Algo : Ask(t, a)
    \/ \E a \in BadAlgo : Refuse(t, a)
    \/ Pass(t) \/ Grant(t) \/ Fail(t) \/ Leave(t)

Spec == Init /\ [][Next]_svars
==============================================================================
