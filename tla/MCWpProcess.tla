----------------------------- MODULE MCWpProcess -----------------------------
(* What threads of a process share in wolfProvider: the self-test flags, the *)
(* open file of the system's entropy and the tree of generators.  They have  *)
(* no state in common: a behaviour is of one of them.                        *)
EXTENDS MCWpCast, MCWpUrandom, MCWpDrbg

VARIABLE part
processVars == <<part, castVars, vars, drbgVars>>

ProcessInit ==
  /\ CastInit /\ Init /\ DrbgInit /\ part \in {"cast", "urandom", "drbg"}
  /\ part # "cast" => algo = [t \in CastThread |-> "AES"]
ProcessNext ==
  /\ \/ part = "cast" /\ CastNext /\ UNCHANGED <<vars, drbgVars>>
     \/ part = "urandom" /\ Next /\ UNCHANGED <<castVars, drbgVars>>
     \/ part = "drbg" /\ DrbgNext /\ UNCHANGED <<castVars, vars>>
  /\ UNCHANGED part

(* A part that does not run has nothing enabled that its threads owe. *)
ProcessSpec == ProcessInit /\ [][ProcessNext]_processVars /\ CastFairness /\ Fairness
==============================================================================
