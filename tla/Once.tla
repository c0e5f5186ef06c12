-------------------------------- MODULE Once --------------------------------
(***************************************************************************)
(* What the command log promises to whoever gives a command more than      *)
(* once: under one idempotency key an operation takes effect at most once, *)
(* and everyone who is told that it succeeded is told of that one effect.  *)
(***************************************************************************)
EXTENDS Naturals

CONSTANTS Keys,     \* the namespaces of idempotency: operation and key
          Answers,  \* what a successful operation reports
          NoAnswer

VARIABLES effect,   \* effect[k]: what the operation under k reported when it was done
          times,    \* times[k]: how often it was done
          told      \* told[k]: what callers have been told of it

onceVars == <<effect, times, told>>

OnceInit ==
    /\ effect = [k \in Keys |-> NoAnswer]
    /\ times = [k \in Keys |-> 0]
    /\ told = [k \in Keys |-> {}]

\* The operation is done; its answer may be lost.
Do(k) ==
    /\ effect[k] = NoAnswer
    /\ \E a \in Answers :
          /\ effect' = [effect EXCEPT ![k] = a]
          /\ \/ told' = [told EXCEPT ![k] = @ \cup {a}]
             \/ UNCHANGED told
    /\ times' = [times EXCEPT ![k] = @ + 1]

\* A caller who asks again is told what was done.
Tell(k) ==
    /\ effect[k] # NoAnswer
    /\ told' = [told EXCEPT ![k] = @ \cup {effect[k]}]
    /\ UNCHANGED <<effect, times>>

OnceNext == \E k \in Keys : Do(k) \/ Tell(k)

OnceSpec == OnceInit /\ [][OnceNext]_onceVars
=============================================================================
