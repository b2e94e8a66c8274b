--------------------------- MODULE ExclusiveSection ---------------------------
(***************************************************************************)
(* What withDistributedLease promises to the code that calls it, without   *)
(* rows, clocks or heartbeats.  A call enters its section when nobody      *)
(* holds the resource; it may lose the resource at any moment and goes on  *)
(* running without knowing it; it is certified, and may only then return   *)
(* its result, while it still holds what it entered with.                  *)
(***************************************************************************)

CONSTANTS Callers,   \* calls of withDistributedLease on one (shop, resource)
          None       \* no holder

VARIABLES phase,     \* phase[c]: where call c is
          holder     \* the call that holds the resource, or None

vars == <<phase, holder>>

Init ==
  /\ phase = [c \in Callers |-> "out"]
  /\ holder = None

Enter(c) ==
  /\ phase[c] = "out"
  /\ holder = None
  /\ phase' = [phase EXCEPT ![c] = "in"]
  /\ holder' = c

\* Expiry and take-over, a clean-up of the rows, the death of the holder.
Lose ==
  /\ holder # None
  /\ holder' = None
  /\ UNCHANGED phase

Certify(c) ==
  /\ phase[c] = "in"
  /\ holder = c
  /\ phase' = [phase EXCEPT ![c] = "certified"]
  /\ UNCHANGED holder

Drop(c) == holder' = IF holder = c THEN None ELSE holder

Succeed(c) ==
  /\ phase[c] = "certified"
  /\ phase' = [phase EXCEPT ![c] = "ok"]
  /\ Drop(c)

Fail(c) ==
  /\ phase[c] \in {"out", "in", "certified"}
  /\ phase' = [phase EXCEPT ![c] = "failed"]
  /\ Drop(c)

Next ==
  \/ Lose
  \/ \E c \in Callers : Enter(c) \/ Certify(c) \/ Succeed(c) \/ Fail(c)

Spec == Init /\ [][Next]_vars
===============================================================================
