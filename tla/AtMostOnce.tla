----------------------------- MODULE AtMostOnce -----------------------------
(***************************************************************************)
(* What the outbound side of quackhole promises its caller, and nothing of *)
(* how: each request is submitted once, takes effect at the peer at most   *)
(* once, is reported as answered only when it took effect, and may be      *)
(* reported as failed whether or not it did (it may even take effect after *)
(* its caller was told it failed).  docs/ARCHITECTURE.md calls this        *)
(* "At-most-once, not at-least-once".  Module Dial implements it.          *)
(***************************************************************************)
EXTENDS Integers

CONSTANT Requests

VARIABLES
  phase,    \* phase[r]: what the caller of request r knows
  effects   \* effects[r]: how many times the peer has acted on r

vars == <<phase, effects>>

Init ==
  /\ phase = [r \in Requests |-> "idle"]
  /\ effects = [r \in Requests |-> 0]

Submit(r) ==
  /\ phase[r] = "idle"
  /\ phase' = [phase EXCEPT ![r] = "pending"]
  /\ UNCHANGED effects

\* The peer acts on a submitted request, for the first and only time.
TakeEffect(r) ==
  /\ phase[r] # "idle"
  /\ effects[r] = 0
  /\ effects' = [effects EXCEPT ![r] = 1]
  /\ UNCHANGED phase

Answer(r) ==
  /\ phase[r] = "pending"
  /\ effects[r] = 1
  /\ phase' = [phase EXCEPT ![r] = "answered"]
  /\ UNCHANGED effects

GiveUp(r) ==
  /\ phase[r] = "pending"
  /\ phase' = [phase EXCEPT ![r] = "failed"]
  /\ UNCHANGED effects

Next == \E r \in Requests : Submit(r) \/ TakeEffect(r) \/ Answer(r) \/ GiveUp(r)

Spec == Init /\ [][Next]_vars
=============================================================================
