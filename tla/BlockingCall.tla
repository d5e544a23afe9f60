---------------------------- MODULE BlockingCall ----------------------------
(***************************************************************************)
(* What the browser's blocking bridge promises the queries that use it,    *)
(* and nothing of how: calls are taken one at a time, in the order they    *)
(* are asked for; a call is performed at most once, and only during its    *)
(* turn; it settles once; what it returns is what it settled on; and while *)
(* the bridge is up, a call that fails was not performed and will not be.  *)
(* The promise rests on an assumption about time that the calls cannot see *)
(* to: once it fails the promise is void.  Module ShimBridge implements it.*)
(***************************************************************************)
EXTENDS Integers

CONSTANTS
  MaxCalls,    \* how many calls are asked for
  Responses,   \* what a call may settle on
  Nothing,     \* no response and no result
  Failed       \* the result of a call that got no response

Calls == 1 .. MaxCalls

VARIABLES
  asked,       \* how many calls have been asked for
  performed,   \* the calls the bridge has started
  settled,     \* settled[n]: the response of call n
  result,      \* result[n]: what call n returned
  down,        \* the bridge has gone
  void         \* the assumption about time has failed

callVars == <<asked, performed, settled, result, down>>
vars == <<callVars, void>>

Init ==
  /\ asked = 0
  /\ performed = {}
  /\ settled = [n \in Calls |-> Nothing]
  /\ result = [n \in Calls |-> Nothing]
  /\ down = FALSE
  /\ void = FALSE

\* Call n is the first that has not returned.
Turn(n) ==
  /\ n <= asked
  /\ result[n] = Nothing
  /\ \A m \in 1 .. n - 1 : result[m] # Nothing

Ask ==
  /\ asked < MaxCalls
  /\ asked' = asked + 1
  /\ UNCHANGED <<performed, settled, result, down>>

Perform(n) ==
  /\ ~down
  /\ Turn(n)
  /\ n \notin performed
  /\ performed' = performed \cup {n}
  /\ UNCHANGED <<asked, settled, result, down>>

Settle(n) ==
  /\ ~down
  /\ Turn(n)
  /\ n \in performed
  /\ settled[n] = Nothing
  /\ \E a \in Responses : settled' = [settled EXCEPT ![n] = a]
  /\ UNCHANGED <<asked, performed, result, down>>

Return(n) ==
  /\ Turn(n)
  /\ settled[n] # Nothing
  /\ result' = [result EXCEPT ![n] = settled[n]]
  /\ UNCHANGED <<asked, performed, settled, down>>

Fail(n) ==
  /\ Turn(n)
  /\ down \/ n \notin performed
  /\ result' = [result EXCEPT ![n] = Failed]
  /\ UNCHANGED <<asked, performed, settled, down>>

GoDown ==
  /\ ~down
  /\ down' = TRUE
  /\ UNCHANGED <<asked, performed, settled, result>>

Step ==
  \/ Ask
  \/ GoDown
  \/ \E n \in Calls : Perform(n) \/ Settle(n) \/ Return(n) \/ Fail(n)

\* Nothing binds a step that ends where the promise is void.
Next == void' \/ (UNCHANGED void /\ (Step \/ UNCHANGED callVars))

Spec == Init /\ [][Next]_vars
=============================================================================
