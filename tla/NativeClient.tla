---------------------------- MODULE NativeClient ----------------------------
(***************************************************************************)
(* The native client end to end: DuckDB sends a statement through          *)
(* QuackholeHTTPClient::RoundTrip (src/quackhole_http.cpp), which makes    *)
(* one request of the core (module Dial) and turns its outcome into an     *)
(* HTTPResponse; DuckDB's RunRequestWithRetry sends the statement again    *)
(* when that response carries a request_error.                             *)
(*                                                                         *)
(* The n-th sending of statement s is the core's request <<s, n>>: Dial's  *)
(* Requests is Statements \X Sendings.                                     *)
(***************************************************************************)
EXTENDS Dial

CONSTANTS
  Statements,   \* the statements sent to remote databases
  Retries       \* DuckDB's http_retries

Sendings == 0 .. Retries

VARIABLE response   \* response[r]: the HTTPResponse RoundTrip made of request r

clientVars == <<vars, response>>

Responses == {"none", "status", "request_error"}

ClientInit ==
  /\ Init
  /\ response = [r \in Requests |-> "none"]

(* HTTPResponse::ShouldRetry is true whenever request_error is set, and    *)
(* RunRequestWithRetry sends again until http_retries is used up.          *)
Send(s, n) ==
  /\ n # 0 => response[<<s, n - 1>>] = "request_error"
  /\ Call(<<s, n>>)
  /\ UNCHANGED response

(* No response from qh_request is a TransportError, whatever the failure;  *)
(* so is a response whose status line cannot be read (status 0).  Any      *)
(* other status is a real response and carries no request_error.           *)
RoundTrip(r) ==
  /\ pc[r] = "done"
  /\ response[r] = "none"
  /\ \E said \in {"status", "request_error"} :
       /\ said = "status" => result[r] = "ok"
       /\ response' = [response EXCEPT ![r] = said]
  /\ UNCHANGED vars

ClientNext ==
  \/ \E s \in Statements, n \in Sendings : Send(s, n)
  \/ \E r \in Requests : RoundTrip(r)
  \/ Work /\ UNCHANGED response

ClientSpec == ClientInit /\ [][ClientNext]_clientVars

(* docs/ARCHITECTURE.md, "At-most-once, not at-least-once": replaying a    *)
(* request that may already have been applied would apply it twice.        *)
StatementAppliedAtMostOnce ==
  \A s \in Statements : \A m, n \in Sendings :
    Effects(<<s, m>>) = 1 /\ Effects(<<s, n>>) = 1 => m = n
=============================================================================
