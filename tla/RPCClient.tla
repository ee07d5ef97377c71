----------------------------- MODULE RPCClient -----------------------------
(***************************************************************************)
(* One command-line RPC call end to end (curecoinrpc.cpp): CommandLineRPC  *)
(* takes the method and its string parameters, RPCConvertValues converts   *)
(* the typed ones, CallRPC checks the credentials, connects, posts the     *)
(* request and reads the HTTP reply; the server authorizes it, executes    *)
(* the single request and encodes the reply (JSONRPCReplyObj, ErrorReply, *)
(* HTTPReply); CommandLineRPC turns the reply into output and a status.    *)
(*                                                                         *)
(* The server's handling of concurrency is RPCServer's subject; here the   *)
(* server answers one request, and what the command's actor returns or     *)
(* throws is an input.  JSON values are abstracted to their type.          *)
(***************************************************************************)
EXTENDS Integers, Sequences

CONSTANTS
  Methods,       \* method names given on the command line
  Known,         \* the methods in the server's table
  Typed,         \* Typed[m]: the parameter indexes RPCConvertValues converts
  ParamForms,    \* a parameter's text: "json" (parses to the type the method
                 \* takes there), "badjson" (does not parse as JSON),
                 \* "wrongtype" (parses to another type)
  MaxParams,     \* bound: parameters on the command line
  Outcomes,      \* what the server does with a request it accepted: records
                 \* [kind |-> "ok", type, big] (big: longer than MAX_SIZE),
                 \* [kind |-> "error", code], or [kind |-> "closed"]
  Creds,         \* -rpcuser/-rpcpassword: "unset", "wrong", "ok"
  Hosts          \* -rpcconnect: "local", "refused" (outside -rpcallowip), "down"

\* A null error: no RPC error code is 0.
NoError == 0

\* (fault variant: the code returned as it is)
AbsIntNone(n) == n

\* abs(code)
AbsInt(n) == IF n < 0 THEN -n ELSE n

VARIABLES
  cpc,         \* the client: "start", "call", "server", "read", "done"
  method,
  params,      \* the forms of the parameters, in order
  cred, host,
  outcome,     \* the actor's outcome (server side)
  status,      \* the HTTP status the server sent, then the one the client read
  body,        \* the body: Bare("none"), Bare("empty"), Bare("html"), or a Reply
  nRet,        \* CommandLineRPC's return value
  out          \* "stdout", "stderr" or "none": where strPrint went

vars == <<cpc, method, params, cred, host, outcome, status, body, nRet, out>>

-----------------------------------------------------------------------------
(* Client                                                                  *)

\* catch (std::exception&) in CommandLineRPC: print to stderr, return 87.
ClientThrows ==
  /\ cpc' = "done" /\ nRet' = 87 /\ out' = "stderr"

\* ConvertTo<T>: a string is re-read as JSON; a parse failure or a value
\* of another type throws.
ConvertFails(m, ps) ==
  \E i \in DOMAIN ps : (i - 1) \in Typed[m] /\ ps[i] # "json"

\* CommandLineRPC up to CallRPC: method present, parameters converted,
\* credentials set.
ClientStart ==
  /\ cpc = "start"
  /\ IF method = "none" \/ ConvertFails(method, params) \/ cred = "unset"
       THEN ClientThrows
       ELSE cpc' = "call" /\ UNCHANGED <<nRet, out>>
  /\ UNCHANGED <<method, params, cred, host, outcome, status, body>>

\* d.connect(...) and the POST: a host that is down throws; otherwise the
\* request reaches the server.
ClientConnect ==
  /\ cpc = "call"
  /\ IF host = "down"
       THEN ClientThrows
       ELSE cpc' = "server" /\ UNCHANGED <<nRet, out>>
  /\ UNCHANGED <<method, params, cred, host, outcome, status, body>>
-----------------------------------------------------------------------------
(* Server: one request on an accepted connection                           *)

\* ErrorReply: the HTTP status of an error object.
ErrorStatus(code) ==
  CASE code = -32600 -> 400
    [] code = -32601 -> 404
    [] OTHER -> 500

\* JSONRPCReplyObj: result is null whenever error is not.
JSONRPCReplyObj(resultType, error) ==
  [result |-> IF error # NoError THEN "null" ELSE resultType,
   error |-> error]

\* The reply body: the reply object and whether it is longer than MAX_SIZE.
Reply(obj, big) ==
  [kind |-> "reply", result |-> obj.result, error |-> obj.error, big |-> big]

\* A body that is not a reply object.
Bare(k) == [kind |-> k]

\* The server's whole answer: 403 to a refused peer (RPCAcceptHandler),
\* nothing when the handler finds fShutdown at the top of its loop, 401
\* with an HTML body on bad credentials, else tableRPC.execute and the
\* reply: 200 with the result, or ErrorReply's status with the error.
ServerHandle ==
  /\ cpc = "server"
  /\ CASE host = "refused" ->
            status' = 403 /\ body' = Bare("empty")
       [] outcome.kind = "closed" ->
            status' = 0 /\ body' = Bare("empty")
       [] cred = "wrong" ->
            status' = 401 /\ body' = Bare("html")
       [] method \notin Known ->
            status' = ErrorStatus(-32601)
            /\ body' = Reply(JSONRPCReplyObj("null", -32601), FALSE)
       [] outcome.kind = "error" ->
            status' = ErrorStatus(outcome.code)
            /\ body' = Reply(JSONRPCReplyObj("null", outcome.code), FALSE)
       [] OTHER ->
            status' = 200
            /\ body' = Reply(JSONRPCReplyObj(outcome.type, NoError), outcome.big)
  /\ cpc' = "read"
  /\ UNCHANGED <<method, params, cred, host, outcome, nRet, out>>

-----------------------------------------------------------------------------
(* Client: reading the reply                                               *)

\* ReadHTTP on the client: the status line of a closed connection has no
\* second word (500); a Content-Length above MAX_SIZE is answered with
\* 500 and an empty message before the body is read.
Truncated == status = 0 \/ (body.kind = "reply" /\ body.big)
ReadStatus == IF Truncated THEN 500 ELSE status
ReadBody == IF Truncated THEN Bare("empty") ELSE body

\* (fault variant: 404 is not among the statuses that carry a reply)
ClientRejectsNo404(st) == st = 401 \/ (st >= 400 /\ st \notin {400, 500})

\* CallRPC's status checks: 401, and any other status from 400 up except
\* the three ErrorReply uses, throw.
ClientRejects(st) == st = 401 \/ (st >= 400 /\ st \notin {400, 404, 500})

\* The rest of CallRPC and CommandLineRPC: throw on a rejected status or
\* an empty message; else print the error to stderr and return
\* abs(code), or print the result (nothing for null) and return 0.
ClientRead ==
  /\ cpc = "read"
  /\ status' = ReadStatus /\ body' = ReadBody
  /\ IF ClientRejects(ReadStatus) \/ ReadBody.kind = "empty"
       THEN ClientThrows
       ELSE /\ cpc' = "done"
            /\ IF ReadBody.error # NoError
                 THEN nRet' = AbsInt(ReadBody.error) /\ out' = "stderr"
                 ELSE /\ nRet' = 0
                      /\ out' = IF ReadBody.result = "null" THEN "none" ELSE "stdout"
  /\ UNCHANGED <<method, params, cred, host, outcome>>

-----------------------------------------------------------------------------

\* Every command line, configuration and server behaviour.
Init ==
  /\ cpc = "start"
  /\ method \in Methods \cup {"none"}
  /\ params \in UNION {[1..n -> ParamForms] : n \in 0..MaxParams}
  /\ cred \in Creds
  /\ host \in Hosts
  /\ outcome \in Outcomes
  /\ status = 0
  /\ body = Bare("none")
  /\ nRet = 0
  /\ out = "none"

\* The process exits in "done".
Next == ClientStart \/ ClientConnect \/ ServerHandle \/ ClientRead

Spec == Init /\ [][Next]_vars

-----------------------------------------------------------------------------
(* Properties                                                              *)

TypeOK ==
  /\ cpc \in {"start", "call", "server", "read", "done"}
  /\ status \in {0, 200, 400, 401, 403, 404, 500}
  /\ nRet \in Nat
  /\ out \in {"none", "stdout", "stderr"}

\* The request reached tableRPC.execute.
Dispatched ==
  /\ method # "none" /\ ~ConvertFails(method, params)
  /\ cred = "ok" /\ host = "local" /\ outcome.kind # "closed"

\* The error code the server answered with, if it did.
ServerError ==
  IF method \notin Known THEN -32601
  ELSE IF outcome.kind = "error" THEN outcome.code ELSE NoError

\* What the caller learns matches what the server did, whatever the
\* HTTP status ErrorReply chose and CallRPC filtered: a command that ran
\* and answered within MAX_SIZE exits 0 with its result on stdout (or
\* nothing for null), a command that failed exits with abs(code) on
\* stderr, and a request that never reached a command exits 87 -- as does
\* a command that ran but whose reply exceeded MAX_SIZE (ReadHTTP's 500).
CLIExitFollowsReply ==
  cpc = "done" =>
    IF ~Dispatched THEN nRet = 87 /\ out = "stderr"
    ELSE IF ServerError # NoError THEN nRet = AbsInt(ServerError) /\ out = "stderr"
    ELSE IF outcome.big THEN nRet = 87 /\ out = "stderr"
    ELSE nRet = 0 /\ out = IF outcome.type = "null" THEN "none" ELSE "stdout"
=============================================================================
