----------------------------- MODULE RPCServer -----------------------------
(***************************************************************************)
(* The JSON-RPC server of curecoinrpc.cpp: the listener thread with its    *)
(* accept handler (RPCListen / RPCAcceptHandler / ThreadRPCServer2), one   *)
(* handler thread per accepted connection (ThreadRPCServer3) and the       *)
(* command table's execute() with its safe-mode check and LOCK2(cs_main,   *)
(* cs_wallet).  Clients and the node's own thread (which takes cs_main and *)
(* raises warnings) are the environment.                                   *)
(*                                                                         *)
(* Data is abstracted: an HTTP request is a record saying which            *)
(* credentials it carries, its Connection header and protocol version,     *)
(* whether its Content-Length exceeds MAX_SIZE, and the shape of its JSON  *)
(* body; a JSON-RPC request object is [valid, method].  A handler's result *)
(* is a nondeterministic success or failure.                               *)
(***************************************************************************)
EXTENDS Integers, Sequences, FiniteSets

CONSTANTS
  Conns,            \* TCP connections a client may open
  Allowed,          \* peers for which ClientAllowed() holds
  Methods,          \* names registered in vRPCCommands
  OkSafeMode,       \* CRPCCommand::okSafeMode
  Unlocked,         \* CRPCCommand::unlocked
  StopMethod,       \* "stop", whose handler calls StartShutdown()
  Requests,         \* the HTTP requests clients send
  MaxRequests,      \* bound: requests one client sends on one connection
  NodeRounds,       \* bound: times the node thread takes cs_main
  UseSSL,           \* -rpcssl
  DisableSafeMode,  \* -disablesafemode
  Node,             \* the node's own thread, as a lock holder
  None              \* no lock holder / empty channel

ASSUME Allowed \subseteq Conns
ASSUME OkSafeMode \subseteq Methods /\ Unlocked \subseteq Methods
ASSUME StopMethod \in Methods
ASSUME MaxRequests \in Nat /\ NodeRounds \in Nat

VARIABLES
  hpc,          \* program counter of the handler thread of each connection
  fRun,         \* ThreadRPCServer3's fRun
  work,         \* JSON-RPC request objects of the request being served
  idx,          \* index of the request object being executed
  isBatch,      \* the body was a JSON array (JSONRPCExecBatch)
  csMain,       \* holder of cs_main
  csWallet,     \* holder of pwalletMain->cs_wallet
  nThreads,     \* vnThreadsRunning[THREAD_RPCHANDLER]
  deleted,      \* times each AcceptedConnection object was deleted
  accepted,     \* the acceptor has completed an accept for the connection
  acceptorOpen, \* the listening socket is open
  listening,    \* ThreadRPCServer2 is still in its run_one() loop
  fShutdown,    \* the process-wide shutdown flag
  shutdownReq,  \* StartShutdown() was called
  warning,      \* GetWarnings("rpc") is not empty
  nodePc,       \* the node thread: "idle", "main" (holds cs_main)
  nodeRounds,
  cstate,       \* client side of each connection
  sent,         \* requests sent on the connection
  inbox,        \* request sent by the client, not yet read by the server
  outbox,       \* response written by the server, not yet read by client
  lastKeep      \* Connection header of the last response on the connection

handlerVars == <<hpc, fRun, work, idx, isBatch, nThreads, deleted, lastKeep>>
lockVars    == <<csMain, csWallet>>
serverVars  == <<accepted, acceptorOpen, listening, fShutdown, shutdownReq>>
nodeVars    == <<warning, nodePc, nodeRounds>>
clientVars  == <<cstate, sent, inbox, outbox>>
vars == <<handlerVars, lockVars, serverVars, nodeVars, clientVars>>

-----------------------------------------------------------------------------
(* Data                                                                    *)

\* ThreadRPCServer3's handler states; "none" before the thread exists.
HandlerPcs == {"none", "start", "top", "read", "check", "lockMain",
               "lockWallet", "run", "exit", "done"}

\* Threads counted in vnThreadsRunning[THREAD_RPCHANDLER].
Running == {"top", "read", "check", "lockMain", "lockWallet", "run", "exit"}

Reply == [status : {200, 400, 401, 403, 404, 500}, keep : BOOLEAN]

-----------------------------------------------------------------------------
(* HTTP and JSON-RPC helpers                                               *)

\* mapHeaders["connection"] == "close" after ReadHTTP: an absent or other
\* Connection header defaults to close only for HTTP/1.0; when the body is
\* too long ReadHTTP returns before it applies that default.
ConnClose(r) ==
  IF r.oversize
    THEN r.hdr = "close"
    ELSE \/ r.hdr = "close"
         \/ r.hdr \notin {"close", "keep-alive"} /\ r.proto < 1

\* The body ThreadRPCServer3 parses: ReadHTTP leaves it empty when
\* Content-Length exceeds MAX_SIZE, and read_string fails on it.
BodyOf(r) == IF r.oversize THEN [kind |-> "invalid"] ELSE r.body

\* ErrorReply: the HTTP status for a JSON-RPC error code.
ErrorStatus(code) ==
  IF code = "INVALID_REQUEST" THEN 400
  ELSE IF code = "METHOD_NOT_FOUND" THEN 404
  ELSE 500

SafeModeBlocks(m) == warning /\ ~DisableSafeMode /\ m \notin OkSafeMode

\* A client notices EOF: the server deleted the connection, or the
\* listening socket was closed while the connection sat in the backlog.
PeerGone(c) == deleted[c] > 0 \/ (~acceptorOpen /\ ~accepted[c])

\* The server writes a response; it is lost if the client has gone.
Write(c, rep) ==
  /\ outbox' = IF cstate[c] = "closed" THEN outbox
               ELSE [outbox EXCEPT ![c] = rep]
  /\ lastKeep' = [lastKeep EXCEPT ![c] = IF rep.keep THEN "keep-alive"
                                                       ELSE "close"]

ErrorReply(c, code) == Write(c, [status |-> ErrorStatus(code), keep |-> FALSE])

\* Fault variant: the scope of LOCK2 releases cs_main but not cs_wallet.
ReleaseLocksMainOnly(c) ==
  /\ csMain' = IF csMain = c THEN None ELSE csMain
  /\ UNCHANGED csWallet

ReleaseLocks(c) ==
  /\ csMain' = IF csMain = c THEN None ELSE csMain
  /\ csWallet' = IF csWallet = c THEN None ELSE csWallet

-----------------------------------------------------------------------------
(* The listener thread                                                     *)

\* ThreadRPCServer2's loop: io_service.run_one() has returned; the loop
\* ends when fShutdown is set and StopRequests() closes the acceptors.
RunOneReturns ==
  /\ listening' = ~fShutdown
  /\ acceptorOpen' = ~fShutdown

\* RPCAcceptHandler runs in io_service.run_one(): it re-arms the accept
\* (the acceptor is open), refuses peers ClientAllowed() rejects (with a
\* 403 unless SSL is on), else starts ThreadRPCServer3, deleting the
\* connection if NewThread fails.  Back in ThreadRPCServer2, run_one()
\* returns and the loop ends if fShutdown is set; StopRequests() then
\* closes the acceptor.
Accept(c) ==
  /\ listening /\ acceptorOpen
  /\ cstate[c] # "unborn" /\ ~accepted[c]
  /\ accepted' = [accepted EXCEPT ![c] = TRUE]
  /\ \/ /\ c \notin Allowed
        /\ IF UseSSL \/ cstate[c] = "closed" THEN UNCHANGED outbox
           ELSE outbox' = [outbox EXCEPT ![c] = [status |-> 403, keep |-> FALSE]]
        /\ deleted' = [deleted EXCEPT ![c] = @ + 1]
        /\ UNCHANGED hpc
     \/ /\ c \in Allowed
        /\ hpc' = [hpc EXCEPT ![c] = "start"]
        /\ UNCHANGED <<deleted, outbox>>
     \/ /\ c \in Allowed    \* NewThread failed
        /\ deleted' = [deleted EXCEPT ![c] = @ + 1]
        /\ UNCHANGED <<hpc, outbox>>
  /\ RunOneReturns
  /\ UNCHANGED <<fRun, work, idx, isBatch, nThreads, lastKeep, lockVars,
                 fShutdown, shutdownReq, nodeVars, cstate, sent, inbox>>

-----------------------------------------------------------------------------
(* Handler threads: ThreadRPCServer3                                       *)

HandlerStart(c) ==
  /\ hpc[c] = "start"
  /\ nThreads' = nThreads + 1
  /\ hpc' = [hpc EXCEPT ![c] = "top"]
  /\ UNCHANGED <<fRun, work, idx, isBatch, deleted, lastKeep, lockVars,
                 serverVars, nodeVars, clientVars>>

\* Fault variant: the shutdown branch deletes the connection but has no
\* return and goes on to read from it.
HandlerTopNoReturn(c) ==
  /\ hpc[c] = "top"
  /\ hpc' = [hpc EXCEPT ![c] = "read"]
  /\ IF fShutdown \/ ~fRun[c]
       THEN /\ deleted' = [deleted EXCEPT ![c] = @ + 1]
            /\ nThreads' = nThreads - 1
       ELSE UNCHANGED <<deleted, nThreads>>
  /\ UNCHANGED <<fRun, work, idx, isBatch, lastKeep, lockVars, serverVars,
                 nodeVars, clientVars>>

\* Top of the loop: on shutdown or after the last request, close the
\* connection, delete it, count the thread out and return.
HandlerTop(c) ==
  /\ hpc[c] = "top"
  /\ IF fShutdown \/ ~fRun[c]
       THEN /\ hpc' = [hpc EXCEPT ![c] = "done"]
            /\ deleted' = [deleted EXCEPT ![c] = @ + 1]
            /\ nThreads' = nThreads - 1
       ELSE /\ hpc' = [hpc EXCEPT ![c] = "read"]
            /\ UNCHANGED <<deleted, nThreads>>
  /\ UNCHANGED <<fRun, work, idx, isBatch, lastKeep, lockVars, serverVars,
                 nodeVars, clientVars>>

\* ReadHTTP blocks until a request arrives or the peer closes; the rest of
\* the step is local: the authorization checks (a peer that closed has no
\* Authorization header), Connection: close, and read_string with the
\* top-level shape of the body.
HandlerRead(c) ==
  /\ hpc[c] = "read"
  /\ inbox[c] # None \/ cstate[c] = "closed"
  /\ inbox' = [inbox EXCEPT ![c] = None]
  /\ IF inbox[c] = None \/ inbox[c].auth # "ok"
       THEN /\ Write(c, [status |-> 401, keep |-> FALSE])
            /\ hpc' = [hpc EXCEPT ![c] = "exit"]
            /\ UNCHANGED <<fRun, work, idx, isBatch>>
       ELSE LET r == inbox[c]
                body == BodyOf(r)
            IN /\ fRun' = [fRun EXCEPT ![c] = @ /\ ~ConnClose(r)]
               /\ \/ /\ body.kind \in {"invalid", "scalar"}
                     /\ ErrorReply(c, "PARSE_ERROR")
                     /\ hpc' = [hpc EXCEPT ![c] = "exit"]
                     /\ UNCHANGED <<work, idx, isBatch>>
                  \/ /\ body.kind = "object" /\ ~body.elem.valid
                     /\ ErrorReply(c, "INVALID_REQUEST")
                     /\ hpc' = [hpc EXCEPT ![c] = "exit"]
                     /\ UNCHANGED <<work, idx, isBatch>>
                  \/ /\ body.kind = "object" /\ body.elem.valid
                     /\ work' = [work EXCEPT ![c] = <<body.elem>>]
                     /\ isBatch' = [isBatch EXCEPT ![c] = FALSE]
                     /\ idx' = [idx EXCEPT ![c] = 1]
                     /\ hpc' = [hpc EXCEPT ![c] = "check"]
                     /\ UNCHANGED <<outbox, lastKeep>>
                  \/ /\ body.kind = "batch"
                     /\ work' = [work EXCEPT ![c] = body.elems]
                     /\ isBatch' = [isBatch EXCEPT ![c] = TRUE]
                     /\ idx' = [idx EXCEPT ![c] = 1]
                     /\ hpc' = [hpc EXCEPT ![c] = "check"]
                     /\ UNCHANGED <<outbox, lastKeep>>
  /\ UNCHANGED <<nThreads, deleted, lockVars, serverVars, nodeVars, cstate,
                 sent>>

\* The JSON-RPC request object being executed.
Cur(c) == work[c][idx[c]]

\* The stop command succeeded: it has called StartShutdown().
StopsServer(m, ok) == ok /\ m = StopMethod

\* JSONRPCExecBatch moves on to the next object of the array.
NextObject(c) ==
  /\ idx' = [idx EXCEPT ![c] = @ + 1]
  /\ hpc' = [hpc EXCEPT ![c] = "check"]
  /\ UNCHANGED <<outbox, lastKeep>>

\* An error thrown while executing an object: inside a batch
\* JSONRPCExecOne turns it into that object's error entry; for a single
\* request ThreadRPCServer3 sends ErrorReply and leaves its loop.
Fail(c, code) ==
  IF isBatch[c]
    THEN NextObject(c)
    ELSE /\ ErrorReply(c, code)
         /\ hpc' = [hpc EXCEPT ![c] = "exit"]
         /\ UNCHANGED idx

\* JSONRequest::parse, then CRPCTable::execute up to the lock: method
\* lookup and the safe-mode check against GetWarnings("rpc").
HandlerExecute(c) ==
  /\ hpc[c] = "check"
  /\ idx[c] <= Len(work[c])
  /\ LET e == Cur(c) IN
       \/ /\ ~e.valid
          /\ Fail(c, "INVALID_REQUEST")
       \/ /\ e.valid /\ e.method \notin Methods
          /\ Fail(c, "METHOD_NOT_FOUND")
       \/ /\ e.valid /\ e.method \in Methods /\ SafeModeBlocks(e.method)
          /\ Fail(c, "FORBIDDEN_BY_SAFE_MODE")
       \/ /\ e.valid /\ e.method \in Methods /\ ~SafeModeBlocks(e.method)
          /\ hpc' = [hpc EXCEPT ![c] = IF e.method \in Unlocked THEN "run"
                                                               ELSE "lockMain"]
          /\ UNCHANGED <<idx, outbox, lastKeep>>
  /\ UNCHANGED <<fRun, work, isBatch, nThreads, deleted, lockVars,
                 serverVars, nodeVars, cstate, sent, inbox>>

\* The end of a batch: its replies are written in one 200 response.
HandlerBatchDone(c) ==
  /\ hpc[c] = "check"
  /\ idx[c] > Len(work[c])
  /\ Write(c, [status |-> 200, keep |-> fRun[c]])
  /\ hpc' = [hpc EXCEPT ![c] = "top"]
  /\ UNCHANGED <<fRun, work, idx, isBatch, nThreads, deleted, lockVars,
                 serverVars, nodeVars, cstate, sent, inbox>>

\* LOCK2(cs_main, pwalletMain->cs_wallet), one mutex at a time.
HandlerLockMain(c) ==
  /\ hpc[c] = "lockMain"
  /\ csMain = None
  /\ csMain' = c
  /\ hpc' = [hpc EXCEPT ![c] = "lockWallet"]
  /\ UNCHANGED <<fRun, work, idx, isBatch, nThreads, deleted, lastKeep,
                 csWallet, serverVars, nodeVars, clientVars>>

HandlerLockWallet(c) ==
  /\ hpc[c] = "lockWallet"
  /\ csWallet = None
  /\ csWallet' = c
  /\ hpc' = [hpc EXCEPT ![c] = "run"]
  /\ UNCHANGED <<fRun, work, idx, isBatch, nThreads, deleted, lastKeep,
                 csMain, serverVars, nodeVars, clientVars>>

\* Fault variant: the 200 reply always says keep-alive instead of fRun.
HandlerRunReplyKeepAlive(c) ==
  /\ hpc[c] = "run"
  /\ \E ok \in BOOLEAN :
       /\ shutdownReq' = (shutdownReq \/ StopsServer(Cur(c).method, ok))
       /\ ReleaseLocks(c)
       /\ \/ /\ isBatch[c]
             /\ NextObject(c)
          \/ /\ ~isBatch[c] /\ ok
             /\ Write(c, [status |-> 200, keep |-> TRUE])
             /\ hpc' = [hpc EXCEPT ![c] = "top"]
             /\ UNCHANGED idx
          \/ /\ ~isBatch[c] /\ ~ok
             /\ ErrorReply(c, "MISC_ERROR")
             /\ hpc' = [hpc EXCEPT ![c] = "exit"]
             /\ UNCHANGED idx
  /\ UNCHANGED <<fRun, work, isBatch, nThreads, deleted, accepted,
                 acceptorOpen, listening, fShutdown, nodeVars, cstate, sent,
                 inbox>>

\* The command's actor runs and succeeds or throws; "stop" calls
\* StartShutdown().  The locks are released, then a single request gets
\* its HTTP 200 reply (Connection per fRun) or an ErrorReply and the loop
\* is left; a batch goes on with its next object.
HandlerRun(c) ==
  /\ hpc[c] = "run"
  /\ \E ok \in BOOLEAN :
       /\ shutdownReq' = (shutdownReq \/ StopsServer(Cur(c).method, ok))
       /\ ReleaseLocks(c)
       /\ \/ /\ isBatch[c]
             /\ NextObject(c)
          \/ /\ ~isBatch[c] /\ ok
             /\ Write(c, [status |-> 200, keep |-> fRun[c]])
             /\ hpc' = [hpc EXCEPT ![c] = "top"]
             /\ UNCHANGED idx
          \/ /\ ~isBatch[c] /\ ~ok
             /\ ErrorReply(c, "MISC_ERROR")
             /\ hpc' = [hpc EXCEPT ![c] = "exit"]
             /\ UNCHANGED idx
  /\ UNCHANGED <<fRun, work, isBatch, nThreads, deleted, accepted,
                 acceptorOpen, listening, fShutdown, nodeVars, cstate, sent,
                 inbox>>

\* Fault variant: the exit after a break forgets the decrement.
HandlerExitNoDecrement(c) ==
  /\ hpc[c] = "exit"
  /\ deleted' = [deleted EXCEPT ![c] = @ + 1]
  /\ hpc' = [hpc EXCEPT ![c] = "done"]
  /\ UNCHANGED <<fRun, work, idx, isBatch, nThreads, lastKeep, lockVars,
                 serverVars, nodeVars, clientVars>>

\* Fault variant: the exit after a break decrements the count twice.
HandlerExitDoubleDecrement(c) ==
  /\ hpc[c] = "exit"
  /\ deleted' = [deleted EXCEPT ![c] = @ + 1]
  /\ nThreads' = nThreads - 2
  /\ hpc' = [hpc EXCEPT ![c] = "done"]
  /\ UNCHANGED <<fRun, work, idx, isBatch, lastKeep, lockVars, serverVars,
                 nodeVars, clientVars>>

\* After a break: delete the connection and count the thread out.
HandlerExit(c) ==
  /\ hpc[c] = "exit"
  /\ deleted' = [deleted EXCEPT ![c] = @ + 1]
  /\ nThreads' = nThreads - 1
  /\ hpc' = [hpc EXCEPT ![c] = "done"]
  /\ UNCHANGED <<fRun, work, idx, isBatch, lastKeep, lockVars, serverVars,
                 nodeVars, clientVars>>

-----------------------------------------------------------------------------
(* Environment: shutdown, the node thread, clients                         *)

\* StartShutdown() (the stop command, or a signal) leads to fShutdown.
ShutdownSignal ==
  /\ ~shutdownReq
  /\ shutdownReq' = TRUE
  /\ UNCHANGED <<handlerVars, lockVars, accepted, acceptorOpen, listening,
                 fShutdown, nodeVars, clientVars>>

BeginShutdown ==
  /\ shutdownReq /\ ~fShutdown
  /\ fShutdown' = TRUE
  /\ UNCHANGED <<handlerVars, lockVars, accepted, acceptorOpen, listening,
                 shutdownReq, nodeVars, clientVars>>

\* The node's own thread takes cs_main then cs_wallet (the same order as
\* LOCK2) and, while holding them, may raise or clear a warning.
NodeLockMain ==
  /\ nodePc = "idle" /\ nodeRounds < NodeRounds
  /\ csMain = None
  /\ csMain' = Node
  /\ nodePc' = "main"
  /\ UNCHANGED <<handlerVars, csWallet, serverVars, warning, nodeRounds,
                 clientVars>>

NodeLockWallet ==
  /\ nodePc = "main"
  /\ csWallet = None
  /\ csWallet' = Node
  /\ nodePc' = "wallet"
  /\ UNCHANGED <<handlerVars, csMain, serverVars, warning, nodeRounds,
                 clientVars>>

NodeWork ==
  /\ nodePc = "wallet"
  /\ warning' \in BOOLEAN
  /\ csMain' = None /\ csWallet' = None
  /\ nodePc' = "idle"
  /\ nodeRounds' = nodeRounds + 1
  /\ UNCHANGED <<handlerVars, serverVars, clientVars>>

ClientConnect(c) ==
  /\ cstate[c] = "unborn"
  /\ cstate' = [cstate EXCEPT ![c] = "idle"]
  /\ UNCHANGED <<handlerVars, lockVars, serverVars, nodeVars, sent, inbox,
                 outbox>>

ClientSend(c) ==
  /\ cstate[c] = "idle" /\ outbox[c] = None /\ ~PeerGone(c)
  /\ sent[c] < MaxRequests
  /\ \E r \in Requests : inbox' = [inbox EXCEPT ![c] = r]
  /\ cstate' = [cstate EXCEPT ![c] = "waiting"]
  /\ sent' = [sent EXCEPT ![c] = @ + 1]
  /\ UNCHANGED <<handlerVars, lockVars, serverVars, nodeVars, outbox>>

ClientRecv(c) ==
  /\ outbox[c] # None
  /\ outbox' = [outbox EXCEPT ![c] = None]
  /\ cstate' = [cstate EXCEPT ![c] = IF @ = "waiting" THEN "idle" ELSE @]
  /\ UNCHANGED <<handlerVars, lockVars, serverVars, nodeVars, sent, inbox>>

ClientClose(c) ==
  /\ cstate[c] = "idle"
  /\ cstate' = [cstate EXCEPT ![c] = "closed"]
  /\ UNCHANGED <<handlerVars, lockVars, serverVars, nodeVars, sent, inbox,
                 outbox>>

\* The client reads EOF or a reset.
ClientEOF(c) ==
  /\ cstate[c] \in {"idle", "waiting"} /\ outbox[c] = None /\ PeerGone(c)
  /\ cstate' = [cstate EXCEPT ![c] = "closed"]
  /\ UNCHANGED <<handlerVars, lockVars, serverVars, nodeVars, sent, inbox,
                 outbox>>

-----------------------------------------------------------------------------

Init ==
  /\ hpc = [c \in Conns |-> "none"]
  /\ fRun = [c \in Conns |-> TRUE]
  /\ work = [c \in Conns |-> <<>>]
  /\ idx = [c \in Conns |-> 1]
  /\ isBatch = [c \in Conns |-> FALSE]
  /\ csMain = None /\ csWallet = None
  /\ nThreads = 0
  /\ deleted = [c \in Conns |-> 0]
  /\ accepted = [c \in Conns |-> FALSE]
  /\ acceptorOpen = TRUE /\ listening = TRUE
  /\ fShutdown = FALSE /\ shutdownReq = FALSE
  /\ warning = FALSE /\ nodePc = "idle" /\ nodeRounds = 0
  /\ cstate = [c \in Conns |-> "unborn"]
  /\ sent = [c \in Conns |-> 0]
  /\ inbox = [c \in Conns |-> None]
  /\ outbox = [c \in Conns |-> None]
  /\ lastKeep = [c \in Conns |-> "none"]

HandlerStep(c) ==
  \/ HandlerStart(c) \/ HandlerTop(c) \/ HandlerRead(c)
  \/ HandlerExecute(c) \/ HandlerBatchDone(c) \/ HandlerLockMain(c)
  \/ HandlerLockWallet(c) \/ HandlerRun(c) \/ HandlerExit(c)

ClientStep(c) ==
  \/ ClientConnect(c) \/ ClientSend(c) \/ ClientRecv(c)
  \/ ClientClose(c) \/ ClientEOF(c)

Next ==
  \/ \E c \in Conns : Accept(c) \/ HandlerStep(c) \/ ClientStep(c)
  \/ ShutdownSignal \/ BeginShutdown
  \/ NodeLockMain \/ NodeLockWallet \/ NodeWork

\* Threads are scheduled (each handler, the node thread, the thread that
\* runs Shutdown()); the kernel completes a pending accept while the
\* listener waits in run_one(); a client blocked in CallRPC's read gets
\* its response or EOF.  Clients are not obliged to connect, send or close.
Fairness ==
  /\ \A c \in Conns : WF_vars(HandlerStep(c)) /\ WF_vars(Accept(c))
  /\ \A c \in Conns : WF_vars(ClientRecv(c)) /\ WF_vars(ClientEOF(c))
  /\ WF_vars(NodeLockMain \/ NodeLockWallet \/ NodeWork)
  /\ WF_vars(BeginShutdown)

Spec == Init /\ [][Next]_vars /\ Fairness

-----------------------------------------------------------------------------
(* Properties                                                              *)

TypeOK ==
  /\ hpc \in [Conns -> HandlerPcs]
  /\ fRun \in [Conns -> BOOLEAN]
  /\ idx \in [Conns -> Nat] /\ isBatch \in [Conns -> BOOLEAN]
  /\ csMain \in Conns \cup {Node, None} /\ csWallet \in Conns \cup {Node, None}
  /\ nThreads \in Nat /\ deleted \in [Conns -> Nat]
  /\ accepted \in [Conns -> BOOLEAN]
  /\ {acceptorOpen, listening, fShutdown, shutdownReq, warning} \subseteq BOOLEAN
  /\ nodePc \in {"idle", "main", "wallet"} /\ nodeRounds \in 0..NodeRounds
  /\ cstate \in [Conns -> {"unborn", "idle", "waiting", "closed"}]
  /\ sent \in [Conns -> 0..MaxRequests]
  /\ inbox \in [Conns -> Requests \cup {None}]
  /\ outbox \in [Conns -> Reply \cup {None}]
  /\ lastKeep \in [Conns -> {"none", "keep-alive", "close"}]

\* vnThreadsRunning[THREAD_RPCHANDLER] counts exactly the handler threads
\* that have started and not yet left ThreadRPCServer3, over all three of
\* its exits (shutdown, Connection: close, break after an error).
ThreadCountAccurate ==
  nThreads = Cardinality({c \in Conns : hpc[c] \in Running})

\* Every AcceptedConnection is deleted at most once, and never while its
\* handler thread can still use it (accept handler or handler thread).
ConnDeletedOnce ==
  \A c \in Conns :
    /\ deleted[c] <= 1
    /\ deleted[c] = 1 => hpc[c] \in {"none", "done"}

\* The Connection header the server sends is the truth: a handler waits
\* for another request only after announcing keep-alive, and a handler
\* that announced keep-alive closes the connection only for shutdown.
KeepAliveHonoured ==
  \A c \in Conns :
    /\ hpc[c] = "read" => lastKeep[c] # "close"
    /\ hpc[c] = "done" /\ lastKeep[c] = "keep-alive" => fShutdown

\* Every client waiting in CallRPC gets a response or sees the
\* connection closed.
RequestsAnswered ==
  \A c \in Conns : cstate[c] = "waiting" ~> cstate[c] # "waiting"
=============================================================================
