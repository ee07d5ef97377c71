---------------------------- MODULE MC_RPCServer ----------------------------
(***************************************************************************)
(* Instantiates RPCServer for TLC.  Methods stand for rows of vRPCCommands *)
(* with each combination of the okSafeMode / unlocked flags:               *)
(*   getblockcount  (safe, locked)    sendtoaddress  (unsafe, locked)      *)
(*   stop           (safe, unlocked)  reservebalance (unsafe, unlocked)    *)
(* and "bogus" is a method the table does not have.                       *)
(***************************************************************************)
EXTENDS RPCServer, PeerFilter, TLC

CONSTANTS c1, c2, getblockcount, sendtoaddress, stop, reservebalance, bogus

MCConns == {c1, c2}
MCMethods == {getblockcount, sendtoaddress, stop, reservebalance}
MCOkSafeMode == {getblockcount, stop}
MCUnlocked == {stop, reservebalance}

Obj(m) == [valid |-> TRUE, method |-> m]
BadObj == [valid |-> FALSE, method |-> bogus]

\* Peer addresses: IPv4 over {0, 1, 12, 127}, their IPv4-mapped and
\* IPv4-compatible IPv6 forms (which include ::, ::1 and ::ffff:0.0.0.0),
\* and two global IPv6 addresses, one with two equal zero runs.
Octets == {0, 1, 12, 127}
MCV4 == {V4(<<a, b, c, d>>) : a, b, c, d \in Octets}
MCAddresses ==
  MCV4 \cup {V6(Zeros(10) \o <<255, 255>> \o a.oct) : a \in MCV4}
       \cup {V6(Zeros(12) \o a.oct) : a \in MCV4}
       \cup {V6(<<32, 1, 13, 184>> \o Zeros(11) \o <<1>>),
            V6(<<32, 1, 13, 184, 0, 0, 0, 0, 0, 1, 0, 0, 0, 0, 0, 12>>)}

\* -rpcallowip entries: 12.*, *.1, 2001:db8::? and 1?.0.0.*
MCPatterns ==
  { <<"1", "2", ".", "*">>, <<"*", ".", "1">>,
    <<"2", "0", "0", "1", ":", "d", "b", "8", ":", ":", "?">>,
    <<"1", "?", ".", "0", ".", "0", ".", "*">> }

MCAllowIP == {<<"1", "2", ".", "*">>}

\* Safety runs: c1 is ::ffff:127.0.0.1, c2 is 12.0.0.1; both pass.
MCPeerAddrBoth == [c \in MCConns |->
  IF c = c1 THEN V6(Zeros(10) \o <<255, 255, 127, 0, 0, 1>>) ELSE V4(<<12, 0, 0, 1>>)]
\* Liveness run: c1 is 127.0.1.1, c2 is 1.0.0.12, which no entry matches.
MCPeerAddrOne == [c \in MCConns |->
  IF c = c1 THEN V4(<<127, 0, 1, 1>>) ELSE V4(<<1, 0, 0, 12>>)]

\* The peers RPCAcceptHandler lets through, as literals (TLC would apply
\* the filter again at every use of Allowed), held to ClientAllowed's
\* verdict on their addresses by the ASSUME.
MCAllowedBoth == {c1, c2}
MCAllowedOne == {c1}
ASSUME /\ MCAllowedBoth = {c \in MCConns : ClientAllowed(MCPeerAddrBoth[c], MCAllowIP)}
       /\ MCAllowedOne = {c \in MCConns : ClientAllowed(MCPeerAddrOne[c], MCAllowIP)}

\* An authorized HTTP/1.1 request without a Connection header.
Http(body) ==
  [auth |-> "ok", hdr |-> "none", proto |-> 1, oversize |-> FALSE,
   body |-> body]

Single(m) == [kind |-> "object", elem |-> Obj(m)]

\* Requests of every class ThreadRPCServer3 distinguishes.
MCRequests ==
  { Http(Single(sendtoaddress)),
    [Http(Single(getblockcount)) EXCEPT !.hdr = "close"],
    [Http(Single(stop)) EXCEPT !.proto = 0],
    Http(Single(bogus)),
    Http([kind |-> "batch", elems |-> <<Obj(reservebalance), BadObj>>]),
    [Http([kind |-> "object", elem |-> BadObj]) EXCEPT !.hdr = "keep-alive"],
    [Http([kind |-> "scalar"]) EXCEPT !.oversize = TRUE],
    [Http(Single(getblockcount)) EXCEPT !.auth = "bad"] }

\* Smaller set for the liveness runs.
MCLiveRequests ==
  { Http(Single(sendtoaddress)),
    [Http(Single(stop)) EXCEPT !.hdr = "close"],
    Http([kind |-> "batch", elems |-> <<Obj(getblockcount), Obj(bogus)>>]),
    [Http([kind |-> "invalid"]) EXCEPT !.auth = "none"] }

\* ClientAllowed() accepts exactly the peers the specification admits: every
\* loopback form (IPv4 127.0.0.0/8, ::1, and their IPv4-mapped and
\* IPv4-compatible IPv6 forms) whatever the allow-list, and any other peer
\* whose address text matches an allow-list glob.  The allow-list is read
\* from the start-up arguments, so it holds in every state in which the
\* acceptor is open.
ClientAllowedAsSpecified == acceptorOpen => FilterAsSpecified

\* The two connections are interchangeable when both peers are allowed.
ConnSymmetry == Permutations(MCConns)
=============================================================================
