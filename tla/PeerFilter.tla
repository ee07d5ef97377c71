----------------------------- MODULE PeerFilter -----------------------------
(***************************************************************************)
(* ClientAllowed() of curecoinrpc.cpp: the peer filter RPCAcceptHandler    *)
(* applies before a connection is served.  An IPv4-compatible or           *)
(* IPv4-mapped IPv6 address is judged as its IPv4 address; the IPv4 and    *)
(* IPv6 loopback addresses and all of 127.0.0.0/8 are allowed; any other   *)
(* address is allowed when its text (address::to_string()) matches one of  *)
(* the -rpcallowip patterns under WildcardMatch.                           *)
(*                                                                         *)
(* An address is a record: v6 tells the family and oct holds its bytes,    *)
(* most significant first (4 of them, or 16).  Text is a sequence of       *)
(* one-character strings, so that patterns can be matched character by     *)
(* character as WildcardMatch does.                                        *)
(***************************************************************************)
EXTENDS Integers, Sequences
LOCAL INSTANCE SequencesExt
LOCAL INSTANCE Bitwise

CONSTANTS
  Addresses,   \* the peer addresses the filter is checked over
  Patterns     \* candidate -rpcallowip entries, as character sequences

V4(o) == [v6 |-> FALSE, oct |-> o]
V6(b) == [v6 |-> TRUE, oct |-> b]

Zeros(n) == [i \in 1..n |-> 0]

\* address_v4::loopback() and address_v6::loopback().
V4Loopback == V4(<<127, 0, 0, 1>>)
V6Loopback == V6(Zeros(15) \o <<1>>)

-----------------------------------------------------------------------------
(* boost::asio::ip address operations                                      *)

\* address_v6::is_v4_compatible(): twelve zero bytes, and not :: or ::1.
IsV4Compatible(b) ==
  /\ SubSeq(b, 1, 12) = Zeros(12)
  /\ ~(SubSeq(b, 13, 15) = Zeros(3) /\ b[16] \in {0, 1})

\* address_v6::is_v4_mapped(): ten zero bytes, then 0xff 0xff.
IsV4Mapped(b) == SubSeq(b, 1, 10) = Zeros(10) /\ b[11] = 255 /\ b[12] = 255

\* address_v6::to_v4(): the last four bytes.
ToV4(a) == V4(SubSeq(a.oct, 13, 16))

\* to_ulong() & mask, computed byte by byte (both big-endian), since the
\* 32-bit value does not fit TLC's integers.
MaskULong(o, mask) == [i \in 1..4 |-> o[i] & mask[i]]

Digit == <<"0", "1", "2", "3", "4", "5", "6", "7", "8", "9",
           "a", "b", "c", "d", "e", "f">>

\* A number in base 10 or 16, without leading zeros.
RECURSIVE InBase(_, _)
InBase(n, base) ==
  IF n < base THEN <<Digit[n + 1]>>
  ELSE InBase(n \div base, base) \o <<Digit[(n % base) + 1]>>

RECURSIVE Join(_, _)
Join(parts, sep) ==
  IF Len(parts) <= 1 THEN FlattenSeq(parts)
  ELSE Head(parts) \o sep \o Join(Tail(parts), sep)

\* inet_ntop for IPv6: eight 16-bit groups in hex, the longest run of at
\* least two zero groups (the first of equal ones) written as "::".  The
\* embedded-IPv4 forms are left out: only addresses that are neither
\* IPv4-compatible nor IPv4-mapped reach to_string().  Peers with a scope
\* id (link-local) are not among the addresses checked.
V6Text(b) ==
  LET g == [i \in 1..8 |-> b[2 * i - 1] * 256 + b[2 * i]]
      runs == {r \in (1..8) \X (1..8) :
                 r[1] <= r[2] /\ \A i \in r[1]..r[2] : g[i] = 0}
      len(r) == r[2] - r[1] + 1
      best == CHOOSE r \in runs : \A q \in runs :
                len(q) < len(r) \/ (len(q) = len(r) /\ r[1] <= q[1])
      hex(s) == [i \in DOMAIN s |-> InBase(s[i], 16)]
  IN IF runs = {} \/ len(best) < 2 THEN Join(hex(g), <<":">>)
     ELSE Join(hex(SubSeq(g, 1, best[1] - 1)), <<":">>) \o <<":", ":">>
            \o Join(hex(SubSeq(g, best[2] + 1, 8)), <<":">>)

\* address::to_string(): dotted decimal for IPv4.
AddressToString(a) ==
  IF a.v6 THEN V6Text(a.oct)
  ELSE Join([i \in 1..4 |-> InBase(a.oct[i], 10)], <<".">>)

-----------------------------------------------------------------------------
(* util.cpp WildcardMatch: '*' matches any run, '?' any one character.     *)

RECURSIVE WildcardMatch(_, _)
WildcardMatch(psz, mask) ==
  IF mask = <<>> THEN psz = <<>>
  ELSE IF Head(mask) = "*"
    THEN \/ WildcardMatch(psz, Tail(mask))
         \/ psz # <<>> /\ WildcardMatch(Tail(psz), mask)
  ELSE /\ psz # <<>>
       /\ Head(mask) \in {"?", Head(psz)}
       /\ WildcardMatch(Tail(psz), Tail(mask))

-----------------------------------------------------------------------------
(* ClientAllowed                                                           *)

\* Fault variant: only IPv4-mapped addresses are turned into IPv4.
RECURSIVE ClientAllowedMappedOnly(_, _)
ClientAllowedMappedOnly(address, vAllow) ==
  IF address.v6 /\ IsV4Mapped(address.oct)
    THEN ClientAllowedMappedOnly(ToV4(address), vAllow)
  ELSE \/ address = V4Loopback
       \/ address = V6Loopback
       \/ ~address.v6 /\ MaskULong(address.oct, <<255, 0, 0, 0>>) = <<127, 0, 0, 0>>
       \/ \E strAllow \in vAllow : WildcardMatch(AddressToString(address), strAllow)

\* IPv4-compatible and IPv4-mapped addresses are judged as IPv4; the
\* loopback addresses and 127.0.0.0/8 (to_ulong() & 0xff000000 equal to
\* 0x7f000000, here as bytes) are allowed; else the address text must match an entry of
\* mapMultiArgs["-rpcallowip"] (vAllow).
RECURSIVE ClientAllowed(_, _)
ClientAllowed(address, vAllow) ==
  IF address.v6 /\ (IsV4Compatible(address.oct) \/ IsV4Mapped(address.oct))
    THEN ClientAllowed(ToV4(address), vAllow)
  ELSE \/ address = V4Loopback
       \/ address = V6Loopback
       \/ ~address.v6 /\ MaskULong(address.oct, <<255, 0, 0, 0>>) = <<127, 0, 0, 0>>
       \/ \E strAllow \in vAllow : WildcardMatch(AddressToString(address), strAllow)

-----------------------------------------------------------------------------
(* The filter as the specification states it                              *)

\* The IPv4 address an IPv6 address stands for: ::ffff:a.b.c.d and
\* ::a.b.c.d, where the latter is neither the unspecified :: nor ::1.
V4Form(a) ==
  IF /\ a.v6
     /\ SubSeq(a.oct, 1, 12) \in {Zeros(12), Zeros(10) \o <<255, 255>>}
     /\ a \notin {V6Loopback, V6(Zeros(16))}
    THEN V4(SubSeq(a.oct, 13, 16))
  ELSE a

\* Glob matching by the set of pattern positions reachable after each
\* character: a '*' may be skipped, or consume a character and stay.
GlobMatch(s, p) ==
  LET m == Len(p)
      skip(S) == {k \in 1..m + 1 :
                    \E j \in S : j <= k /\ \A i \in j..k - 1 : p[i] = "*"}
      step(S, ch) == skip({j + 1 : j \in {j \in S : j <= m /\ p[j] \in {"?", ch}}}
                          \cup {j \in S : j <= m /\ p[j] = "*"})
  IN m + 1 \in FoldLeft(step, skip({1}), s)

\* Loopback: 127.0.0.0/8 and ::1, after mapping IPv4 forms to IPv4.
SpecAllowed(a, allow) ==
  LET n == V4Form(a) IN
    \/ ~n.v6 /\ n.oct[1] = 127
    \/ n = V6Loopback
    \/ \E p \in allow : GlobMatch(AddressToString(n), p)

\* ClientAllowed() and SpecAllowed() agree on every address and every
\* allow-list drawn from the constants.
FilterAsSpecified ==
  \A a \in Addresses, allow \in SUBSET Patterns :
    ClientAllowed(a, allow) = SpecAllowed(a, allow)
=============================================================================
