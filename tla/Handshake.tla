----------------------------- MODULE Handshake -----------------------------
(***************************************************************************)
(* socks5Dialer.DialContext and the proxy it dials, byte by byte as far as *)
(* their number goes: what a message says is in said, how much of what the *)
(* proxy sent is still to be read is a count.  Bytes arrive in pieces of   *)
(* any size, and the target's first bytes may follow the proxy's last      *)
(* message at once.                                                        *)
(*                                                                         *)
(* The proxy is external.  It answers in the form of RFC 1928 and 1929 or  *)
(* closes the connection; an answer with a wrong version is one that is    *)
(* not ok.                                                                 *)
(***************************************************************************)
EXTENDS Naturals

CONSTANTS
  DomainLengths,  \* of a bound address that is a name
  MaxSpoken       \* bytes the target sends before it is sent any

ASSUME LengthsAssumption ==
  DomainLengths \subseteq Nat /\ DomainLengths # {} /\ MaxSpoken \in Nat

VARIABLES
  dialer,   \* where the dialer is and how many bytes its read still needs
  written,  \* what it has written and the proxy has not read
  peer,     \* what the proxy waits for
  said,     \* the proxy's last message
  unread,   \* bytes of it that are not read yet
  ahead,    \* bytes of the target behind them
  spoken    \* bytes the target has sent

handshakeVars == <<dialer, written, peer, said, unread, ahead, spoken>>

Reading == {"method", "status", "reply", "size", "address", "port"}

DialerType ==
  [at : Reading \cup {"idle", "connected", "counted", "open", "failed"},
   left : Nat, credentials : {"none", "given", "long"}, valid : BOOLEAN]

Saying == [ok : BOOLEAN, method : {"none", "password", "other"},
           address : {"ipv4", "ipv6", "domain", "other"},
           size : DomainLengths]

Silence == [ok |-> FALSE, method |-> "other", address |-> "other",
            size |-> CHOOSE size \in DomainLengths : TRUE]

HandshakeTypeOK ==
  /\ dialer \in DialerType
  /\ written \subseteq {"count", "methods", "credentials", "connect"}
  /\ peer \in {"greeting", "authentication", "request", "relaying", "closed"}
  /\ said \in Saying
  /\ unread \in Nat /\ ahead \in Nat /\ spoken \in Nat

NotDialled ==
  [at |-> "idle", left |-> 0, credentials |-> "none", valid |-> TRUE]

HandshakeInit ==
  /\ dialer = NotDialled
  /\ written = {}
  /\ peer = "closed"
  /\ said = Silence
  /\ unread = 0 /\ ahead = 0 /\ spoken = 0

-----------------------------------------------------------------------------
(* The dialer.                                                             *)

\* valid: the target's port and host name fit into a request.
Dial ==
  /\ dialer.at = "idle"
  /\ \E credentials \in {"none", "given", "long"}, valid \in BOOLEAN :
       dialer' = [at |-> "connected", left |-> 0,
                  credentials |-> credentials, valid |-> valid]
  /\ written' = {}
  /\ peer' = "greeting"
  /\ said' = Silence
  /\ unread' = 0 /\ ahead' = 0 /\ spoken' = 0

Moves(at, left) == dialer' = [dialer EXCEPT !.at = at, !.left = left]

\* Write message, then read left bytes.
Asks(message, at, left) ==
  /\ Moves(at, left)
  /\ written' = written \cup {message}
  /\ UNCHANGED <<peer, said, unread, ahead, spoken>>

GoesOn(at, left) ==
  Moves(at, left) /\ UNCHANGED <<written, peer, said, unread, ahead, spoken>>

\* The greeting is written in two pieces.
WriteCount == dialer.at = "connected" /\ Asks("count", "counted", 0)
WriteMethods == dialer.at = "counted" /\ Asks("methods", "method", 2)

\* io.ReadFull and io.CopyN take what has arrived.
Receive(n) ==
  /\ n <= dialer.left /\ n <= unread + ahead
  /\ dialer' = [dialer EXCEPT !.left = @ - n]
  /\ unread' = IF n <= unread THEN unread - n ELSE 0
  /\ ahead' = IF n <= unread THEN ahead ELSE unread + ahead - n
  /\ UNCHANGED <<written, peer, said, spoken>>

HasRead(at) == dialer.at = at /\ dialer.left = 0

\* socks5ConnectRequest.
RequestTarget ==
  IF dialer.valid THEN Asks("connect", "reply", 4) ELSE GoesOn("failed", 0)

\* Mutated form: the proxy's wish for credentials is passed over.
AfterMethodOpenly ==
  IF said.method \in {"none", "password"} THEN RequestTarget
  ELSE GoesOn("failed", 0)

\* A proxy may ask for credentials that were not offered: they are empty.
AfterMethod ==
  CASE said.method = "none" -> RequestTarget
    [] said.method = "password" ->
         IF dialer.credentials = "long" THEN GoesOn("failed", 0)
         ELSE Asks("credentials", "status", 2)
    [] OTHER -> GoesOn("failed", 0)

ReadMethod == HasRead("method") /\ AfterMethod

ReadStatus ==
  HasRead("status") /\ IF said.ok THEN RequestTarget ELSE GoesOn("failed", 0)

\* discardSocks5BindAddress.
ReadReply ==
  /\ HasRead("reply")
  /\ CASE said.ok /\ said.address = "ipv4" -> GoesOn("address", 4)
       [] said.ok /\ said.address = "ipv6" -> GoesOn("address", 16)
       [] said.ok /\ said.address = "domain" -> GoesOn("size", 1)
       [] OTHER -> GoesOn("failed", 0)

ReadSize == HasRead("size") /\ GoesOn("address", said.size)

\* Mutated form: the port is taken for a part of the address.
AfterAddressAtOnce == GoesOn("open", 0)

AfterAddress == GoesOn("port", 2)

ReadAddress == HasRead("address") /\ AfterAddress
ReadPort == HasRead("port") /\ GoesOn("open", 0)

\* A write or a read fails, the deadline of the context passes.
HandshakeFails ==
  /\ dialer.at \in Reading \cup {"connected", "counted"}
  /\ GoesOn("failed", 0)

HangUp ==
  /\ dialer.at \in {"open", "failed"}
  /\ dialer' = NotDialled
  /\ written' = {}
  /\ peer' = "closed"
  /\ said' = Silence
  /\ unread' = 0 /\ ahead' = 0 /\ spoken' = 0

-----------------------------------------------------------------------------
(* The proxy.                                                              *)

Wanted(at) ==
  CASE at = "greeting" -> {"count", "methods"}
    [] at = "authentication" -> {"credentials"}
    [] OTHER -> {"connect"}

Answers(at, saying, length, next) ==
  /\ peer = at
  /\ Wanted(at) \subseteq written
  /\ written' = written \ Wanted(at)
  /\ said' = saying
  /\ unread' = unread + length
  /\ peer' = next
  /\ UNCHANGED <<dialer, ahead, spoken>>

ChooseMethod(method) ==
  Answers("greeting", [Silence EXCEPT !.method = method], 2,
          CASE method = "none" -> "request"
            [] method = "password" -> "authentication"
            [] OTHER -> "closed")

CheckCredentials(ok) ==
  Answers("authentication", [Silence EXCEPT !.ok = ok], 2,
          IF ok THEN "request" ELSE "closed")

AddressLength(address, size) ==
  CASE address = "ipv6" -> 16
    [] address = "domain" -> 1 + size
    [] OTHER -> 4

ConnectTarget(ok, address, size) ==
  Answers("request",
          [Silence EXCEPT !.ok = ok, !.address = address, !.size = size],
          4 + AddressLength(address, size) + 2,
          IF ok THEN "relaying" ELSE "closed")

TargetSpeaks ==
  /\ peer = "relaying" /\ spoken < MaxSpoken
  /\ spoken' = spoken + 1 /\ ahead' = ahead + 1
  /\ UNCHANGED <<dialer, written, peer, said, unread>>

ProxyCloses ==
  /\ peer # "closed"
  /\ peer' = "closed"
  /\ UNCHANGED <<dialer, written, said, unread, ahead, spoken>>

HandshakeNext ==
  \/ Dial \/ WriteCount \/ WriteMethods
  \/ \E n \in 1 .. dialer.left : Receive(n)
  \/ ReadMethod \/ ReadStatus \/ ReadReply \/ ReadSize \/ ReadAddress
  \/ ReadPort \/ HandshakeFails \/ HangUp
  \/ \E method \in {"none", "password", "other"} : ChooseMethod(method)
  \/ \E ok \in BOOLEAN : CheckCredentials(ok)
  \/ \E ok \in BOOLEAN, address \in {"ipv4", "ipv6", "domain", "other"},
        size \in DomainLengths : ConnectTarget(ok, address, size)
  \/ TargetSpeaks \/ ProxyCloses

-----------------------------------------------------------------------------

\* The connection that is handed to the HTTP client starts with the first
\* byte of the target: the handshake has read all of the proxy's last
\* message, whatever form its address has and in whatever pieces it came,
\* and nothing of what follows (handshake, discardSocks5BindAddress).
TunnelStartsClean ==
  dialer.at = "open" => unread = 0 /\ ahead = spoken

\* The dialer and the proxy never wait for each other: where the dialer has
\* read all there is and needs more, the proxy has all it wants for its next
\* message, credentials that were not offered included.
NoStandoff ==
  dialer.at \in Reading /\ dialer.left > 0 /\ unread + ahead = 0 =>
    peer = "closed" \/ (peer # "relaying" /\ Wanted(peer) \subseteq written)
=============================================================================
