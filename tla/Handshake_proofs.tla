-------------------------- MODULE Handshake_proofs --------------------------
(***************************************************************************)
(* Proofs about Handshake.  Between two messages the dialer waits: nothing *)
(* is unread, and the proxy has closed the connection or has what it wants *)
(* for the next one.  Once the proxy has spoken, what is unread is what    *)
(* the dialer's read still needs and what its later reads of the message   *)
(* will.                                                                   *)
(***************************************************************************)
EXTENDS Handshake, TLAPS

\* What of a message follows the piece that is being read.
Rest ==
  CASE dialer.at = "reply" -> AddressLength(said.address, said.size) + 2
    [] dialer.at = "size" -> said.size + 2
    [] dialer.at = "address" -> 2
    [] OTHER -> 0

\* What the proxy is at before it sends a message and after it did.
Before ==
  CASE dialer.at = "method" -> "greeting"
    [] dialer.at = "status" -> "authentication"
    [] OTHER -> "request"

Behind ==
  CASE dialer.at = "method" /\ said.method = "none" -> "request"
    [] dialer.at = "method" /\ said.method = "password" -> "authentication"
    [] dialer.at = "status" /\ said.ok -> "request"
    [] dialer.at \notin {"method", "status"} /\ said.ok -> "relaying"
    [] OTHER -> "closed"

Silent == unread = 0 /\ ahead = 0 /\ spoken = 0

Waiting ==
  /\ Silent
  /\ dialer.at \in {"method", "status", "reply"}
  /\ dialer.left = IF dialer.at = "reply" THEN 4 ELSE 2
  /\ peer = "closed" \/ (peer = Before /\ Wanted(peer) \subseteq written)

Spoken ==
  /\ unread = dialer.left + Rest /\ ahead = spoken
  /\ peer \in {Behind, "closed"}
  /\ dialer.at \in {"method", "status"} => spoken = 0
  /\ dialer.at \in {"size", "address", "port"} => said.ok

\* What the dialer has not written yet the proxy does not find.
Unwritten ==
  /\ dialer.at = "connected" => written = {}
  /\ dialer.at = "counted" => written = {"count"}
  /\ dialer.at = "method" => "credentials" \notin written
  /\ dialer.at \in {"method", "status"} => "connect" \notin written

InStep ==
  /\ dialer.at \in {"connected", "counted"} =>
       Silent /\ peer \in {"greeting", "closed"}
  /\ dialer.at \in Reading => Waiting \/ Spoken
  /\ dialer.at = "open" =>
       unread = 0 /\ ahead = spoken /\ peer \in {"relaying", "closed"}
  /\ dialer.left # 0 => dialer.at \in Reading

HandshakeInv == HandshakeTypeOK /\ Unwritten /\ InStep

LEMMA HandshakeTypes ==
  /\ NotDialled \in DialerType
  /\ Silence \in Saying
  /\ \A s \in Saying : s.size \in Nat
  /\ \A address, size : size \in Nat => AddressLength(address, size) \in Nat
  <1>1. /\ (CHOOSE size \in DomainLengths : TRUE) \in DomainLengths
        /\ DomainLengths \subseteq Nat
    BY LengthsAssumption
  <1> QED
    BY <1>1 DEF NotDialled, DialerType, Silence, Saying, AddressLength

LEMMA HandshakeStarts == HandshakeInit => HandshakeInv
  BY HandshakeTypes
  DEF HandshakeInit, HandshakeInv, HandshakeTypeOK, Unwritten, InStep,
      Reading, NotDialled

LEMMA HandshakeStays ==
  HandshakeInv /\ UNCHANGED handshakeVars => HandshakeInv'
  BY DEF HandshakeInv, HandshakeTypeOK, Unwritten, InStep, Silent, Waiting,
         Spoken, Rest, Before, Behind, handshakeVars

-----------------------------------------------------------------------------
(* Where the dialer starts, stops and goes on. *)

LEMMA DialKeeps == HandshakeInv /\ Dial => HandshakeInv'
  BY HandshakeTypes
  DEF Dial, HandshakeInv, HandshakeTypeOK, DialerType, Unwritten, InStep,
      Silent, Reading

LEMMA HangUpKeeps == HandshakeInv /\ HangUp => HandshakeInv'
  BY HandshakeTypes
  DEF HangUp, HandshakeInv, HandshakeTypeOK, NotDialled, Unwritten, InStep,
      Reading

LEMMA MovesType ==
  ASSUME HandshakeInv, NEW at, NEW left \in Nat, Moves(at, left),
         at \in Reading \cup {"idle", "connected", "counted", "open", "failed"}
  PROVE  /\ dialer' \in DialerType
         /\ dialer'.at = at /\ dialer'.left = left
  BY DEF Moves, HandshakeInv, HandshakeTypeOK, DialerType

LEMMA FailsKeeps ==
  HandshakeInv /\ GoesOn("failed", 0) => HandshakeInv'
  <1> SUFFICES ASSUME HandshakeInv, GoesOn("failed", 0) PROVE HandshakeInv'
    OBVIOUS
  <1>1. dialer' \in DialerType /\ dialer'.at = "failed" /\ dialer'.left = 0
    BY MovesType DEF GoesOn
  <1> QED
    BY <1>1 DEF GoesOn, HandshakeInv, HandshakeTypeOK, Unwritten, InStep,
                Reading


LEMMA WriteCountKeeps == HandshakeInv /\ WriteCount => HandshakeInv'
  <1> SUFFICES ASSUME HandshakeInv, WriteCount PROVE HandshakeInv'
    OBVIOUS
  <1>1. dialer' \in DialerType /\ dialer'.at = "counted" /\ dialer'.left = 0
    BY MovesType DEF WriteCount, Asks
  <1> QED
    BY <1>1 DEF WriteCount, Asks, HandshakeInv, HandshakeTypeOK, Unwritten,
                InStep, Silent, Reading

LEMMA WriteMethodsKeeps == HandshakeInv /\ WriteMethods => HandshakeInv'
  <1> SUFFICES ASSUME HandshakeInv, WriteMethods PROVE HandshakeInv'
    OBVIOUS
  <1>1. dialer' \in DialerType /\ dialer'.at = "method" /\ dialer'.left = 2
    BY MovesType DEF WriteMethods, Asks, Reading
  <1>2. written = {"count"} /\ written' = {"count", "methods"}
    BY DEF WriteMethods, Asks, HandshakeInv, Unwritten
  <1>3. Silent' /\ peer' \in {"greeting", "closed"}
    BY DEF WriteMethods, Asks, HandshakeInv, InStep, Silent
  <1>4. Waiting'
    BY <1>1, <1>2, <1>3 DEF Waiting, Before, Wanted
  <1> QED
    BY <1>1, <1>2, <1>3, <1>4
    DEF WriteMethods, Asks, HandshakeInv, HandshakeTypeOK, Unwritten, InStep,
        Silent, Reading

LEMMA HasReadSpoken ==
  ASSUME HandshakeInv, NEW at \in Reading, HasRead(at)
  PROVE  Spoken /\ unread = Rest
  <1>1. ~Waiting /\ Spoken
    BY DEF HasRead, Waiting, HandshakeInv, InStep
  <1>2. Rest \in Nat
    BY HandshakeTypes DEF Rest, HandshakeInv, HandshakeTypeOK, Saying
  <1> QED
    BY <1>1, <1>2 DEF Spoken, HasRead

\* A target is asked for once the proxy waits for that.
LEMMA RequestTargetKeeps ==
  ASSUME HandshakeInv, RequestTarget, dialer.at \in {"method", "status"},
         HasRead(dialer.at), Behind \in {"request", "closed"}
  PROVE  HandshakeInv'
  <1>1. CASE ~dialer.valid
    BY <1>1, FailsKeeps DEF RequestTarget
  <1>2. CASE dialer.valid
    <2>1. Asks("connect", "reply", 4)
      BY <1>2 DEF RequestTarget
    <2>2. dialer' \in DialerType /\ dialer'.at = "reply" /\ dialer'.left = 4
      BY <2>1, MovesType DEF Asks, Reading
    <2>3. Silent /\ peer \in {"request", "closed"}
      BY HasReadSpoken DEF Rest, Spoken, Reading, Silent
    <2>4. Waiting'
      BY <2>1, <2>2, <2>3 DEF Waiting, Silent, Before, Wanted, Asks
    <2> QED
      BY <2>1, <2>2, <2>4
      DEF Asks, HandshakeInv, HandshakeTypeOK, Unwritten, InStep, Reading
  <1> QED
    BY <1>1, <1>2


LEMMA ReadMethodKeeps == HandshakeInv /\ ReadMethod => HandshakeInv'
  <1> SUFFICES ASSUME HandshakeInv, ReadMethod PROVE HandshakeInv'
    OBVIOUS
  <1>0. HasRead("method") /\ dialer.at = "method"
    BY DEF ReadMethod, HasRead
  <1>1. Spoken /\ unread = 0
    BY <1>0, HasReadSpoken DEF Rest, Reading
  <1>2. CASE said.method = "none"
    BY <1>0, <1>2, RequestTargetKeeps DEF ReadMethod, AfterMethod, Behind
  <1>3. CASE said.method = "password" /\ dialer.credentials # "long"
    <2>1. Asks("credentials", "status", 2)
      BY <1>3 DEF ReadMethod, AfterMethod
    <2>2. dialer' \in DialerType /\ dialer'.at = "status" /\ dialer'.left = 2
      BY <2>1, MovesType DEF Asks, Reading
    <2>3. Silent /\ peer \in {"authentication", "closed"}
      BY <1>0, <1>1, <1>3 DEF Spoken, Silent, Behind
    <2>4. Waiting'
      BY <2>1, <2>2, <2>3 DEF Waiting, Silent, Before, Wanted, Asks
    <2> QED
      BY <1>0, <2>1, <2>2, <2>4
      DEF Asks, HandshakeInv, HandshakeTypeOK, Unwritten, InStep, Reading
  <1>4. CASE GoesOn("failed", 0)
    BY <1>4, FailsKeeps
  <1> QED
    BY <1>2, <1>3, <1>4 DEF ReadMethod, AfterMethod

LEMMA ReadStatusKeeps == HandshakeInv /\ ReadStatus => HandshakeInv'
  <1> SUFFICES ASSUME HandshakeInv, ReadStatus PROVE HandshakeInv'
    OBVIOUS
  <1>1. CASE said.ok
    BY <1>1, RequestTargetKeeps DEF ReadStatus, HasRead, Behind
  <1>2. CASE ~said.ok
    BY <1>2, FailsKeeps DEF ReadStatus
  <1> QED
    BY <1>1, <1>2

\* The next piece of the proxy's reply.
LEMMA PieceKeeps ==
  ASSUME HandshakeInv, Spoken, said.ok, NEW left \in Nat,
         NEW at \in {"size", "address", "port"},
         dialer.at \in {"reply", "size", "address"},
         GoesOn(at, left), unread = left + Rest'
  PROVE  HandshakeInv'
  <1>1. dialer' \in DialerType /\ dialer'.at = at /\ dialer'.left = left
    BY MovesType DEF GoesOn, Reading
  <1>2. UNCHANGED <<written, peer, said, unread, ahead, spoken>>
    BY DEF GoesOn
  <1>3. peer \in {"relaying", "closed"}
    BY DEF Spoken, Behind
  <1>4. Spoken'
    BY <1>1, <1>2, <1>3 DEF Spoken, Behind
  <1> QED
    BY <1>1, <1>2, <1>4
    DEF HandshakeInv, HandshakeTypeOK, Unwritten, InStep, Reading


LEMMA ReadReplyKeeps == HandshakeInv /\ ReadReply => HandshakeInv'
  <1> SUFFICES ASSUME HandshakeInv, ReadReply PROVE HandshakeInv'
    OBVIOUS
  <1>0. HasRead("reply") /\ dialer.at = "reply"
    BY DEF ReadReply, HasRead
  <1>1. Spoken /\ unread = Rest
    BY <1>0, HasReadSpoken DEF Reading
  <1>2. unread = AddressLength(said.address, said.size) + 2
        /\ said.size \in Nat
    BY <1>0, <1>1 , HandshakeTypes
    DEF Rest, HandshakeInv, HandshakeTypeOK, Saying
  <1>3. CASE said.ok /\ said.address = "ipv4" /\ GoesOn("address", 4)
    <2>1. dialer'.at = "address" /\ unread = 4 + 2
      BY <1>2, <1>3, MovesType DEF AddressLength, GoesOn, Reading
    <2> QED
      BY <1>0, <1>1, <1>3, <2>1, PieceKeeps DEF Rest
  <1>4. CASE said.ok /\ said.address = "ipv6" /\ GoesOn("address", 16)
    <2>1. dialer'.at = "address" /\ unread = 16 + 2
      BY <1>2, <1>4, MovesType DEF AddressLength, GoesOn, Reading
    <2> QED
      BY <1>0, <1>1, <1>4, <2>1, PieceKeeps DEF Rest
  <1>5. CASE said.ok /\ said.address = "domain" /\ GoesOn("size", 1)
    <2>1. dialer'.at = "size" /\ said' = said /\ unread = 1 + (said.size + 2)
      BY <1>2, <1>5, MovesType DEF AddressLength, GoesOn, Reading
    <2> QED
      BY <1>0, <1>1, <1>5, <2>1, PieceKeeps DEF Rest
  <1>6. CASE GoesOn("failed", 0)
    BY <1>6, FailsKeeps
  <1> QED
    BY <1>3, <1>4, <1>5, <1>6 DEF ReadReply

LEMMA ReadSizeKeeps == HandshakeInv /\ ReadSize => HandshakeInv'
  <1> SUFFICES ASSUME HandshakeInv, ReadSize PROVE HandshakeInv'
    OBVIOUS
  <1>0. HasRead("size") /\ dialer.at = "size" /\ GoesOn("address", said.size)
    BY DEF ReadSize, HasRead
  <1>1. Spoken /\ unread = said.size + 2 /\ said.ok
    BY <1>0, HasReadSpoken DEF Reading, Rest, Spoken
  <1>2. said.size \in Nat
    BY HandshakeTypes DEF HandshakeInv, HandshakeTypeOK
  <1>3. dialer'.at = "address"
    BY <1>0, <1>2, MovesType DEF GoesOn, Reading
  <1> QED
    BY <1>0, <1>1, <1>2, <1>3, PieceKeeps DEF Rest

LEMMA ReadAddressKeeps == HandshakeInv /\ ReadAddress => HandshakeInv'
  <1> SUFFICES ASSUME HandshakeInv, ReadAddress PROVE HandshakeInv'
    OBVIOUS
  <1>0. HasRead("address") /\ dialer.at = "address" /\ GoesOn("port", 2)
    BY DEF ReadAddress, AfterAddress, HasRead
  <1>1. Spoken /\ unread = 2 /\ said.ok
    BY <1>0, HasReadSpoken DEF Reading, Rest, Spoken
  <1>2. dialer'.at = "port"
    BY <1>0, MovesType DEF GoesOn, Reading
  <1> QED
    BY <1>0, <1>1, <1>2, PieceKeeps DEF Rest

LEMMA ReadPortKeeps == HandshakeInv /\ ReadPort => HandshakeInv'
  <1> SUFFICES ASSUME HandshakeInv, ReadPort PROVE HandshakeInv'
    OBVIOUS
  <1>0. HasRead("port") /\ dialer.at = "port" /\ GoesOn("open", 0)
    BY DEF ReadPort, HasRead
  <1>1. unread = 0 /\ ahead = spoken /\ peer \in {"relaying", "closed"}
    BY <1>0, HasReadSpoken DEF Reading, Rest, Spoken, Behind
  <1>2. dialer' \in DialerType /\ dialer'.at = "open" /\ dialer'.left = 0
    BY <1>0, MovesType DEF GoesOn
  <1> QED
    BY <1>0, <1>1, <1>2
    DEF GoesOn, HandshakeInv, HandshakeTypeOK, Unwritten, InStep, Reading


LEMMA ReceiveKeeps ==
  ASSUME HandshakeInv, NEW n \in 1 .. dialer.left, Receive(n)
  PROVE  HandshakeInv'
  <1>1. dialer \in DialerType /\ unread \in Nat /\ ahead \in Nat /\ n \in Nat
    BY DEF HandshakeInv, HandshakeTypeOK, DialerType
  <1>2. dialer.left \in Nat /\ n # 0 /\ n <= dialer.left
    BY <1>1 DEF DialerType
  <1>3. dialer.at \in Reading /\ (Waiting \/ Spoken)
    BY <1>2 DEF HandshakeInv, InStep
  <1>4. Spoken
    BY <1>1, <1>2, <1>3 DEF Waiting, Silent, Receive
  <1>5. Rest \in Nat
    BY HandshakeTypes DEF Rest, HandshakeInv, HandshakeTypeOK
  <1>6. PICK m : m = dialer.left - n
    OBVIOUS
  <1>7. m \in Nat /\ dialer' = [dialer EXCEPT !.left = m]
    BY <1>1, <1>2, <1>6 DEF Receive
  <1>8. dialer' \in DialerType /\ dialer'.at = dialer.at /\ dialer'.left = m
    BY <1>1, <1>7 DEF DialerType
  <1>9. /\ unread' = m + Rest /\ unread' \in Nat
        /\ UNCHANGED <<written, peer, said, ahead, spoken>>
    BY <1>1, <1>2, <1>4, <1>5, <1>6, <1>7 DEF Receive, Spoken
  <1>10. Spoken'
    BY <1>4, <1>8, <1>9 DEF Spoken, Rest, Behind
  <1> QED
    BY <1>3, <1>8, <1>9, <1>10
    DEF HandshakeInv, HandshakeTypeOK, Unwritten, InStep, Reading

-----------------------------------------------------------------------------
(* The proxy. *)

\* It answers only a dialer that waits for the answer, or one that gave up.
LEMMA AnswersWaiting ==
  ASSUME HandshakeInv,
         peer \in {"greeting", "authentication", "request"},
         Wanted(peer) \subseteq written
  PROVE  \/ Waiting /\ peer = Before
         \/ dialer.at \in {"idle", "failed"}
  <1>1. dialer.at # "connected"
    BY DEF HandshakeInv, Unwritten, InStep, Wanted
  <1>2. dialer.at # "counted"
    <2> SUFFICES ASSUME dialer.at = "counted" PROVE FALSE
      OBVIOUS
    <2>1. peer = "greeting" /\ written = {"count"}
      BY DEF HandshakeInv, Unwritten, InStep
    <2> QED
      BY <2>1 DEF Wanted
  <1>3. dialer.at # "open"
    BY DEF HandshakeInv, InStep
  <1>4. dialer.at \in Reading => ~Spoken
    <2> SUFFICES ASSUME dialer.at \in Reading, Spoken PROVE FALSE
      OBVIOUS
    <2>1. peer = Behind
      BY DEF Spoken
    <2>2. \/ dialer.at = "method" /\ peer = "request"
          \/ dialer.at = "method" /\ peer = "authentication"
          \/ dialer.at = "status" /\ peer = "request"
      BY <2>1 DEF Behind
    <2> QED
      BY <2>2 DEF HandshakeInv, Unwritten, Wanted
  <1>5. dialer.at \in Reading => Waiting /\ peer = Before
    BY <1>4 DEF HandshakeInv, InStep, Waiting
  <1> QED
    BY <1>1, <1>2, <1>3, <1>5
    DEF HandshakeInv, HandshakeTypeOK, DialerType

LEMMA AnswersKeep ==
  ASSUME HandshakeInv, NEW at \in {"greeting", "authentication", "request"},
         NEW saying \in Saying, NEW length \in Nat,
         NEW next \in {"authentication", "request", "relaying", "closed"},
         Answers(at, saying, length, next),
         Waiting => length = dialer.left + Rest' /\ next = Behind'
  PROVE  HandshakeInv'
  <1>1. /\ dialer' = dialer /\ unread' = unread + length
        /\ peer' = next /\ written' \subseteq written /\ said' = saying
        /\ ahead' = ahead /\ spoken' = spoken
    BY DEF Answers
  <1>2. HandshakeTypeOK'
    BY <1>1 DEF HandshakeInv, HandshakeTypeOK
  <1>3. CASE Waiting /\ peer = Before
    <2>1. Spoken'
      BY <1>1, <1>3 DEF Spoken, Waiting, Silent, HandshakeInv,
                        HandshakeTypeOK
    <2> QED
      BY <1>1, <1>2, <1>3, <2>1
      DEF HandshakeInv, Unwritten, InStep, Waiting, Reading
  <1>4. CASE dialer.at \in {"idle", "failed"}
    BY <1>1, <1>2, <1>4 DEF HandshakeInv, Unwritten, InStep, Reading
  <1> QED
    BY <1>3, <1>4, AnswersWaiting DEF Answers


LEMMA MethodSaying ==
  ASSUME NEW method \in {"none", "password", "other"}
  PROVE  /\ [Silence EXCEPT !.method = method] \in Saying
         /\ [Silence EXCEPT !.method = method].method = method
  BY HandshakeTypes DEF Silence, Saying

LEMMA StatusSaying ==
  ASSUME NEW ok \in BOOLEAN
  PROVE  /\ [Silence EXCEPT !.ok = ok] \in Saying
         /\ [Silence EXCEPT !.ok = ok].ok = ok
  BY HandshakeTypes DEF Silence, Saying

LEMMA ChooseMethodKeeps ==
  ASSUME HandshakeInv, NEW method \in {"none", "password", "other"},
         ChooseMethod(method)
  PROVE  HandshakeInv'
  <1> DEFINE saying == [Silence EXCEPT !.method = method]
             next == CASE method = "none" -> "request"
                       [] method = "password" -> "authentication"
                       [] OTHER -> "closed"
  <1>1. Answers("greeting", saying, 2, next)
    BY DEF ChooseMethod
  <1>2. saying \in Saying /\ saying.method = method
    BY MethodSaying
  <1>3. said' = saying /\ dialer' = dialer /\ peer = "greeting"
    BY <1>1 DEF Answers
  <1>4. next \in {"authentication", "request", "relaying", "closed"}
    OBVIOUS
  <1>5. ASSUME Waiting PROVE 2 = dialer.left + Rest' /\ next = Behind'
    <2>1. dialer.at = "method" /\ dialer.left = 2
      BY <1>3, <1>5 DEF Waiting, Before
    <2>2. said'.method = method /\ dialer'.at = "method"
      BY <1>2, <1>3, <2>1
    <2>3. Rest' = 0
      BY <2>2 DEF Rest
    <2>4. Behind' = next
      BY <2>2 DEF Behind
    <2> QED
      BY <2>1, <2>3, <2>4
  <1> HIDE DEF saying, next
  <1> QED
    BY <1>1, <1>2, <1>4, <1>5, AnswersKeep

LEMMA CheckCredentialsKeeps ==
  ASSUME HandshakeInv, NEW ok \in BOOLEAN, CheckCredentials(ok)
  PROVE  HandshakeInv'
  <1> DEFINE saying == [Silence EXCEPT !.ok = ok]
             next == IF ok THEN "request" ELSE "closed"
  <1>1. Answers("authentication", saying, 2, next)
    BY DEF CheckCredentials
  <1>2. saying \in Saying /\ saying.ok = ok
    BY StatusSaying
  <1>3. said' = saying /\ dialer' = dialer /\ peer = "authentication"
    BY <1>1 DEF Answers
  <1>4. next \in {"authentication", "request", "relaying", "closed"}
    OBVIOUS
  <1>5. ASSUME Waiting PROVE 2 = dialer.left + Rest' /\ next = Behind'
    <2>1. dialer.at = "status" /\ dialer.left = 2
      BY <1>3, <1>5 DEF Waiting, Before
    <2>2. said'.ok = ok /\ dialer'.at = "status"
      BY <1>2, <1>3, <2>1
    <2>3. Rest' = 0
      BY <2>2 DEF Rest
    <2>4. Behind' = next
      BY <2>2 DEF Behind
    <2> QED
      BY <2>1, <2>3, <2>4
  <1> HIDE DEF saying, next
  <1> QED
    BY <1>1, <1>2, <1>4, <1>5, AnswersKeep

LEMMA ConnectTargetKeeps ==
  ASSUME HandshakeInv, NEW ok \in BOOLEAN,
         NEW address \in {"ipv4", "ipv6", "domain", "other"},
         NEW size \in DomainLengths, ConnectTarget(ok, address, size)
  PROVE  HandshakeInv'
  <1> DEFINE saying == [Silence EXCEPT !.ok = ok, !.address = address,
                                       !.size = size]
             next == IF ok THEN "relaying" ELSE "closed"
             length == 4 + AddressLength(address, size) + 2
  <1>1. Answers("request", saying, length, next)
    BY DEF ConnectTarget
  <1>2. saying \in Saying /\ saying.ok = ok /\ saying.address = address
        /\ saying.size = size
    BY HandshakeTypes DEF Silence, Saying
  <1>3. said' = saying /\ dialer' = dialer /\ peer = "request"
    BY <1>1 DEF Answers
  <1>4. next \in {"authentication", "request", "relaying", "closed"}
    OBVIOUS
  <1>5. size \in Nat /\ AddressLength(address, size) \in Nat
    BY HandshakeTypes, LengthsAssumption
  <1>6. length \in Nat
    BY <1>5
  <1>7. ASSUME Waiting PROVE length = dialer.left + Rest' /\ next = Behind'
    <2>1. dialer.at = "reply" /\ dialer.left = 4
      BY <1>3, <1>7 DEF Waiting, Before
    <2>2. /\ said'.ok = ok /\ dialer'.at = "reply"
          /\ said'.address = address /\ said'.size = size
      BY <1>2, <1>3, <2>1
    <2>3. Rest' = AddressLength(address, size) + 2
      BY <2>2 DEF Rest
    <2>4. Behind' = next
      BY <2>2 DEF Behind
    <2> QED
      BY <1>5, <2>1, <2>3, <2>4
  <1> HIDE DEF saying, next, length
  <1> QED
    BY <1>1, <1>2, <1>4, <1>6, <1>7, AnswersKeep

LEMMA TargetSpeaksKeeps == HandshakeInv /\ TargetSpeaks => HandshakeInv'
  <1> SUFFICES ASSUME HandshakeInv, TargetSpeaks PROVE HandshakeInv'
    OBVIOUS
  <1>1. /\ UNCHANGED <<dialer, written, peer, said, unread>>
        /\ spoken' = spoken + 1 /\ ahead' = ahead + 1 /\ peer = "relaying"
    BY DEF TargetSpeaks
  <1>2. HandshakeTypeOK' /\ Unwritten'
    BY <1>1 DEF HandshakeInv, HandshakeTypeOK, Unwritten
  <1>3. dialer.at \in Reading => Spoken /\ dialer.at \notin {"method", "status"}
    BY <1>1 DEF HandshakeInv, InStep, Waiting, Before, Spoken, Behind
  <1>4. dialer.at \in Reading => Spoken'
    BY <1>1, <1>3 DEF Spoken, Rest, Behind
  <1> QED
    BY <1>1, <1>2, <1>4 DEF HandshakeInv, InStep

LEMMA ProxyClosesKeeps == HandshakeInv /\ ProxyCloses => HandshakeInv'
  <1> SUFFICES ASSUME HandshakeInv, ProxyCloses PROVE HandshakeInv'
    OBVIOUS
  <1>1. /\ UNCHANGED <<dialer, written, said, unread, ahead, spoken>>
        /\ peer' = "closed"
    BY DEF ProxyCloses
  <1>2. HandshakeTypeOK' /\ Unwritten'
    BY <1>1 DEF HandshakeInv, HandshakeTypeOK, Unwritten
  <1>3. dialer.at \in Reading => Waiting' \/ Spoken'
    BY <1>1
    DEF HandshakeInv, InStep, Waiting, Silent, Spoken, Rest, Behind
  <1> QED
    BY <1>1, <1>2, <1>3 DEF HandshakeInv, InStep, Silent

-----------------------------------------------------------------------------

LEMMA HandshakeKeeps == HandshakeInv /\ HandshakeNext => HandshakeInv'
  <1> SUFFICES ASSUME HandshakeInv, HandshakeNext PROVE HandshakeInv'
    OBVIOUS
  <1>1. CASE Dial \/ WriteCount \/ WriteMethods \/ HandshakeFails \/ HangUp
    BY <1>1, DialKeeps, WriteCountKeeps, WriteMethodsKeeps, FailsKeeps,
       HangUpKeeps DEF HandshakeFails
  <1>2. CASE \E n \in 1 .. dialer.left : Receive(n)
    BY <1>2, ReceiveKeeps
  <1>3. CASE ReadMethod \/ ReadStatus \/ ReadReply
    BY <1>3, ReadMethodKeeps, ReadStatusKeeps, ReadReplyKeeps
  <1>4. CASE ReadSize \/ ReadAddress \/ ReadPort
    BY <1>4, ReadSizeKeeps, ReadAddressKeeps, ReadPortKeeps
  <1>5. CASE \E method \in {"none", "password", "other"} : ChooseMethod(method)
    BY <1>5, ChooseMethodKeeps
  <1>6. CASE \E ok \in BOOLEAN : CheckCredentials(ok)
    BY <1>6, CheckCredentialsKeeps
  <1>7. CASE \E ok \in BOOLEAN,
                address \in {"ipv4", "ipv6", "domain", "other"},
                size \in DomainLengths : ConnectTarget(ok, address, size)
    BY <1>7, ConnectTargetKeeps
  <1>8. CASE TargetSpeaks \/ ProxyCloses
    BY <1>8, TargetSpeaksKeeps, ProxyClosesKeeps
  <1> QED
    BY <1>1, <1>2, <1>3, <1>4, <1>5, <1>6, <1>7, <1>8 DEF HandshakeNext

LEMMA CleanInStep == HandshakeInv => TunnelStartsClean /\ NoStandoff
  <1> SUFFICES ASSUME HandshakeInv PROVE TunnelStartsClean /\ NoStandoff
    OBVIOUS
  <1>1. TunnelStartsClean
    BY DEF HandshakeInv, InStep, TunnelStartsClean
  <1>2. ASSUME dialer.at \in Reading, dialer.left > 0, unread + ahead = 0
        PROVE  Waiting
    <2>1. Rest \in Nat /\ dialer.left \in Nat /\ unread \in Nat /\ ahead \in Nat
      BY HandshakeTypes
      DEF Rest, HandshakeInv, HandshakeTypeOK, DialerType
    <2> QED
      BY <1>2, <2>1 DEF HandshakeInv, InStep, Spoken
  <1>3. Waiting => \/ peer = "closed"
                   \/ peer # "relaying" /\ Wanted(peer) \subseteq written
    BY DEF Waiting, Before
  <1> QED
    BY <1>1, <1>2, <1>3 DEF NoStandoff
=============================================================================
