------------------------------ MODULE Failover ------------------------------
(***************************************************************************)
(* What a proxied request promises its client, without the ledger, the     *)
(* marks and the steps of one attempt: a list of backends is taken once,   *)
(* each is tried at most once and in order, and the client gets one        *)
(* answer: the 2xx of the backend whose turn it is, a refusal once the     *)
(* list is used up, or nothing of use when it left or the answer could not *)
(* be passed on.                                                           *)
(***************************************************************************)
EXTENDS Integers

CONSTANTS
  MaxBackends,  \* backends are 1 .. MaxBackends, in their failover order
  NoAnswer      \* the request is still open

Backends == 1 .. MaxBackends

VARIABLES
  listed,  \* the list has been taken
  queue,   \* the backends whose turn is not over
  answer   \* what the client got: [kind, status, by]

vars == <<listed, queue, answer>>

Open == answer = NoAnswer

\* Whose turn it is.
Front(b) == b \in queue /\ \A d \in queue : b <= d

Answer(kind, status, by) ==
  answer' = [kind |-> kind, status |-> status, by |-> by]

Init == ~listed /\ queue = {} /\ answer = NoAnswer

List ==
  /\ Open /\ ~listed
  /\ listed' = TRUE
  /\ queue' \in (SUBSET Backends) \ {{}}
  /\ UNCHANGED answer

\* The backend at the front failed: the next one has its turn.
Pass ==
  /\ Open
  /\ \E b \in Backends : Front(b) /\ queue' = queue \ {b}
  /\ UNCHANGED <<listed, answer>>

\* The client gets the front backend's 2xx, whole ("served") or not ("cut").
Serve ==
  /\ Open
  /\ \E b \in Backends, kind \in {"served", "cut"}, status \in 200 .. 299 :
       Front(b) /\ Answer(kind, status, b)
  /\ UNCHANGED <<listed, queue>>

\* An error of the gateway: nothing to try, or nothing left to try.
Refuse ==
  /\ Open /\ queue = {}
  /\ \E status \in {400, 404, 503} :
       /\ status # 503 => ~listed
       /\ Answer("refused", status, 0)
  /\ UNCHANGED <<listed, queue>>

\* The client left, between two turns or during one, which is broken off.
Cancel ==
  /\ Open /\ Answer("cancelled", 499, 0)
  /\ queue' \in {queue} \cup { queue \ {b} : b \in { d \in queue : Front(d) } }
  /\ UNCHANGED listed

Next == List \/ Pass \/ Serve \/ Refuse \/ Cancel

Spec == Init /\ [][Next]_vars
=============================================================================
