----------------------------- MODULE ClientKeys -----------------------------
(***************************************************************************)
(* The client keys, the requests they admit and the usage rows those leave *)
(* behind under the key's id.                                              *)
(*                                                                         *)
(* A request keeps the key it was admitted with to its end, and a handler  *)
(* that updates a key reads it first: the key may be deleted in between.   *)
(* A key's name and its list of models decide nothing here: no request is  *)
(* refused for its model.                                                  *)
(***************************************************************************)
EXTENDS Integers

CONSTANTS
  Tokens,     \* of which a key keeps the hash, which is UNIQUE
  Callers,    \* requests of clients
  Editors,    \* handlers that update a key
  MaxKeys,    \* keys ever created
  NoKey

VARIABLES
  keys,    \* the client_keys table
  minted,  \* how many were ever inserted: the AUTOINCREMENT
  caller,  \* the key id and token each admitted request came with
  editor,  \* the id each handler has read
  usage    \* the client_id of usage rows, with the token (history)

keysVars == <<keys, minted, caller, editor, usage>>

KeyIds == 1 .. MaxKeys
ClientKey == [token : Tokens, enabled : BOOLEAN]
Admission == [id : KeyIds, token : Tokens]

KeysTypeOK ==
  /\ keys \in [KeyIds -> ClientKey \cup {NoKey}]
  /\ minted \in 0 .. MaxKeys
  /\ caller \in [Callers -> Admission \cup {NoKey}]
  /\ editor \in [Editors -> 0 .. MaxKeys]
  /\ usage \subseteq Admission

KeysInit ==
  /\ keys = [k \in KeyIds |-> NoKey]
  /\ minted = 0
  /\ caller = [c \in Callers |-> NoKey]
  /\ editor = [e \in Editors |-> 0]
  /\ usage = {}

-----------------------------------------------------------------------------

\* Mutated form: without AUTOINCREMENT the highest id in use is counted on.
NextKeyIdInUse ==
  LET used == {k \in KeyIds : keys[k] # NoKey}
  IN  CHOOSE k \in KeyIds : k - 1 \in used \cup {0} /\ \A j \in used : j < k

NextKeyId == minted + 1

\* HandleCreateClientKey, with a token of the administrator's or a new one.
CreateKey ==
  /\ minted < MaxKeys
  /\ minted' = minted + 1
  /\ \E token \in Tokens, enabled \in BOOLEAN :
       /\ \A k \in KeyIds : keys[k] # NoKey => keys[k].token # token
       /\ keys' = [keys EXCEPT ![NextKeyId] =
            [token |-> token, enabled |-> enabled]]
  /\ UNCHANGED <<caller, editor, usage>>

\* HandleUpdateClientKey reads the key.
ReadKey(e) ==
  /\ editor[e] = 0
  /\ \E k \in KeyIds :
       keys[k] # NoKey /\ editor' = [editor EXCEPT ![e] = k]
  /\ UNCHANGED <<keys, minted, caller, usage>>

\* Mutated form: the payload's token is written as well.
UpdatedKeyRotated(old, new) == new

\* UpdateClientKey's columns: the payload's token is ignored.
UpdatedKey(old, new) == [old EXCEPT !.enabled = new.enabled]

\* The UPDATE changes the row if there still is one.
WriteKey(e) ==
  /\ editor[e] # 0
  /\ \E new \in ClientKey :
       keys' = IF keys[editor[e]] = NoKey THEN keys
               ELSE [keys EXCEPT ![editor[e]] = UpdatedKey(@, new)]
  /\ editor' = [editor EXCEPT ![e] = 0]
  /\ UNCHANGED <<minted, caller, usage>>

DeleteKey ==
  /\ \E k \in KeyIds :
       keys[k] # NoKey /\ keys' = [keys EXCEPT ![k] = NoKey]
  /\ UNCHANGED <<minted, caller, editor, usage>>

\* clientAuth: FindClientKeyByToken.
Authenticate(c) ==
  /\ caller[c] = NoKey
  /\ \E k \in KeyIds :
       /\ keys[k] # NoKey
       /\ keys[k].enabled
       /\ caller' = [caller EXCEPT ![c] = [id |-> k, token |-> keys[k].token]]
  /\ UNCHANGED <<keys, minted, editor, usage>>

\* handleProxy's usage row, whatever has become of the key.
LogUsage(c) ==
  /\ caller[c] # NoKey
  /\ usage' = usage \cup {caller[c]}
  /\ caller' = [caller EXCEPT ![c] = NoKey]
  /\ UNCHANGED <<keys, minted, editor>>

RestartKeys ==
  /\ caller' = [c \in Callers |-> NoKey]
  /\ editor' = [e \in Editors |-> 0]
  /\ UNCHANGED <<keys, minted, usage>>

KeysNext ==
  \/ CreateKey \/ DeleteKey \/ RestartKeys
  \/ \E e \in Editors : ReadKey(e) \/ WriteKey(e)
  \/ \E c \in Callers : Authenticate(c) \/ LogUsage(c)

-----------------------------------------------------------------------------

\* The usage rows shown for a key are of requests that came with its token:
\* no key takes over the id, and with it the history, of a deleted one, not
\* even from a request that ends after the deletion, and no update gives an
\* id another token.  And a token is the token of one key.
UsageIsTheKeys ==
  /\ \A u \in usage \cup ({caller[c] : c \in Callers} \ {NoKey}) :
       keys[u.id] # NoKey => keys[u.id].token = u.token
  /\ \A j, k \in KeyIds :
       keys[j] # NoKey /\ keys[k] # NoKey /\ keys[j].token = keys[k].token =>
         j = k
=============================================================================
