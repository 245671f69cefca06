------------------------------ MODULE Settings ------------------------------
(***************************************************************************)
(* The settings table and the process's configuration, which PUT           *)
(* /admin/api/config and POST /admin/api/config/reload assign field by     *)
(* field, without a lock, after the table was written or read.             *)
(*                                                                         *)
(* The fields are listed in the order the handlers assign them.  The table *)
(* keeps the text it was given.  An update and a reload assign two of the  *)
(* fields without the blanks around them, a restart loads the text as it   *)
(* is; what reads these fields trims them.  The text of a number or of a   *)
(* duration stands for the value it is parsed to, everywhere the same.     *)
(*                                                                         *)
(* What the scheduler and the proxy service were built with is not here:   *)
(* it never changes while the process runs (BackendRow's constants).       *)
(***************************************************************************)
EXTENDS Naturals, Sequences

CONSTANTS
  Fields,    \* the keys the configuration is loaded from, as a sequence
  Values,    \* the texts of a setting
  Accepted,  \* those HandleUpdateConfig takes for each key
  Trim,      \* strings.TrimSpace
  Default,   \* what the environment gives
  Unset,     \* the table has no row
  Handlers   \* requests that update or reload

VARIABLES
  settings,    \* the settings table
  cfg,         \* App.cfg
  handler,     \* where each handler is
  overlapped   \* history: two handlers ran at once since the last one that
               \* loaded every field alone

settingsVars == <<settings, cfg, handler, overlapped>>

Keys == {Fields[i] : i \in DOMAIN Fields}

ASSUME SettingsAssumption ==
  /\ Fields \in Seq(Keys)
  /\ Unset \notin Values
  /\ Accepted \in [Keys -> SUBSET Values]
  /\ \A text \in Values \cup {Default} :
       Trim[text] \in Values \cup {Default} /\ Trim[Trim[text]] = Trim[text]

\* A payload names some keys and was accepted, and so was what the table has.
Payload ==
  {p \in [Keys -> Values \cup {Unset}] :
     \A k \in Keys : p[k] \in Accepted[k] \cup {Unset}}
NoPayload == [k \in Keys |-> Unset]

HandlerType == [at : {"idle", "received", "applying"}, payload : Payload,
                next : 1 .. Len(Fields) + 1]
IdleHandler == [at |-> "idle", payload |-> NoPayload, next |-> 1]

SettingsTypeOK ==
  /\ settings \in Payload
  /\ cfg \in [Keys -> Values \cup {Default}]
  /\ handler \in [Handlers -> HandlerType]
  /\ overlapped \in BOOLEAN

\* The fields assigned without the blanks around them.
TrimmedKeys == {"backend_console_user_agent", "focus_models"}
Trimmed(k, text) == IF k \in TrimmedKeys THEN Trim[text] ELSE text

\* The rows of the table that are taken: of the keys that are checked, those
\* with a text an update accepts.
Taken(unchecked) ==
  [k \in Keys |-> IF k \in unchecked \/ settings[k] \in Accepted[k]
                  THEN settings[k] ELSE Unset]

ReloadUnchecked == {"log_level", "focus_models"}
LoadUnchecked == ReloadUnchecked \cup {"backend_console_user_agent"}

\* LoadDatabase: the environment, and what the table has, blanks included.
Loaded ==
  LET taken == Taken(LoadUnchecked)
  IN  [k \in Keys |-> IF taken[k] = Unset THEN Default ELSE taken[k]]

SettingsInit ==
  /\ settings = NoPayload
  /\ cfg = Loaded
  /\ handler = [h \in Handlers |-> IdleHandler]
  /\ overlapped = FALSE

Alone(h) == \A g \in Handlers \ {h} : handler[g] = IdleHandler

-----------------------------------------------------------------------------

\* HandleUpdateConfig, its values accepted.
ReceiveUpdate(h) ==
  /\ handler[h] = IdleHandler
  /\ \E payload \in Payload \ {NoPayload} :
       handler' = [handler EXCEPT
                     ![h] = [at |-> "received", payload |-> payload, next |-> 1]]
  /\ overlapped' = (overlapped \/ ~Alone(h))
  /\ UNCHANGED <<settings, cfg>>

\* SetSettings: all keys of the payload in one transaction.
Stored(payload) ==
  [k \in Keys |-> IF payload[k] = Unset THEN settings[k] ELSE payload[k]]

SaveSettings(h) ==
  /\ handler[h].at = "received"
  /\ settings' = Stored(handler[h].payload)
  /\ handler' = [handler EXCEPT ![h].at = "applying"]
  /\ UNCHANGED <<cfg, overlapped>>

\* Mutated form: the error of the save is dropped.
AfterFailureApplies(h) == [handler[h] EXCEPT !.at = "applying"]

\* The configuration is left as it is.
AfterFailure(h) == IdleHandler

SaveFails(h) ==
  /\ handler[h].at = "received"
  /\ handler' = [handler EXCEPT ![h] = AfterFailure(h)]
  /\ UNCHANGED <<settings, cfg, overlapped>>

\* HandleReloadConfig reads the table; a user agent is checked again.
ReceiveReload(h) ==
  /\ handler[h] = IdleHandler
  /\ handler' = [handler EXCEPT
                   ![h] = [at |-> "applying",
                           payload |-> Taken(ReloadUnchecked), next |-> 1]]
  /\ overlapped' = ~Alone(h)
  /\ UNCHANGED <<settings, cfg>>

\* One field after the other, two of them trimmed.
ApplyField(h) ==
  /\ handler[h].at = "applying"
  /\ handler[h].next <= Len(Fields)
  /\ LET key == Fields[handler[h].next]  value == handler[h].payload[key]
     IN  cfg' = IF value = Unset THEN cfg
                ELSE [cfg EXCEPT ![key] = Trimmed(key, value)]
  /\ handler' = [handler EXCEPT ![h].next = @ + 1]
  /\ UNCHANGED <<settings, overlapped>>

Answer(h) ==
  /\ handler[h].at = "applying"
  /\ handler[h].next > Len(Fields)
  /\ handler' = [handler EXCEPT ![h] = IdleHandler]
  /\ UNCHANGED <<settings, cfg, overlapped>>

\* The process starts again, at any point of a handler.
RestartSettings ==
  /\ cfg' = Loaded
  /\ handler' = [h \in Handlers |-> IdleHandler]
  /\ overlapped' = FALSE
  /\ UNCHANGED settings

SettingsNext ==
  \/ RestartSettings
  \/ \E h \in Handlers :
       \/ ReceiveUpdate(h) \/ SaveSettings(h) \/ SaveFails(h)
       \/ ReceiveReload(h) \/ ApplyField(h) \/ Answer(h)

-----------------------------------------------------------------------------

\* What the program makes of a configuration: backendConsoleUserAgent and
\* the focus patterns trim their fields when they are used.
InUse(config) == [k \in Keys |-> Trimmed(k, config[k])]

\* When no handler is at work, a restart would change nothing for whoever
\* uses the configuration, and nothing at all in a field that is not trimmed,
\* unless handlers overlapped since the last restart or the last reload that
\* began alone: two updates may be saved in one order and applied in the
\* other.  An update whose save fails changes neither.
ConfigFollowsTable ==
  (\A h \in Handlers : handler[h] = IdleHandler) /\ ~overlapped =>
    InUse(cfg) = InUse(Loaded)
=============================================================================
