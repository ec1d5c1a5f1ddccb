---------------------------- MODULE TelegramAuth ----------------------------
(***************************************************************************)
(* Logging a Telegram account in from the admin API: TelegramAuthService,  *)
(* its Redis store of half-finished logins and the admin endpoints that    *)
(* call it (services/telegram_auth.py, api/admin.py).  One session name is *)
(* modelled: the key of the store and the session file are both per name.  *)
(* Every request reads the store, talks to Telegram, writes the store and  *)
(* signals the listener in four separate awaits, and nothing stops two     *)
(* requests for the same session from overlapping.                         *)
(***************************************************************************)
EXTENDS Naturals

CONSTANTS Admins,       \* concurrent admin requests
          MaxCodes,     \* bound: login codes sent
          MaxRequests,  \* bound: requests handled
          MaxFaults     \* bound: failing Redis or Telegram calls, expiries, revocations

VARIABLES
  store,      \* the TelegramAuthSessionState kept in Redis, or NoState
  file,       \* what Telegram thinks of the session file's key
  twoFactor,  \* the account has a 2FA password
  locked,     \* a listener holds the sqlite session file
  codes,      \* codes sent so far; the newest is the one Telegram accepts
  used,       \* the newest code has been consumed
  req,        \* the request each admin has in flight
  announced,  \* the listener was signalled after the session was authorised
  requests, faults,
  overlapped  \* history: two requests were in flight at once

authVars == <<store, file, twoFactor, locked, codes, used, req, announced,
              requests, faults, overlapped>>

NoState == [code |-> 0, needsPassword |-> FALSE]
State(code, needs) == [code |-> code, needsPassword |-> needs]
Idle == [op |-> "none", pc |-> "idle", seen |-> NoState]

Init ==
  /\ store = NoState /\ file \in {"missing", "unauthorized"}
  /\ twoFactor \in BOOLEAN /\ locked \in BOOLEAN
  /\ codes = 0 /\ used = FALSE
  /\ req = [a \in Admins |-> Idle]
  /\ announced = FALSE /\ requests = 0 /\ faults = 0 /\ overlapped = FALSE

Present(s) == s.code # 0
Stored(s) == store' = s
Deleted == store' = NoState
InFlight(a) == req[a].pc # "idle"
NoRequest == \A a \in Admins : ~InFlight(a)

Begin(a) ==
  /\ ~InFlight(a) /\ requests < MaxRequests
  /\ requests' = requests + 1
  /\ overlapped' = (overlapped \/ ~NoRequest)
At(a, op, pc) == req[a].op = op /\ req[a].pc = pc
Goto(a, pc) == req' = [req EXCEPT ![a].pc = pc]
Done(a) == req' = [req EXCEPT ![a] = Idle]

(***************************************************************************)
(* start_login: connecting creates the session file; an authorised session *)
(* ends the request, otherwise Telegram sends a code and its hash is put   *)
(* in the store.                                                           *)
(***************************************************************************)
StartLogin(a) ==
  /\ Begin(a)
  /\ req' = [req EXCEPT ![a] = [op |-> "start", pc |-> "connect", seen |-> NoState]]
  /\ UNCHANGED <<store, file, twoFactor, locked, codes, used, announced, faults>>

SendCode(a) ==
  /\ At(a, "start", "connect")
  /\ \/ /\ locked \/ file = "authorized"
        /\ Done(a)
        /\ UNCHANGED <<file, codes, used>>
     \/ /\ ~locked /\ file # "authorized" /\ codes < MaxCodes
        /\ codes' = codes + 1 /\ used' = FALSE
        /\ file' = "unauthorized"
        /\ req' = [req EXCEPT ![a].pc = "store", ![a].seen = State(codes + 1, FALSE)]
  /\ UNCHANGED <<store, twoFactor, locked, announced, requests, faults, overlapped>>

PutLogin(a) ==
  /\ At(a, "start", "store")
  /\ Stored(req[a].seen)
  /\ Done(a)
  /\ UNCHANGED <<file, twoFactor, locked, codes, used, announced, requests, faults, overlapped>>

(***************************************************************************)
(* confirm_code and confirm_password read the store first: no state is a   *)
(* 404, and a password is refused unless the state asks for one.           *)
(***************************************************************************)
RequireState(a, op) ==
  /\ Begin(a)
  /\ Present(store) /\ (op = "password" => store.needsPassword)
  /\ req' = [req EXCEPT ![a] = [op |-> op, pc |-> "signIn", seen |-> store]]
  /\ UNCHANGED <<store, file, twoFactor, locked, codes, used, announced, faults>>

\* Telegram accepts the newest unused code, and only from the key that asked for it.
Accepted(s) == ~locked /\ s.code = codes /\ ~used /\ file = "unauthorized"

SignIn(a) ==
  /\ At(a, "code", "signIn")
  /\ \/ Done(a) /\ UNCHANGED <<file, used, announced>>     \* refused: wrong, expired, flood, locked
     \/ /\ Accepted(req[a].seen) /\ ~twoFactor
        /\ file' = "authorized" /\ used' = TRUE /\ announced' = FALSE
        /\ Goto(a, "delete")
     \/ /\ Accepted(req[a].seen) /\ twoFactor
        /\ UNCHANGED <<file, used, announced>>
        /\ Goto(a, "needsPassword")
  /\ UNCHANGED <<store, twoFactor, locked, codes, requests, faults, overlapped>>

\* except SessionPasswordNeededError: the state that was read is written back.
PutNeedsPassword(a) ==
  /\ At(a, "code", "needsPassword")
  /\ Stored(State(req[a].seen.code, TRUE))
  /\ Goto(a, "signal")
  /\ UNCHANGED <<file, twoFactor, locked, codes, used, announced, requests, faults, overlapped>>

SignInPassword(a) ==
  /\ At(a, "password", "signIn")
  /\ \/ Done(a) /\ UNCHANGED <<file, used, announced>>
     \/ /\ ~locked /\ file = "unauthorized" /\ ~used
        /\ file' = "authorized" /\ used' = TRUE /\ announced' = FALSE
        /\ Goto(a, "delete")
  /\ UNCHANGED <<store, twoFactor, locked, codes, requests, faults, overlapped>>

DeleteFinished(a) ==
  /\ req[a].pc = "delete"
  /\ Deleted
  /\ Goto(a, "signal")
  /\ UNCHANGED <<file, twoFactor, locked, codes, used, announced, requests, faults, overlapped>>

\* Mutant: only confirm_code signals.
SignalsCodeOnly(a) ==
  /\ req[a].pc = "signal" /\ Done(a)
  /\ announced' = (announced \/ req[a].op = "code")
  /\ UNCHANGED <<store, file, twoFactor, locked, codes, used, requests, faults, overlapped>>

\* the endpoint's refresh_store.signal() after the service returned
SignalRefresh(a) ==
  /\ req[a].pc = "signal"
  /\ announced' = TRUE
  /\ Done(a)
  /\ UNCHANGED <<store, file, twoFactor, locked, codes, used, requests, faults, overlapped>>

\* DELETE /telegram/auth/{session_name}
DeleteState(a) ==
  /\ Begin(a)
  /\ req' = [req EXCEPT ![a] = [op |-> "delete", pc |-> "delete", seen |-> NoState]]
  /\ UNCHANGED <<store, file, twoFactor, locked, codes, used, announced, faults>>

\* A Redis or Telegram call raises: the request ends where it is.
RequestFails(a) ==
  /\ InFlight(a) /\ faults < MaxFaults
  /\ faults' = faults + 1
  /\ Done(a)
  /\ UNCHANGED <<store, file, twoFactor, locked, codes, used, announced, requests, overlapped>>

\* TELEGRAM_AUTH_TTL_SECONDS: the key expires.
Expire ==
  /\ Present(store) /\ faults < MaxFaults
  /\ faults' = faults + 1 /\ Deleted
  /\ UNCHANGED <<file, twoFactor, locked, codes, used, req, announced, requests, overlapped>>

\* Telegram withdraws the authorisation of the key.
Revoke ==
  /\ file = "authorized" /\ faults < MaxFaults
  /\ file' = "unauthorized" /\ faults' = faults + 1 /\ announced' = FALSE
  /\ UNCHANGED <<store, twoFactor, locked, codes, used, req, requests, overlapped>>

LockChanges ==
  /\ faults < MaxFaults
  /\ locked' = ~locked /\ faults' = faults + 1
  /\ UNCHANGED <<store, file, twoFactor, codes, used, req, announced, requests, overlapped>>

Next ==
  \/ \E a \in Admins :
       \/ StartLogin(a) \/ SendCode(a) \/ PutLogin(a)
       \/ RequireState(a, "code") \/ SignIn(a) \/ PutNeedsPassword(a)
       \/ RequireState(a, "password") \/ SignInPassword(a)
       \/ DeleteFinished(a) \/ SignalRefresh(a) \/ DeleteState(a) \/ RequestFails(a)
  \/ Expire \/ Revoke \/ LockChanges

Spec == Init /\ [][Next]_authVars

(***************************************************************************)
(* inspect_session: what the session list shows, and what                  *)
(* verify_source_access demands ("ready") before a source may be enabled.  *)
(***************************************************************************)
SessionStatus ==
  CASE file = "missing" /\ ~Present(store) -> "missing"
    [] file = "missing" -> IF store.needsPassword THEN "needs_password" ELSE "pending_auth"
    [] file # "missing" /\ locked -> "locked"
    [] file # "missing" /\ ~locked /\ Present(store) /\ store.needsPassword -> "needs_password"
    [] OTHER -> IF file = "authorized" THEN "ready" ELSE "unauthorized"

-----------------------------------------------------------------------------
\* A login that went through is of use: when no request is in flight, an authorised session was
\* announced to the listener by a refresh signal, and is shown as "ready", so that sources may be
\* bound to it.  Only a failing call between sign_in and the signal leaves it unannounced, and
\* only that or two overlapping confirmations leave a "needs password" entry that hides it: the
\* second puts back the state it read after the first has deleted it (telegram_auth.py,
\* confirm_code).
LoginIsUsable ==
  NoRequest /\ file = "authorized" /\ faults = 0 =>
    /\ announced
    /\ ~locked /\ ~overlapped => SessionStatus = "ready"
=============================================================================
