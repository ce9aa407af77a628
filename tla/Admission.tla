-------------------------------- MODULE Admission --------------------------------
(***************************************************************************)
(* Who is let in, and on whose account. A gateway request passes the        *)
(* dependencies of its route one after the other, and reads the auth mode   *)
(* in two of them; meanwhile administrators change the mode, each request   *)
(* with two awaited statements and no lock. The admin pages and the admin   *)
(* API have a check each, by a cookie that is signed with the admin key.    *)
(* What validate_credential and the rate limiter do is modelled in          *)
(* CredentialCache and RateLimiter; here they give some answer.             *)
(***************************************************************************)
EXTENDS Naturals

CONSTANTS
  Guests,     \* clients of the gateway, each with one request at a time
  Operators,  \* administrators who change the auth mode
  MaxAge,     \* SESSION_MAX_AGE, in hours
  MaxHours,   \* bound on the clock
  MaxChanges  \* bound on changes of the mode

VARIABLES
  keyed,     \* CLIENT_API_KEY is set
  server,    \* ANTHROPIC_API_KEY is set
  auth,      \* CredentialManager._config
  authRow,   \* auth_config; the migrations seed it
  edit,      \* what each operator's request is doing
  changes,   \* how many have been asked for
  torn,      \* changes overlapped, or one failed, since auth and authRow agreed
  guest,     \* what each client's request is doing
  hour,      \* the clock
  adminKey,  \* ADMIN_API_KEY, or NoKey
  bypass,    \* localhost_auth_bypass
  cookie,    \* the session cookie of a browser
  login      \* its last login, for the properties

Modes   == {"client_key", "passthrough", "both"}
Config  == [mode : Modes, validate : BOOLEAN]
SeededRow == [mode |-> "both", validate |-> TRUE]
NoEdit    == [at |-> "idle", new |-> SeededRow, alone |-> TRUE]

(* "own" is a credential of the client's that Anthropic accepts, "bad" one  *)
(* that nobody accepts.                                                     *)
Credentials == {"client key", "own", "bad"}
Overrides   == {"none", "blank", "key"}
Out == [at |-> "out", token |-> "bad", bearer |-> FALSE, sent |-> "nothing", seen |-> {}]

NoKey    == "no key"
NoCookie == [key |-> NoKey, since |-> 0]

AdInit ==
  /\ authRow = SeededRow /\ auth = authRow
  /\ keyed \in BOOLEAN /\ server \in BOOLEAN
  /\ edit = [o \in Operators |-> NoEdit] /\ changes = 0 /\ torn = FALSE
  /\ guest = [g \in Guests |-> Out]
  /\ hour = 1 /\ adminKey \in {NoKey, "k1"} /\ bypass \in BOOLEAN
  /\ cookie = NoCookie /\ login = NoCookie

doorVars == <<hour, adminKey, bypass, cookie, login>>
editVars == <<auth, authRow, edit, changes, torn>>

-----------------------------------------------------------------------------
(* The gateway's dependencies.                                              *)

InTheDoor(g) == guest[g].at \notin {"out", "sent"}
Arrive(g, token, bearer) ==
  /\ ~InTheDoor(g)
  /\ guest' = [guest EXCEPT ![g] = [Out EXCEPT !.at = "verify", !.token = token, !.bearer = bearer,
                                               !.seen = {auth}]]
  /\ UNCHANGED <<keyed, server, editVars, doorVars>>
Goes(g, where) == guest' = [guest EXCEPT ![g] = IF where = "out" THEN Out ELSE [@ EXCEPT !.at = where]]

Matches(g) == keyed /\ guest[g].token = "client key"
Verdict(g) ==
  CASE auth.mode # "passthrough" /\ Matches(g) -> "limit"
    [] auth.mode = "client_key" /\ ~Matches(g) -> "out"
    [] OTHER -> IF auth.validate THEN "asking" ELSE "limit"
VerifyToken(g) ==
  /\ guest[g].at = "verify" /\ Goes(g, Verdict(g))
  /\ UNCHANGED <<keyed, server, editVars, doorVars>>
(* validate_credential: the truth, or nothing conclusive; then a bearer     *)
(* token passes.                                                            *)
Validated(g) ==
  /\ guest[g].at = "asking"
  /\ \E ok \in {guest[g].token = "own", guest[g].bearer} : Goes(g, IF ok THEN "limit" ELSE "out")
  /\ UNCHANGED <<keyed, server, editVars, doorVars>>
CheckRateLimit(g) ==
  /\ guest[g].at = "limit" /\ \E next \in {"resolve", "out"} : Goes(g, next)
  /\ UNCHANGED <<keyed, server, editVars, doorVars>>

Send(g, what) == guest' = [guest EXCEPT ![g].at = "sent", ![g].sent = what]
(* resolve_anthropic_client reads the mode again; the override is the       *)
(* request's header x-anthropic-api-key.                                    *)
\* Mutant: the mode is not looked at.
UsesOwnIfUnmatched(g) == ~Matches(g)
UsesOwn(g) == ~Matches(g) \/ auth.mode = "passthrough"
ResolveClient(g, override) ==
  /\ guest[g].at = "resolve"
  /\ CASE override = "blank" -> Goes(g, "out")
       [] override = "key"   -> Send(g, "override")
       [] OTHER -> IF UsesOwn(g) THEN Send(g, "token")
                   ELSE IF server THEN Send(g, "server key") ELSE Goes(g, "out")
  /\ UNCHANGED <<keyed, server, editVars, doorVars>>
(* The other endpoints: the headers go on as they came.                     *)
ProxyPassthrough(g) ==
  /\ guest[g].at = "resolve" /\ Send(g, "headers")
  /\ UNCHANGED <<keyed, server, editVars, doorVars>>

-----------------------------------------------------------------------------
(* update_config, with the fields that are given and, for the others, the   *)
(* values they have in memory when the change begins.                       *)
Editing(o) == edit[o].at # "idle"
UpdateConfig(o, new) ==
  /\ ~Editing(o) /\ changes < MaxChanges /\ changes' = changes + 1
  /\ LET rivals == {p \in Operators \ {o} : Editing(p)}
     IN  edit' = [p \in Operators |->
           IF p = o THEN [at |-> "writing", new |-> new, alone |-> rivals = {}]
           ELSE IF p \in rivals THEN [edit[p] EXCEPT !.alone = FALSE] ELSE edit[p]]
  /\ UNCHANGED <<keyed, server, auth, authRow, torn, guest, doorVars>>
StoreConfig(o) ==
  /\ edit[o].at = "writing" /\ authRow' = edit[o].new
  /\ edit' = [edit EXCEPT ![o].at = "written"]
  /\ UNCHANGED <<keyed, server, auth, changes, torn, guest, doorVars>>
Swap(config) ==
  /\ auth' = config
  /\ guest' = [g \in Guests |->
       IF InTheDoor(g) THEN [guest[g] EXCEPT !.seen = @ \cup {config}] ELSE guest[g]]
\* Mutant: the other fields stay.
SwappedModeOnly(o) == [auth EXCEPT !.mode = edit[o].new.mode]
Swapped(o) == edit[o].new
(* The row's new time stamp has been read: the copy in memory is replaced.  *)
SwapConfig(o) ==
  /\ edit[o].at = "written" /\ Swap(Swapped(o))
  /\ edit' = [edit EXCEPT ![o] = NoEdit] /\ torn' = ~edit[o].alone
  /\ UNCHANGED <<keyed, server, authRow, changes, doorVars>>
(* Either statement raises, with or without its effect.                     *)
UpdateFails(o) ==
  /\ Editing(o)
  /\ authRow' \in {authRow, IF edit[o].at = "writing" THEN edit[o].new ELSE authRow}
  /\ edit' = [edit EXCEPT ![o] = NoEdit] /\ torn' = TRUE
  /\ UNCHANGED <<keyed, server, auth, changes, guest, doorVars>>

(* The gateway ends, and starts again unless it is to accept a client key   *)
(* only and has none; the keys are read from the environment.               *)
Restart(clientKey, newKey) ==
  /\ clientKey \/ authRow.mode # "client_key"
  /\ keyed' = clientKey /\ adminKey' = newKey
  /\ auth' = authRow /\ torn' = FALSE
  /\ edit' = [o \in Operators |-> NoEdit]
  /\ guest' = [g \in Guests |-> Out]
  /\ UNCHANGED <<server, authRow, changes, hour, bypass, cookie, login>>

-----------------------------------------------------------------------------
(* The admin's door.                                                        *)
insideVars == <<keyed, server, editVars, guest>>
Login ==
  /\ adminKey # NoKey /\ cookie' = [key |-> adminKey, since |-> hour] /\ login' = cookie'
  /\ UNCHANGED <<insideVars, hour, adminKey, bypass>>
Logout ==
  /\ cookie # NoCookie /\ cookie' = NoCookie
  /\ UNCHANGED <<insideVars, hour, adminKey, bypass, login>>
Hour ==
  /\ hour < MaxHours /\ hour' = hour + 1
  /\ UNCHANGED <<insideVars, adminKey, bypass, cookie, login>>

(* _verify_session_token: the signature, then the age.                      *)
\* Mutant: a signature is enough.
SessionSigned == cookie.key = adminKey
SessionValid == cookie.key = adminKey /\ hour - cookie.since <= MaxAge
(* verify_admin_token and check_auth_or_redirect: HTTPBearer takes the      *)
(* scheme in either case, the latter does not.                              *)
Headers == {"none", "wrong", "Bearer key", "bearer key", "x-api-key"}
ApiAccepts(loopback, header) ==
  \/ bypass /\ loopback
  \/ adminKey # NoKey /\ (SessionValid \/ header \in {"Bearer key", "bearer key", "x-api-key"})
PageServed(loopback, header) ==
  \/ bypass /\ loopback
  \/ adminKey # NoKey /\ (SessionValid \/ header \in {"Bearer key", "x-api-key"})

GateNext ==
  \/ \E g \in Guests :
       \/ \E token \in Credentials, bearer \in BOOLEAN : Arrive(g, token, bearer)
       \/ VerifyToken(g) \/ Validated(g) \/ CheckRateLimit(g)
       \/ \E override \in Overrides : ResolveClient(g, override)
       \/ ProxyPassthrough(g)
  \/ \E o \in Operators : \/ \E new \in Config : UpdateConfig(o, new)
                          \/ StoreConfig(o) \/ SwapConfig(o) \/ UpdateFails(o)
  \/ \E clientKey \in BOOLEAN : Restart(clientKey, adminKey)
DoorNext == Login \/ Logout \/ Hour \/ \E newKey \in {NoKey, "k1", "k2"} : Restart(keyed, newKey)

-----------------------------------------------------------------------------
(* Whoever is let in has a title to it, and the right account pays, while   *)
(* the mode changes between the two times a request reads it: the server's  *)
(* key is spent only on the shared client key, and not if the mode was      *)
(* passthrough throughout; the shared client key leaves for Anthropic       *)
(* through /v1/messages only if it was passthrough at some time; credentials*)
(* that are neither the shared key nor good at Anthropic leave only         *)
(* unvalidated or inconclusive; and nothing else than the shared key passes *)
(* if the mode was client_key throughout.                                   *)
RightAccount ==
  \A g \in Guests : guest[g].at = "sent" =>
    LET v     == guest[g]
        modes == {c.mode : c \in v.seen}
    IN  /\ v.sent = "server key" => Matches(g) /\ modes # {"passthrough"}
        /\ v.sent = "token" /\ Matches(g) => "passthrough" \in modes
        /\ v.token # "own" /\ ~Matches(g) => v.bearer \/ \E c \in v.seen : c.mode # "client_key" /\ ~c.validate
        /\ ~Matches(g) => modes # {"client_key"}

(* The pages and the API of the admin open to the same people: a page that  *)
(* is served can make its calls; and without the key only to somebody who   *)
(* logged in with the key that is set now, at most a session's age ago,     *)
(* whatever restarts and logouts came in between.                           *)
OneDoor ==
  \A l \in BOOLEAN, h \in Headers :
    /\ PageServed(l, h) => ApiAccepts(l, h)
    /\ ApiAccepts(l, h) /\ h \in {"none", "wrong"} /\ ~(l /\ bypass) =>
         login.key = adminKey /\ hour <= login.since + MaxAge
LetInRightly == RightAccount /\ OneDoor

(* The mode in force is the one a restart would load, unless two changes    *)
(* overlapped or one failed: then memory and row may differ from there on.  *)
ModeAgrees == ~torn /\ (\A o \in Operators : ~Editing(o)) => auth = authRow
=============================================================================
