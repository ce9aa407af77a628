----------------------------- MODULE Configuration ------------------------------
(***************************************************************************)
(* How the value of one configuration field comes about: what main() does   *)
(* to the process's environment before it reads its settings, what the      *)
(* ConfigRegistry makes of the layers (command line > environment >         *)
(* gateway_config > default) at startup, and the admin endpoints that write *)
(* and delete the stored value while the gateway runs. The fields do not    *)
(* depend on each other; a behaviour follows one of them through restarts.  *)
(***************************************************************************)
EXTENDS Naturals

CONSTANTS
  Admins,
  Values,    \* what a field may be set to, Default among them
  Default,
  Local      \* what --local and the automatic set-up force, not in Values

VARIABLES
  field,     \* the field, one of Fields
  dotenv,    \* its value in the .env file
  shell,     \* its value in the environment the process is started with
  row,       \* its row of gateway_config
  status,    \* "down", "booting" or "up"
  flag,      \* its command-line flag
  local,     \* whether --local was given
  environ,   \* its value in os.environ
  settings,  \* the attribute of the Settings singleton
  snapshot,  \* the registry's copy of the environment layer
  stored,    \* the registry's copy of the row
  resolved,  \* the value and source the registry reports
  used,      \* the value the running gateway was built with
  admin,     \* what each admin's request is doing
  changed    \* the row may differ from the registry's copy, or was written since startup

Unset == "unset"
Bad == "bad"
Fields == {"database_url", "gateway_port", "log_level", "webhook_url", "verbose_client_errors"}

(* Read by main() before the lifespan builds the registry; the others are   *)
(* read by the lifespan, and verbose_client_errors each time it is needed.  *)
Early(f)       == f \in {"database_url", "gateway_port", "log_level"}
ReadLive(f)    == f = "verbose_client_errors"
DbSettable(f)  == f \in {"log_level", "verbose_client_errors"}
Provisioned(f) == f = "database_url"

First(x, y) == IF x # Unset THEN x ELSE y

\* Mutant: a flag does not reach os.environ.
FlagIgnored(c) == shell
(* main(): the flags are written into os.environ, --local then overwrites   *)
(* what it forces, and auto_provision_defaults fills in what os.environ     *)
(* lacks, whatever .env says.                                               *)
Flagged(c) == First(c, shell)
Environ(f, c, l) ==
  IF Provisioned(f) /\ (l \/ Flagged(c) = Unset) THEN Local ELSE Flagged(c)
(* pydantic-settings: the environment before the .env file.                 *)
Settings(f, c, l) == First(Environ(f, c, l), First(dotenv, Default))

(* _snapshot_env_values: a value from .env shows only if it differs from    *)
(* the default.                                                             *)
Snapshot(env, set) == IF env # Unset \/ set # Default THEN set ELSE Unset

(* The environment layer of a value resolved later: the copy, since by then *)
(* the settings hold resolved values.                                       *)
EnvLayerLive == Snapshot(environ, settings)
EnvLayer == snapshot

(* _resolve_field                                                           *)
Resolve(f, c, env, db) ==
  CASE c # Unset   -> [value |-> c, source |-> "cli"]
    [] c = Unset /\ env # Unset -> [value |-> env, source |-> "env"]
    [] c = Unset /\ env = Unset /\ DbSettable(f) /\ db # Unset -> [value |-> db, source |-> "db"]
    [] OTHER       -> [value |-> Default, source |-> "default"]

Quiet == [at |-> "idle", to |-> Unset]
CfInit ==
  /\ field \in Fields
  /\ dotenv \in Values \cup {Unset} /\ shell \in Values \cup {Unset}
  /\ row \in Values \cup {Unset} \cup (IF ReadLive(field) THEN {Bad} ELSE {})
  /\ status = "down" /\ flag = Unset /\ local = FALSE
  /\ environ = Unset /\ settings = Default /\ used = Default /\ changed = FALSE
  /\ snapshot = Unset /\ stored = Unset /\ resolved = [value |-> Default, source |-> "default"]
  /\ admin = [a \in Admins |-> Quiet]

(* main() up to serve(): what it reads now it keeps.                        *)
Launch(c, l) ==
  /\ status = "down"
  /\ status' = "booting" /\ flag' = c /\ local' = l
  /\ environ' = Environ(field, c, l)
  /\ settings' = Settings(field, c, l) /\ used' = Settings(field, c, l)
  /\ UNCHANGED <<field, dotenv, shell, row, snapshot, stored, resolved, admin, changed>>

(* The lifespan's registry: a row that cannot be coerced stops the startup, *)
(* a table that cannot be read is taken for an empty one.                   *)
Initialize(db) ==
  /\ status = "booting" /\ db \in {row, Unset}
  /\ IF db = Bad
       THEN status' = "down" /\ UNCHANGED <<settings, snapshot, stored, resolved, used, changed>>
       ELSE LET env == Snapshot(environ, settings)
                res == Resolve(field, flag, env, db)
            IN  /\ status' = "up" /\ snapshot' = env /\ stored' = db /\ resolved' = res
                /\ settings' = res.value
                /\ used' = IF Early(field) THEN used ELSE res.value
                /\ changed' = (db # row)
  /\ UNCHANGED <<field, dotenv, shell, row, flag, local, environ, admin>>

(* set_db_value (to a value) and delete_db_value (to Unset), after the      *)
(* endpoint's checks: under the registry's lock, refused with 409 while the *)
(* command line or the environment overrides the row.                       *)
Free == \A a \in Admins : admin[a].at = "idle"
Begin(a, v) ==
  /\ status = "up" /\ Free /\ DbSettable(field)
  /\ resolved.source \notin {"cli", "env"}
  /\ admin' = [admin EXCEPT ![a] = [at |-> "writing", to |-> v]]
  /\ UNCHANGED <<field, dotenv, shell, row, status, flag, local, environ, settings, snapshot, stored, resolved, used, changed>>
Execute(a) ==
  /\ admin[a].at = "writing"
  /\ row' = admin[a].to
  /\ admin' = [admin EXCEPT ![a].at = "written"]
  /\ UNCHANGED <<field, dotenv, shell, status, flag, local, environ, settings, snapshot, stored, resolved, used, changed>>
Apply(a) ==
  /\ admin[a].at = "written"
  /\ LET res == Resolve(field, flag, EnvLayer, admin[a].to)
     IN  /\ stored' = admin[a].to /\ resolved' = res /\ settings' = res.value
         /\ used' = IF ReadLive(field) THEN res.value ELSE used
         /\ changed' = FALSE
  /\ admin' = [admin EXCEPT ![a] = Quiet]
  /\ UNCHANGED <<field, dotenv, shell, row, status, flag, local, environ, snapshot>>
(* The database refuses the write, or took it and the answer is lost; the   *)
(* request ends with an error.                                              *)
WriteFails(a) ==
  /\ admin[a].at \in {"writing", "written"}
  /\ admin' = [admin EXCEPT ![a] = Quiet] /\ changed' = (row # stored \/ changed)
  /\ UNCHANGED <<field, dotenv, shell, row, status, flag, local, environ, settings, snapshot, stored, resolved, used>>

(* The gateway ends, and its operator may edit .env before the next start.  *)
Ends == /\ status # "down" /\ status' = "down"
        /\ admin' = [a \in Admins |-> Quiet] /\ changed' = FALSE
        /\ UNCHANGED <<field, dotenv, shell, row, flag, local, environ, settings, snapshot, stored, resolved, used>>

CfNext == \/ \E c \in Values \cup {Unset}, l \in BOOLEAN : Launch(c, l)
          \/ \E db \in Values \cup {Unset, Bad} : Initialize(db)
          \/ \E a \in Admins : \/ \E v \in Values \cup {Unset} : Begin(a, v)
                               \/ Execute(a) \/ Apply(a) \/ WriteFails(a)
          \/ Ends

-----------------------------------------------------------------------------
(* What is in force is what a restart with the same flags and environment   *)
(* would bring: whatever the admins set and deleted, in whichever order,    *)
(* the registry's layers have not drifted from their sources, unless a row  *)
(* could not be read or the outcome of a write is unknown.                  *)
RestartAgrees ==
  status = "up" /\ Free /\ ~changed =>
    LET env == Snapshot(environ, Settings(field, flag, local))
    IN  resolved = Resolve(field, flag, env, row) /\ settings = resolved.value

(* The gateway works with the value its dashboard reports, with two         *)
(* exceptions: a log level that comes from the database, which main() reads *)
(* too early, and a --database-url that --local overrode.                   *)
ReportedIsUsed ==
  status = "up" /\ Free =>
    \/ used = resolved.value
    \/ field = "log_level" /\ resolved.source = "db"
    \/ field = "database_url" /\ flag # Unset /\ local
=============================================================================
