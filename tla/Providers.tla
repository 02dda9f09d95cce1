----------------------------- MODULE Providers -----------------------------
(***************************************************************************)
(* The stored provider configurations (BYOK): services/provider_configs.py *)
(* with ProviderConfigRepository and the endpoints of api/routers/         *)
(* provider_configs.py.  One of them is the default, which a new review    *)
(* and every run take their credentials from.                              *)
(***************************************************************************)
EXTENDS Api

CONSTANTS
    Models,     \* the models configurations are created for
    EnvModel    \* settings.default_model

VARIABLES
    config,     \* [model, default]; the key of configuration c is c
    lostKeys,   \* the configurations whose key is encrypted under a secret that is gone
    overlaps,   \* history: defaults cleared while another request was about to set one
    removed,    \* history: since a default was last set, one was deleted, or a request
                \* that had cleared the defaults ended without setting its own
    epoch       \* history: how often the table, or what can be read of it, has changed

pvars == <<config, lostKeys, overlaps, removed, epoch>>

Defaults == {c \in DOMAIN config : config[c].default}

\* The requests that have cleared the defaults and not yet set theirs.
Setting == {r \in Requests : req[r].at \in {"creating", "setting"}}

Cleared == [c \in DOMAIN config |-> [config[c] EXCEPT !.default = FALSE]]

\* clear_defaults, committed by itself.
ClearDefaults ==
    /\ config' = Cleared
    /\ overlaps' = overlaps + Cardinality(Setting)
    /\ epoch' = epoch + 1
    /\ UNCHANGED <<lostKeys, removed>>

\* create_provider_config of a default configuration, up to its insert.
CreateDefault(r, m) ==
    /\ In(r, "waiting")
    /\ ClearDefaults
    /\ Await(r, [at |-> "creating", model |-> m])

\* The flush or the commit of a request that has cleared the defaults raises: a
\* value does not fit its column, the configuration was deleted meanwhile, the
\* database is away.  The defaults stay cleared.
StoreRaises(r) ==
    /\ removed' = TRUE
    /\ Answer(r)
    /\ UNCHANGED <<config, lostKeys, overlaps, epoch>>

InsertConfig(r, m, default) ==
    /\ config' = InsertRow(config, r, [model |-> m, default |-> default])
    /\ removed' = (removed /\ ~default)
    /\ epoch' = epoch + 1
    /\ Answer(r)
    /\ UNCHANGED <<lostKeys, overlaps>>

InsertDefault(r) ==
    /\ In(r, "creating")
    /\ InsertConfig(r, req[r].model, TRUE) \/ StoreRaises(r)

\* create_provider_config of another configuration.
CreateConfig(r, m) == In(r, "waiting") /\ InsertConfig(r, m, FALSE)

SetDefaultLoad(r, c) ==
    /\ In(r, "waiting")
    /\ c \in DOMAIN config
    /\ Await(r, [at |-> "loaded", config |-> c])
    /\ UNCHANGED pvars

\* Seeded fault: the other defaults are not cleared.
SetDefaultClear_Skip(r) ==
    /\ In(r, "loaded")
    /\ Await(r, [at |-> "setting", config |-> req[r].config])
    /\ UNCHANGED pvars

SetDefaultClear(r) ==
    /\ In(r, "loaded")
    /\ ClearDefaults
    /\ Await(r, [at |-> "setting", config |-> req[r].config])

\* Seeded fault: a configuration that was the default when it was loaded is not
\* written again.
SetDefaultStore_Stale(r) ==
    /\ In(r, "setting")
    /\ LET c == req[r].config IN
           /\ config' = IF c \in DOMAIN config /\ config[c].default
                        THEN [config EXCEPT ![c].default = TRUE] ELSE config
           /\ removed' = FALSE
    /\ epoch' = epoch + 1
    /\ Answer(r)
    /\ UNCHANGED <<lostKeys, overlaps>>

\* set_default, its second commit: it raises if the configuration was deleted, and it
\* may raise if it was not.
SetDefaultStore(r) ==
    /\ In(r, "setting")
    /\ \/ /\ req[r].config \in DOMAIN config
          /\ config' = [config EXCEPT ![req[r].config].default = TRUE]
          /\ removed' = FALSE
          /\ epoch' = epoch + 1
          /\ Answer(r)
          /\ UNCHANGED <<lostKeys, overlaps>>
       \/ StoreRaises(r)

\* A second deletion of the same row deletes nothing and raises nothing.
DeleteConfig(r, c) ==
    /\ In(r, "waiting")
    /\ c \in DOMAIN config
    /\ config' = DeleteRows(config, {c})
    /\ removed' = (removed \/ config[c].default)
    /\ epoch' = epoch + 1
    /\ Answer(r)
    /\ UNCHANGED <<lostKeys, overlaps>>

\* The process is started again with another APP_SECRET_KEY: what is stored cannot be
\* decrypted any more.
ChangeSecret ==
    /\ lostKeys' = DOMAIN config
    /\ epoch' = epoch + 1

EnvCredentials == [model |-> EnvModel, key |-> None]

\* Seeded fault: the default flag is not looked at.
Credentials_Any ==
    IF DOMAIN config = {} THEN {EnvCredentials}
    ELSE {[model |-> config[c].model, key |-> c] : c \in DOMAIN config}

\* resolve_credentials: of several defaults, any (get_default has no ORDER BY); one
\* whose key cannot be decrypted is as good as none.
Credentials ==
    IF Defaults = {} THEN {EnvCredentials}
    ELSE {IF c \in lostKeys THEN EnvCredentials
          ELSE [model |-> config[c].model, key |-> c] : c \in Defaults}

-----------------------------------------------------------------------------
(* Correctness.                                                             *)

\* There is at most one default, except for requests that overlapped between
\* their clearing and their setting of it.
DefaultsBounded == Cardinality(Defaults) <= 1 + overlaps

\* A default that was set is there as long as nobody deletes it and no request that
\* has cleared the defaults ends before its own is set (in a crash, by a commit that
\* raises, or because its configuration was deleted), however the requests that set
\* one are interleaved; while one is being set there may be none.
DefaultKept == ~removed /\ Setting = {} => Defaults # {}

=============================================================================
