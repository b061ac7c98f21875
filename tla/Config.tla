--------------------------------- MODULE Config ---------------------------------
(***************************************************************************)
(* "gokvx validate-config" (cmd/gokvx, internal/config): Load puts the      *)
(* defaults, the file, the environment and the flags on top of each other,  *)
(* Validate checks the rules, and an operator who is told what is wrong     *)
(* corrects it and tries again.                                             *)
(*                                                                          *)
(* The keys here are those whose rules involve other keys.  storage.        *)
(* wal_segment_bytes and node.data_dir also stand for the keys whose rule   *)
(* concerns only themselves, listen.client for listen.peer, listen.metrics  *)
(* for the other optional addresses and the tracing endpoint, issuer_url    *)
(* for jwks_url, max_key_bytes for max_value_bytes, and the SANs for the    *)
(* TLS files beside them.  A value is a class of values that no rule tells  *)
(* apart: "production" is also staging.                                     *)
(***************************************************************************)
EXTENDS Naturals, FiniteSets

CONSTANTS
    Bases,     \* what the file may contain to begin with
    MaxExtra   \* bound: settings that file, environment and flags have beyond that

VARIABLES
    file, env, flags,  \* the sources: name |-> value
    edits,             \* how many settings the operator has added
    phase,             \* "edit", "start", "loaded", "valid", "invalid", "rejected", "wrongType"
    cfg,               \* what Load returned
    report,            \* the names in the violations of the last error
    before,            \* ghost: the configuration and the report before the last correction
    rounds             \* ghost: how many corrections there have been

vars == <<file, env, flags, edits, phase, cfg, report, before, rounds>>

(* The keys auth.scopes.*, in the order in which validateScopes sees them. *)
Scopes == <<"readScope", "writeScope", "watchScope", "adminScope">>
ScopeNames == {"kv:read", "kv:write", "kv:watch", "kv:admin", ""}

(* The values of each key; "typo" and "malformed" are values no rule        *)
(* accepts, "wrongType" is one that does not decode.                        *)
Domain == [
    environment |-> {"production", "development", "typo"},
    mode        |-> {"enabled", "disabled", "typo"},
    allowRemote |-> {"no", "yes"},
    client      |-> {"remote", "loopback", "malformed"},
    metrics     |-> {"loopback", "remote", "", "malformed"},
    metricsOn   |-> {"yes", "no"},
    issuer      |-> {"", "https", "malformed"},
    readScope   |-> ScopeNames,
    writeScope  |-> ScopeNames,
    watchScope  |-> ScopeNames,
    adminScope  |-> ScopeNames,
    tls         |-> {"yes", "no"},
    clientSANs  |-> {"", "set"},
    peers       |-> {"", "set", "malformed"},
    peerSANs    |-> {"", "set"},
    fsync       |-> {"always", "interval", "os", "typo"},
    interval    |-> {"positive", "zero", "wrongType"},
    segment     |-> {"positive", "zero"},
    dataDir     |-> {"set", ""},
    keyBytes    |-> {"small", "large", "zero"},
    requestBytes |-> {"large", "small", "zero"},
    heartbeat   |-> {"small", "large", "zero"},
    election    |-> {"small", "large", "zero"},
    logFormat   |-> {"json", "text", "typo"}]

Keys == DOMAIN Domain

(* Defaults. *)
Defaults == [
    environment |-> "production", mode |-> "enabled", allowRemote |-> "no",
    client |-> "remote", metrics |-> "loopback", metricsOn |-> "yes", issuer |-> "",
    readScope |-> "kv:read", writeScope |-> "kv:write", watchScope |-> "kv:watch",
    adminScope |-> "kv:admin", tls |-> "yes", clientSANs |-> "", peers |-> "",
    peerSANs |-> "", fsync |-> "always", interval |-> "positive", segment |-> "positive",
    dataDir |-> "set", keyBytes |-> "small", requestBytes |-> "large",
    heartbeat |-> "small", election |-> "small", logFormat |-> "json"]

(* Sizes in order.  A tick count's size is that of ten times the heartbeat, *)
(* in which 10*HeartbeatTicks does not overflow.                            *)
Size == [zero |-> 0, small |-> 1, large |-> 2]

(* Names that are not keys: one nobody knows, a section that was given a    *)
(* value, and a variable that Kubernetes injects for a Service.             *)
Unknown == {"unknown", "section", "serviceLink"}

-----------------------------------------------------------------------------
(* Load *)

(* set, for every key of a source. *)
Over(base, source) ==
    [k \in Keys |-> IF k \in DOMAIN source THEN source[k] ELSE base[k]]

(* setDefaults, loadFile, loadEnv and loadFlags, in this order. *)
Layered == Over(Over(Over(Defaults, file), env), flags)

(* loadFile and loadEnv record the names they do not know; a service link   *)
(* is no mistake in the environment.                                        *)
UnknownNames ==
    (DOMAIN file \cap Unknown) \cup (DOMAIN env \cap (Unknown \ {"serviceLink"}))

(* Unknown names are reported together, before values are decoded. *)
Load ==
    /\ phase = "start"
    /\ IF UnknownNames # {}
       THEN phase' = "rejected" /\ report' = UnknownNames /\ UNCHANGED cfg
       ELSE IF \E k \in Keys : Layered[k] = "wrongType"
       THEN phase' = "wrongType" /\ report' = {} /\ UNCHANGED cfg
       ELSE phase' = "loaded" /\ report' = {} /\ cfg' = Layered
    /\ UNCHANGED <<file, env, flags, edits, before, rounds>>

-----------------------------------------------------------------------------
(* Validate: the keys that each part of it records *)

When(condition, keys) == IF condition THEN keys ELSE {}

validateNode(c) ==
    When(c.environment \notin {"production", "development"}, {"environment"})
    \cup When(c.dataDir = "", {"dataDir"})

validateListen(c) ==
    When(c.client = "malformed", {"client"})
    \cup When((c.metricsOn = "yes" \/ c.metrics # "") /\ c.metrics \in {"", "malformed"},
              {"metrics"})

(* The issuer's URL matters only while authentication is enabled. *)
validateJWT(c) == When(c.mode = "enabled" /\ c.issuer # "https", {"issuer"})

(* No scope is empty, and none is the same as an earlier one. *)
validateScopes(c) ==
    {Scopes[n] : n \in {m \in DOMAIN Scopes :
        \/ c[Scopes[m]] = ""
        \/ \E l \in 1..(m - 1) : c[Scopes[l]] = c[Scopes[m]]}}

(* Mutated: an address on every interface passes for loopback. *)
isLoopbackAny(addr) == addr \in {"loopback", "remote"}

isLoopback(addr) == addr = "loopback"

validateAuth(c) ==
    LET exposed == {k \in {"client", "metrics"} : c[k] # "" /\ ~isLoopback(c[k])} IN
    When(c.mode \notin {"enabled", "disabled"}, {"mode"})
    \cup validateJWT(c) \cup validateScopes(c)
    \cup When(c.mode = "disabled" /\ c.environment # "development", {"mode"})
    \cup When(c.mode = "disabled" /\ c.allowRemote = "no", exposed)

validateTLS(c) ==
    IF c.tls = "no" THEN When(c.mode = "enabled", {"tls"})
    ELSE When(c.clientSANs = "", {"clientSANs"})
         \cup When(c.peers # "" /\ c.peerSANs = "", {"peerSANs"})

validateLimits(c) ==
    When(c.requestBytes = "zero", {"requestBytes"})
    \cup When(c.keyBytes = "zero" \/ Size[c.keyBytes] > Size[c.requestBytes], {"keyBytes"})

(* Mutated: the interval is not checked. *)
validateStorageAnyInterval(c) ==
    When(c.fsync \notin {"always", "interval", "os"}, {"fsync"})
    \cup When(c.segment # "positive", {"segment"})

validateStorage(c) ==
    When(c.fsync \notin {"always", "interval", "os"}, {"fsync"})
    \cup When(c.fsync = "interval" /\ c.interval # "positive", {"interval"})
    \cup When(c.segment # "positive", {"segment"})

validateCluster(c) ==
    When(c.peers = "malformed", {"peers"})
    \cup When(c.heartbeat = "zero", {"heartbeat"})
    \cup When(Size[c.election] < Size[c.heartbeat], {"election"})

validateObservability(c) ==
    When(c.logFormat \notin {"json", "text"}, {"logFormat"})
    \cup When(c.logFormat = "text" /\ c.environment # "development", {"logFormat"})

(* Mutated: Validate stops at the first part that finds something. *)
ViolationsFirst(c) ==
    IF validateNode(c) # {} THEN validateNode(c)
    ELSE IF validateAuth(c) # {} THEN validateAuth(c)
    ELSE validateListen(c) \cup validateTLS(c) \cup validateLimits(c) \cup validateStorage(c)
         \cup validateCluster(c) \cup validateObservability(c)

(* Validate runs every part, whatever the others found. *)
Violations(c) ==
    validateNode(c) \cup validateListen(c) \cup validateAuth(c) \cup validateTLS(c)
    \cup validateLimits(c) \cup validateStorage(c) \cup validateCluster(c)
    \cup validateObservability(c)

Validate ==
    /\ phase = "loaded"
    /\ report' = Violations(cfg)
    /\ phase' = IF report' = {} THEN "valid" ELSE "invalid"
    /\ UNCHANGED <<file, env, flags, edits, cfg, before, rounds>>

(* Warnings: the settings that weaken safety. *)
Warnings(c) ==
    When(c.mode = "disabled", {"mode"}) \cup When(c.allowRemote = "yes", {"allowRemote"})
    \cup When(c.tls = "no", {"tls"}) \cup When(c.fsync \in {"interval", "os"}, {"fsync"})

(* LogConfig.Validate, of the command log's part of the configuration.  Its *)
(* Dir is LogDir(dataDir), which is never empty.                            *)
LogConfigValid(c) ==
    /\ c.segment = "positive"
    /\ c.fsync \in {"always", "os"} \/ (c.fsync = "interval" /\ c.interval = "positive")

-----------------------------------------------------------------------------
(* The operator (external) *)

Without(source, names) == [k \in DOMAIN source \ names |-> source[k]]

RemoveUnknown ==
    /\ phase = "rejected"
    /\ file' = Without(file, report) /\ env' = Without(env, report)
    /\ phase' = "start"
    /\ UNCHANGED <<flags, edits, cfg, report, before, rounds>>

(* The operator gives every reported key a value of which, as things now    *)
(* stand, Validate does not complain.                                       *)
Correct ==
    LET values == UNION {Domain[k] : k \in report} \ {"wrongType"} IN
    /\ phase = "invalid"
    /\ \E fix \in [report -> values] :
        /\ \A k \in report : fix[k] \in Domain[k]
        /\ Violations(Over(cfg, fix)) \cap report = {}
        /\ flags' = [k \in DOMAIN flags \cup report |-> IF k \in report THEN fix[k] ELSE flags[k]]
    /\ phase' = "start"
    /\ before' = [cfg |-> cfg, report |-> report]
    /\ rounds' = rounds + 1
    /\ UNCHANGED <<file, env, edits, cfg, report>>

-----------------------------------------------------------------------------
Settings == UNION {{k} \X Domain[k] : k \in Keys} \cup (Unknown \X {"set"})

With(source, s) == [k \in DOMAIN source \cup {s[1]} |-> IF k = s[1] THEN s[2] ELSE source[k]]

(* Before the first run the operator adds settings.  A flag that is not  *)
(* a key, or whose value has the wrong type, does not parse.                *)
Edit ==
    /\ phase = "edit" /\ edits < MaxExtra
    /\ edits' = edits + 1
    /\ \E s \in Settings :
        \/ file' = With(file, s) /\ UNCHANGED <<env, flags>>
        \/ env' = With(env, s) /\ UNCHANGED <<file, flags>>
        \/ s[1] \in Keys /\ s[2] # "wrongType"
           /\ flags' = With(flags, s) /\ UNCHANGED <<file, env>>
    /\ UNCHANGED <<phase, cfg, report, before, rounds>>

Run ==
    /\ phase = "edit"
    /\ phase' = "start"
    /\ UNCHANGED <<file, env, flags, edits, cfg, report, before, rounds>>

Init ==
    /\ file \in Bases /\ env = << >> /\ flags = << >> /\ edits = 0
    /\ phase = "edit" /\ cfg = Defaults /\ report = {}
    /\ before = [cfg |-> Defaults, report |-> {}] /\ rounds = 0

Next == Edit \/ Run \/ Load \/ Validate \/ RemoveUnknown \/ Correct

Spec == Init /\ [][Next]_vars

-----------------------------------------------------------------------------
(* A valid configuration serves callers without authentication only in      *)
(* development, and beyond loopback only if the operator allowed it; each   *)
(* of these is among the warnings.                                          *)
UnauthenticatedOnlyLocally ==
    phase = "valid" /\ (cfg.mode # "enabled" \/ cfg.tls = "no") =>
        /\ cfg.environment = "development" /\ "mode" \in Warnings(cfg)
        /\ \/ cfg.client = "loopback" /\ cfg.metrics \in {"loopback", ""}
           \/ "allowRemote" \in Warnings(cfg)

(* OpenLog never rejects the settings that Validate let through. *)
LogConfigAccepted == phase = "valid" => LogConfigValid(cfg)

(* Validate reports all violations at once: when every reported key has     *)
(* been corrected nothing else is reported, unless the correction switched  *)
(* a feature on whose own settings did not matter before, gave one scope    *)
(* the name of another, or raised the heartbeat above the election ticks.   *)
FixedInOnePass ==
    phase = "invalid" /\ before.report # {} =>
        \/ \E k \in {"mode", "tls", "fsync", "heartbeat"} \cap before.report :
            cfg[k] # before.cfg[k]
        \/ \E l, m \in DOMAIN Scopes :
            /\ l < m /\ Scopes[l] \in before.report
            /\ cfg[Scopes[l]] = cfg[Scopes[m]]

(* However the operator corrects what is reported, four rounds lead to a    *)
(* valid configuration: a correction may uncover rules that Validate        *)
(* skipped (enabling authentication those on TLS, enabling TLS those on its *)
(* names) and a scope may be given the next one's name, but not for ever.   *)
FixedInFourPasses == phase = "invalid" => rounds < 4
=============================================================================
