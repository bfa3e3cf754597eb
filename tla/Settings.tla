------------------------------ MODULE Settings ------------------------------
(***************************************************************************)
(* The configuration of a process (app/config.py): which settings are      *)
(* accepted, and how the clients built from them (infrastructure/          *)
(* database.py, infrastructure/redis.py, worker.py, documents/             *)
(* composition.py) protect their connections.                              *)
(*                                                                         *)
(* A URL is kept as what it says about the transport: "plain" (another     *)
(* scheme than the one that can be verified), "silent" (that scheme and no *)
(* more), "strict" (it asks for full verification), "weak" (it asks for    *)
(* less) and, for Redis, "nohost" (certificates but not the hostname).     *)
(* Times are in seconds.                                                   *)
(***************************************************************************)
EXTENDS Naturals

Environments == {"local", "test", "staging", "production"}

Urls == {"plain", "silent", "strict", "weak", "nohost"}

SettingsRow ==
    [environment : Environments, ownSecret : BOOLEAN,
     storage : {"local", "s3"}, bucket : BOOLEAN, region : BOOLEAN,
     endpoint : {"none", "blank", "http", "https"},
     scanner : {"fake", "external", "clamd"}, loopback : BOOLEAN, gate : BOOLEAN,
     connectTimeout : Nat, scanTimeout : Nat, gateTimeout : Nat,
     maxAge : Nat, skew : Nat, softLimit : Nat, hardLimit : Nat, visibility : Nat,
     database : Urls \ {"nohost"}, rootCert : BOOLEAN, redis : Urls, broker : Urls, backend : Urls]

Deployed(s) == s.environment \in {"staging", "production"}

\* The bounds of the fields; the bound of sixty seconds below maxAge is left out,
\* so that an instance can have ages as small as its other times.
InBounds(s) ==
    /\ s.connectTimeout \in 1..10 /\ s.scanTimeout \in 1..600 /\ s.gateTimeout \in 1..300
    /\ s.maxAge \in 0..604800 /\ s.skew \in 0..3600
    /\ s.softLimit \in 1..600 /\ s.hardLimit \in 2..900
    /\ s.visibility \in 5..86400

\* _require_verified_redis_tls.
RedisTlsVerified(url) == url \in {"silent", "strict"}

\* _require_verified_database_tls.
DatabaseTlsVerified(url, rootCert) == url \in {"silent", "strict"} /\ rootCert

\* Mutation of Accepted: a deployed environment may use the fake scanner.
AcceptedFakeScanner(s) ==
    /\ InBounds(s)
    /\ Deployed(s) => /\ s.ownSecret /\ s.storage = "s3"
                      /\ s.endpoint \in {"none", "https"}
                      /\ s.scanner = "clamd" => s.loopback
                      /\ s.visibility > s.hardLimit
                      /\ DatabaseTlsVerified(s.database, s.rootCert)
                      /\ \A url \in {s.redis, s.broker, s.backend} : RedisTlsVerified(url)
    /\ s.storage = "s3" => s.bucket /\ s.region
    /\ s.gate => ~ Deployed(s) /\ s.scanner = "fake"
    /\ s.hardLimit > s.softLimit /\ s.scanTimeout < s.softLimit

\* Mutation of Accepted: the visibility timeout is not compared.
AcceptedAnyVisibility(s) ==
    /\ InBounds(s)
    /\ Deployed(s) => /\ s.ownSecret /\ s.scanner # "fake" /\ s.storage = "s3"
                      /\ s.endpoint \in {"none", "https"}
                      /\ s.scanner = "clamd" => s.loopback
                      /\ DatabaseTlsVerified(s.database, s.rootCert)
                      /\ \A url \in {s.redis, s.broker, s.backend} : RedisTlsVerified(url)
    /\ s.storage = "s3" => s.bucket /\ s.region
    /\ s.gate => ~ Deployed(s) /\ s.scanner = "fake"
    /\ s.hardLimit > s.softLimit /\ s.scanTimeout < s.softLimit

\* The checks of the validator, which all must pass.
Accepted(s) ==
    /\ InBounds(s)
    /\ Deployed(s) => /\ s.ownSecret /\ s.scanner # "fake" /\ s.storage = "s3"
                      /\ s.endpoint \in {"none", "https"}
                      /\ s.scanner = "clamd" => s.loopback
                      /\ s.visibility > s.hardLimit
                      /\ DatabaseTlsVerified(s.database, s.rootCert)
                      /\ \A url \in {s.redis, s.broker, s.backend} : RedisTlsVerified(url)
    /\ s.storage = "s3" => s.bucket /\ s.region
    /\ s.gate => ~ Deployed(s) /\ s.scanner = "fake"
    /\ s.hardLimit > s.softLimit /\ s.scanTimeout < s.softLimit

-----------------------------------------------------------------------------
\* How the clients connect.  The engine's own arguments, there when a root
\* certificate is configured, go before what the URL says.
DatabaseVerified(s) == s.rootCert \/ s.database = "strict"

\* The session store's client adds its demands, but the URL goes before them.
RedisVerified(s) == s.redis \in {"silent", "strict"}

\* Mutation of CeleryVerified: the client adds nothing to the URLs.
CeleryVerifiedByUrl(s) == \A url \in {s.broker, s.backend} : url = "strict"

\* Broker and result backend: the client adds its demands when deployed.
CeleryVerified(s) ==
    \A url \in {s.broker, s.backend} : url = "strict" \/ (url = "silent" /\ Deployed(s))

\* Without an endpoint the object store's own HTTPS endpoint is used.
StorageVerified(s) == s.storage = "s3" => s.endpoint # "http"
=============================================================================
