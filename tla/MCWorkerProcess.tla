-------------------------- MODULE MCWorkerProcess --------------------------
(* Settings around those of a staging worker and of a local one. *)
EXTENDS WorkerProcess, TLC

Staging == [environment |-> "staging", ownSecret |-> TRUE,
            storage |-> "s3", bucket |-> TRUE, region |-> TRUE, endpoint |-> "none",
            scanner |-> "clamd", loopback |-> TRUE, gate |-> FALSE,
            connectTimeout |-> 1, scanTimeout |-> 2, gateTimeout |-> 1,
            maxAge |-> 1, skew |-> 1, softLimit |-> 5, hardLimit |-> 6, visibility |-> 7,
            database |-> "silent", rootCert |-> TRUE,
            redis |-> "silent", broker |-> "silent", backend |-> "silent"]

Local == [Staging EXCEPT !.environment = "local", !.ownSecret = FALSE, !.storage = "local",
                         !.bucket = FALSE, !.region = FALSE, !.scanner = "fake",
                         !.database = "silent", !.rootCert = FALSE,
                         !.redis = "plain", !.broker = "plain", !.backend = "plain"]

\* One setting away from a base.
Around(s) ==
    {s} \cup {[s EXCEPT !.environment = x] : x \in Environments}
    \cup {[s EXCEPT !.ownSecret = x] : x \in BOOLEAN}
    \cup {[s EXCEPT !.storage = x] : x \in {"local", "s3"}}
    \cup {[s EXCEPT !.bucket = FALSE], [s EXCEPT !.region = FALSE]}
    \cup {[s EXCEPT !.endpoint = x] : x \in {"blank", "http", "https"}}
    \cup {[s EXCEPT !.scanner = x] : x \in {"fake", "external", "clamd"}}
    \cup {[s EXCEPT !.loopback = FALSE], [s EXCEPT !.gate = TRUE]}
    \cup {[s EXCEPT !.connectTimeout = 0], [s EXCEPT !.scanTimeout = 5]}
    \cup {[s EXCEPT !.softLimit = 3], [s EXCEPT !.softLimit = 6]}
    \cup {[s EXCEPT !.visibility = 5], [s EXCEPT !.visibility = 6]}
    \cup {[s EXCEPT !.database = x] : x \in Urls \ {"nohost"}}
    \cup {[s EXCEPT !.rootCert = x] : x \in BOOLEAN}
    \cup {[s EXCEPT !.redis = x] : x \in Urls}
    \cup {[s EXCEPT !.broker = x] : x \in Urls} \cup {[s EXCEPT !.backend = x] : x \in Urls}

Tried == Around(Staging) \cup Around(Local)

Symmetry == Permutations(Pids)
=============================================================================
