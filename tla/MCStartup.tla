----------------------------- MODULE MCStartup -----------------------------
EXTENDS Startup

CONSTANTS i1, i2, w1, w2

MCInstances == {i1, i2}
MCWorkers == {w1, w2}
MCTableSeq == <<"customers", "accounts">>
MCListed == {"customers", "accounts"}
MCKeys == {"c1", "a1"}
MCTableOf == [k \in MCKeys |-> IF k = "c1" THEN "customers" ELSE "accounts"]
MCParents == [k \in MCKeys |-> IF k = "a1" THEN {"c1"} ELSE {}]
MCLocalHosts == {"localhost", "127.0.0.1", "::1"}
MCRemoteHosts == {"rds", "10.0.0.7"}
With(sink, host, connector, produce, seed) ==
    [sink |-> sink, host |-> host, connector |-> connector,
     produce |-> produce, seed |-> seed]
\* A local database, two remote ones, one on a socket, the connector set by hand
\* and no events; with SINK=kafka no database, or a remote one whose topics a
\* connector owns.
MCSettings ==
    {With("postgres", "localhost", None, TRUE, TRUE),
     With("postgres", "rds", None, TRUE, TRUE),
     With("postgres", "10.0.0.7", None, TRUE, FALSE),
     With("postgres", "", None, TRUE, TRUE),
     With("postgres", "rds", FALSE, FALSE, FALSE),
     With("kafka", None, None, FALSE, TRUE),
     With("kafka", "rds", None, TRUE, TRUE)}
=============================================================================
