---------------------------- MODULE MCClusterPass ----------------------------
(* Values of the constants of ClusterPass for TLC. *)
EXTENDS ClusterPass

CONSTANTS r1, r2

Plain == [transport |-> "off", http |-> "off", explicit |-> FALSE, adminSecret |-> FALSE, caGiven |-> FALSE,
          config |-> TRUE, volume |-> FALSE, dashboards |-> "off", repos |-> {}, refused |-> {}, replicas |-> 1, clock |-> FALSE,
          events |-> 1]
PerNode == [Plain EXCEPT !.transport = "perNode", !.clock = TRUE, !.events = 2]
GlobalCert == [Plain EXCEPT !.transport = "global", !.http = "generate", !.replicas = 2]
OwnCa == [Plain EXCEPT !.transport = "perNode", !.http = "generate", !.caGiven = TRUE]
OwnCerts == [Plain EXCEPT !.transport = "existing", !.http = "existing", !.adminSecret = TRUE, !.volume = TRUE]
Missing == [Plain EXCEPT !.transport = "missing"]
Front == [Plain EXCEPT !.config = FALSE, !.dashboards = "tls", !.repos = {r1, r2}, !.refused = {r1}]
Refused == {[PerNode EXCEPT !.http = "existing"], [Missing EXCEPT !.explicit = TRUE]}

TheSetups == {PerNode, GlobalCert, OwnCa, OwnCerts, Missing, Front} \cup Refused
==============================================================================
