---------------------------- MODULE MCDistributed ----------------------------
\* Two hosts, listed in the gateway's remote_hosts.
EXTENDS DistributedProcessProxy, TLC

CONSTANTS h1, h2

MCHosts == {h1, h2}
OneSpec == {<<h1, h2>>}
====
