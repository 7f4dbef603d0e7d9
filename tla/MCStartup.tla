----------------------------- MODULE MCStartup -----------------------------
(* Two addresses and two ports; config files as the package installs them,  *)
(* without a certificate, and without scripts that can be read.             *)
EXTENDS Startup
CONSTANTS lan, local127, p1, p2
TwoBinds == {lan, local127}
TwoPorts == {p1, p2}
Installed == [bind |-> lan, port |-> p1, tls |-> FALSE, pair |-> TRUE,
              schema |-> TRUE, seed |-> TRUE]
ThreeFiles == {Installed,
               [Installed EXCEPT !.tls = TRUE, !.pair = FALSE, !.seed = FALSE],
               [Installed EXCEPT !.schema = FALSE]}
============================================================================
