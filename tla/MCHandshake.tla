---------------------------- MODULE MCHandshake ----------------------------
(* Instances of Handshake: three suites, of which one needs TLS 1.2 and two *)
(* have a ServerKeyExchange; clients and servers that differ in versions,   *)
(* lists and certificates.                                                  *)
EXTENDS Handshake

MCClients ==
  { [min |-> 2, max |-> 3, suites |-> << "ecdhe_gcm", "ecdhe_cbc", "rsa_cbc" >>, cert |-> "empty"],
    [min |-> 1, max |-> 2, suites |-> << "rsa_cbc", "ecdhe_cbc" >>, cert |-> "good"],
    [min |-> 3, max |-> 3, suites |-> << "ecdhe_gcm", "rsa_cbc" >>, cert |-> "bad"] }

MCServers ==
  { [min |-> 1, max |-> 3, suites |-> {"ecdhe_gcm", "rsa_cbc"}, cert |-> "good",
     asks |-> FALSE, lenient |-> FALSE],
    [min |-> 1, max |-> 3, suites |-> {"ecdhe_cbc", "rsa_cbc"}, cert |-> "good",
     asks |-> TRUE, lenient |-> TRUE],
    [min |-> 2, max |-> 2, suites |-> {"ecdhe_gcm", "rsa_cbc"}, cert |-> "good",
     asks |-> TRUE, lenient |-> FALSE],
    [min |-> 3, max |-> 3, suites |-> {"ecdhe_gcm"}, cert |-> "bad",
     asks |-> FALSE, lenient |-> FALSE] }
=============================================================================
