----------------------------- MODULE MCPlatform ------------------------------
(* Small instances of Platform for TLC. *)
EXTENDS Platform

CONSTANTS a1, a2, a3, k1, k2

MCLoads == {
    [parts |-> {"follow", "block", "start", "chat", "marks"}, requests |-> 4, failures |-> 0],
    [parts |-> {"chat", "thread"},          requests |-> 2, failures |-> 1],
    [parts |-> {"block", "match"},          requests |-> 3, failures |-> 0],
    [parts |-> {"match"},                   requests |-> 4, failures |-> 1],
    [parts |-> {"moderation"},              requests |-> 4, failures |-> 0],
    [parts |-> {"auth"},                    requests |-> 5, failures |-> 1],
    [parts |-> {"auth", "moderation"},      requests |-> 3, failures |-> 1],
    [parts |-> {"moderation", "streaming"}, requests |-> 3, failures |-> 1],
    [parts |-> {"premium", "referral"},     requests |-> 4, failures |-> 1],
    [parts |-> {"caps"},                    requests |-> 3, failures |-> 0],
    [parts |-> {"caps", "orders"},          requests |-> 3, failures |-> 0],
    [parts |-> {"cooling", "orders"},       requests |-> 3, failures |-> 0],
    [parts |-> {"orders"},                  requests |-> 3, failures |-> 1],
    [parts |-> {"feed"},                    requests |-> 3, failures |-> 0],
    [parts |-> {"feed"},                    requests |-> 2, failures |-> 1],
    [parts |-> {"local"},                   requests |-> 4, failures |-> 1],
    [parts |-> {"risk"},                    requests |-> 3, failures |-> 0],
    [parts |-> {"signin"},                  requests |-> 4, failures |-> 1],
    [parts |-> {"broadcast"},               requests |-> 3, failures |-> 0],
    [parts |-> {"desk"},                    requests |-> 4, failures |-> 0],
    [parts |-> {"people"},                  requests |-> 3, failures |-> 0],
    [parts |-> {"inbox"},                   requests |-> 4, failures |-> 0],
    [parts |-> {"pairing"},                 requests |-> 5, failures |-> 0],
    [parts |-> {"casework"},                requests |-> 4, failures |-> 0],
    [parts |-> {"helpdesk"},                requests |-> 5, failures |-> 0],
    [parts |-> {"rooms"},                   requests |-> 4, failures |-> 0],
    [parts |-> {"earnings"},                requests |-> 7, failures |-> 0],
    [parts |-> {"accounts"},                requests |-> 4, failures |-> 0]}

MCParts == <<"profile", "ledger">>

Symmetry == Permutations({a1, a2, a3}) \cup Permutations({k1, k2})
=============================================================================
