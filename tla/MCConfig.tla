------------------------------- MODULE MCConfig -------------------------------
(* Config for TLC: an operator starts from nothing, from the settings that  *)
(* production needs, or from a development setup without authentication.    *)
EXTENDS Config

MCBases == {
    << >>,
    [issuer |-> "https", clientSANs |-> "set"],
    [environment |-> "development", mode |-> "disabled", tls |-> "no", client |-> "loopback"]}
=============================================================================
