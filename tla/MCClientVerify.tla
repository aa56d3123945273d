--------------------------- MODULE MCClientVerify ---------------------------
(* Small instance of ClientVerify: two process ids, three ways to set a host*)
(* up, at most two different faults in all results in play.                *)
EXTENDS ClientVerify, TLC

CONSTANTS p1, p2
MCPid   == {p1, p2}
Common  == [ipa_server |-> "srv", names |-> "short"]
MCHosts == {Common, [Common EXCEPT !.ipa_server = "both"],
            [ipa_server |-> "fixed", names |-> "qualified"]}
MCParts == C!Part \ {"request", "ipa_server", "names"}
(* The common host is asked three times, the others once.                  *)
MCMaxCommands(h) == IF h = Common THEN 3 ELSE 1
MCFewFaults == {<<"keytab", "missing">>, <<"unit", "failed">>, <<"certificate", "untrusted">>}
Symmetric == Permutations(MCPid)
=============================================================================
