-------------------------- MODULE MCServerBaseline --------------------------
(* A stopped service with a fix, and a condition that another collector     *)
(* than ipa-healthcheck finds.                                              *)
EXTENDS ServerBaseline

ServerTiers == [c \in Condition |-> CASE c = "service-down" -> {"root", "lesser", "unsure"}
                                      [] c = "conflicts"    -> {"root"}
                                      [] OTHER              -> {"unsure"}]
=============================================================================
