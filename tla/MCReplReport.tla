---------------------------- MODULE MCReplReport ----------------------------
(* The replication plan cut to one local prerequisite, the agreements, and  *)
(* a template of three steps.                                              *)
EXTENDS ReplReport

OrdinaryItem(s) == [each |-> FALSE, steps |-> <<s>>, source |-> s, max_instances |-> 0,
                    subject_seconds |-> 0, complete_fact |-> FALSE]
Passish(s) == [step |-> s, accept |-> {"PASS", "WARN"}]

ReplSteps    == {"server", "local.ds", "topology", "agreements", "principals", "peer.rootdse", "gssapi", "reverse"}
ReplPlan     == <<OrdinaryItem("server"), OrdinaryItem("local.ds"), OrdinaryItem("topology"), OrdinaryItem("agreements"),
                  OrdinaryItem("principals"),
                  [each |-> TRUE, steps |-> <<"peer.rootdse", "gssapi", "reverse">>, source |-> "agreements",
                   max_instances |-> 1, subject_seconds |-> 1, complete_fact |-> TRUE]>>
ReplRequires == [s \in ReplSteps |->
                   CASE s = "local.ds" -> <<Passish("server")>>
                     [] s \in {"topology", "agreements", "principals"} -> <<Passish("local.ds")>>
                     [] s \in {"gssapi", "reverse"} -> <<Passish("peer.rootdse")>>
                     [] OTHER                             -> << >>]
ReplReads    == [s \in ReplSteps |-> IF s = "gssapi" THEN {"server"} ELSE {}]
ReplGates    == [s \in ReplSteps |-> CASE s = "gssapi"     -> {"applies", "when"}
                                      [] s = "principals" -> {"when"}
                                      [] OTHER            -> {}]
ReplAnswers  == [s \in ReplSteps |->
                   CASE s \in {"server", "reverse"}     -> {"PASS", "FAIL"}
                     [] s \in {"topology", "agreements"} -> {"PASS", "WARN"}
                     [] s = "local.ds"                   -> {"PASS", "WARN", "FAIL"}
                     [] OTHER                            -> {"PASS", "FAIL"}]
ReplStops    == [s \in ReplSteps |-> IF s = "server" THEN {"FAIL"} ELSE {}]
ReplSubjects == [s \in ReplSteps |-> {}]
ReplRetries  == [s \in ReplSteps |-> 0]
ReplCheck    == [i \in ReplSteps \X (0 .. MaxSubject) |-> i]
=============================================================================
