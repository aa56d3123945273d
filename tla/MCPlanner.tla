----------------------------- MODULE MCPlanner -----------------------------
(* A small plan for TLC: a step that lists subjects and may end the run, a  *)
(* template of two steps over them, a step that asks the first one's        *)
(* question again, and one that follows its failure and needs root.         *)
EXTENDS Planner

OrdinaryItem(s) == [each |-> FALSE, steps |-> <<s>>, source |-> s, max_instances |-> 0,
                    subject_seconds |-> 0, complete_fact |-> FALSE]

MCSteps    == {"agr", "port", "bind", "dns", "logs"}
MCPlan     == <<OrdinaryItem("agr"),
                [each |-> TRUE, steps |-> <<"port", "bind">>, source |-> "agr", max_instances |-> 2,
                 subject_seconds |-> 1, complete_fact |-> TRUE],
                OrdinaryItem("dns"), OrdinaryItem("logs")>>
MCRequires == [s \in MCSteps |->
                 CASE s = "bind" -> <<[step |-> "port", accept |-> {"PASS", "WARN"}]>>
                   [] s = "logs" -> <<[step |-> "dns", accept |-> {"FAIL", "UNKNOWN"}]>>
                   [] OTHER      -> << >>]
MCReads    == [s \in MCSteps |-> IF s = "bind" THEN {"port"} ELSE {}]
MCGates    == [s \in MCSteps |-> CASE s = "dns" -> {"when"} [] s = "logs" -> {"applies"} [] OTHER -> {}]
MCAnswers  == [s \in MCSteps |-> IF s \in {"bind", "logs"} THEN {"PASS"} ELSE {"PASS", "FAIL"}]
MCStops    == [s \in MCSteps |-> IF s = "agr" THEN {"FAIL"} ELSE {}]
MCSubjects == [s \in MCSteps |-> IF s = "port" THEN {"FAIL"} ELSE {}]
MCRetries  == [s \in MCSteps |-> IF s \in {"agr", "dns"} THEN 1 ELSE 0]
MCCheck    == [i \in MCSteps \X (0 .. MaxSubject) |-> IF i[1] = "dns" THEN <<"agr", Whole>> ELSE i]
=============================================================================
