------------------------------ MODULE MCReplFix ------------------------------
(* ReplFix with one consumer of both suffixes and four servers. *)
EXTENDS ReplFix

MCAgreements == <<<<"ca", "p">>, <<"domain", "p">>>>
MCQuiet      == {<<"ca", "p">>}
MCServers    == <<"me", "p", "q", "r">>
=============================================================================
