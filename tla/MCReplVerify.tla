---------------------------- MODULE MCReplVerify ----------------------------
(* Agreements without causes, and one agreement whose peer can fail in two  *)
(* ways: its Directory Server refuses, or the pair gets no answer at all.   *)
EXTENDS ReplVerify

NoCause  == {}
TwoPeer  == {"refuses", "no_answer"}

AllExplain   == [c \in Cause |-> Agreement]
PeerSubjects == [c \in Cause |-> IF c = "refuses" THEN "server" ELSE "pair"]
OnePeer      == [c \in Cause |-> "peer"]
=============================================================================
