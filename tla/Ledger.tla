------------------------------- MODULE Ledger -------------------------------
(***************************************************************************)
(* What a saved baseline promises, whatever commands run and however they  *)
(* end: it holds nothing but whole results, each concluded by one command, *)
(* and a command that compared with an earlier result puts its own in its  *)
(* place only when none of the earlier diagnoses is left in it.  It may be  *)
(* lost to someone else.                                                    *)
(***************************************************************************)
CONSTANTS Command, None, Lost
VARIABLES entry,      \* the result on disk, or None
          pending     \* per command: the result it is about to put there, with the one it compared with

Result(r)  == DOMAIN r = {"codes", "basis"}
Settled(r) == r.basis \cap r.codes = {}

Init == pending = [c \in Command |-> None]

Conclude(c) ==
  /\ pending[c] = None /\ pending'[c] # None
  /\ Result(pending'[c]) /\ Settled(pending'[c])
  /\ UNCHANGED entry
Publish(c)  == pending[c] # None /\ pending'[c] = None /\ entry' = pending[c].codes
Abandon(c)  == pending[c] # None /\ pending'[c] = None /\ UNCHANGED entry

Lose == entry' = Lost /\ UNCHANGED pending

Next ==
  \/ Lose
  \/ \E c \in Command : /\ Conclude(c) \/ Publish(c) \/ Abandon(c)
                        /\ \A d \in Command \ {c} : pending'[d] = pending[d]
Spec == Init /\ [][Next]_<<entry, pending>>
=============================================================================
