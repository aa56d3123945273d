----------------------------- MODULE ReplContext -----------------------------
(***************************************************************************)
(* What a replication run says about its surroundings: which servers are   *)
(* articulation points of the topology (replication/topology.py), and the  *)
(* environment graph (replication/graph_build.py, environment/graph.py),   *)
(* whose enumerations say what is absent.                                  *)
(***************************************************************************)
EXTENDS ReplTrace

CONSTANTS
  Servers,       \* sequence: the IPA servers, this one first; their order stands for that of their names
  MaxEntities    \* MAX_ENTITIES of the graph

ASSUME ServersAssumption == Servers \in Seq(STRING) /\ MaxEntities \in Nat

VARIABLE topo    \* the topology's segments, the same for both suffixes: a set of two-element sets of servers

RangeOf(s) == {s[i] : i \in DOMAIN s}
First(S)   == Servers[CHOOSE i \in DOMAIN Servers : Servers[i] \in S /\ \A j \in 1..i - 1 : Servers[j] \notin S]
Least(x, y) == IF x <= y THEN x ELSE y
LastServer == Servers[Len(Servers)]

(* What the topology read listed. *)
Masters  == IF TopologyCheck.fields.lost THEN RangeOf(Servers) \ {LastServer} ELSE RangeOf(Servers)
Segments ==
  IF Local("topology") = "segments_unread" THEN {}
  ELSE IF TopologyCheck.fields.lost THEN {e \in topo : LastServer \notin e}
  ELSE topo

----------------------------------------------------------------------------
(* articulation_points: Tarjan's depth-first search with an explicit       *)
(* stack.  A frame keeps its node, its parent and the neighbours left.     *)
Search0(nodes) ==
  [disc |-> [n \in nodes |-> 0], low |-> [n \in nodes |-> 0], counter |-> 1, stack |-> <<>>, root |-> "none",
   children |-> 0, points |-> {}]

Discover(s, node, parent, edges) ==
  [s EXCEPT !.disc[node] = s.counter, !.low[node] = s.counter, !.counter = @ + 1,
            !.stack = Append(@, [node |-> node, parent |-> parent,
                                 left |-> {m \in DOMAIN s.disc : {m, node} \in edges /\ m # node}])]

(* Deliberately wrong: the root of a search is treated like the others.    *)
LeaveRootToo(s, frame) ==
  LET below == SubSeq(s.stack, 1, Len(s.stack) - 1)
      p     == frame.parent
  IN  IF p = "none" THEN [s EXCEPT !.stack = below]
      ELSE [s EXCEPT !.stack = below, !.low[p] = Least(@, s.low[frame.node]),
                     !.points = @ \cup IF s.low[frame.node] >= s.disc[p] THEN {p} ELSE {}]

(* A frame without neighbours left: what it reached goes to its parent.    *)
Leave(s, frame) ==
  LET below == SubSeq(s.stack, 1, Len(s.stack) - 1)
      p     == frame.parent
      cuts  == p # "none" /\ below[Len(below)].parent # "none" /\ s.low[frame.node] >= s.disc[p]
  IN  IF p = "none" THEN [s EXCEPT !.stack = below, !.points = @ \cup IF s.children > 1 THEN {frame.node} ELSE {}]
      ELSE [s EXCEPT !.stack = below, !.low[p] = Least(@, s.low[frame.node]),
                     !.points = @ \cup IF cuts THEN {p} ELSE {}]

Explore(s, frame, edges) ==
  LET next == First(frame.left)
      rest == [s EXCEPT !.stack[Len(s.stack)].left = @ \ {next}]
  IN  IF next = frame.parent THEN rest
      ELSE IF s.disc[next] # 0 THEN [rest EXCEPT !.low[frame.node] = Least(@, s.disc[next])]
      ELSE Discover([rest EXCEPT !.children = @ + IF frame.node = s.root THEN 1 ELSE 0], next, frame.node, edges)

SearchStep(s, edges) ==
  LET undiscovered == {n \in DOMAIN s.disc : s.disc[n] = 0}
      frame        == s.stack[Len(s.stack)]
  IN  IF s.stack = <<>>
      THEN IF undiscovered = {} THEN s
           ELSE Discover([s EXCEPT !.root = First(undiscovered), !.children = 0], First(undiscovered), "none", edges)
      ELSE IF frame.left = {} THEN Leave(s, frame) ELSE Explore(s, frame, edges)

ArticulationPoints(nodes, edges) ==
  LET steps == 2 * Cardinality(nodes) + 2 * Cardinality(edges)     \* each node entered and left, each edge seen twice
      s[i \in 0..steps] == IF i = 0 THEN Search0(nodes) ELSE SearchStep(s[i - 1], edges)
  IN  s[steps].points

(* summarize: the servers of the domain suffix are those its segments      *)
(* name, or every server when it has none.                                 *)
Members == IF Segments = {} THEN Masters ELSE UNION Segments

----------------------------------------------------------------------------
(* graph_build.build: the entities in the order in which they are added.   *)
(* Beyond the bound an entity is dropped, and the graph is truncated.  One *)
(* that is in the graph may be added again: where a turn adds nothing, it  *)
(* stands for the first of them, this server.                              *)
Entity(kind, key) == [kind |-> kind, key |-> key]
ThisServer        == Entity("SERVER", "me")

(* Of each of the xs in turn, n entities.                                  *)
InTurn(xs, n, entity(_, _)) == [j \in 1..n * Len(xs) |-> entity(xs[(j - 1) \div n + 1], (j - 1) % n)]

(* The ldap/ principals of the servers, as far as they were read.          *)
Principals ==
  LET registered == IF Local("ldap") = "missing" THEN RangeOf(Servers) \ {Consumer(a) : a \in Agreement}
                    ELSE RangeOf(Servers)
  IN  IF Local("principals") = "cut" THEN registered \ {LastServer} ELSE registered

AddedByTopology ==
  LET master(s, k)  == IF s \in Masters THEN Entity("SERVER", s) ELSE ThisServer
      suffix(k)     == IF k < Len(Servers) THEN "domain" ELSE "ca"
      segment(s, k) == LET other == (k % Len(Servers)) + 1 IN
                       IF {s, Servers[other]} \in Segments /\ \E i \in 1..other - 1 : Servers[i] = s
                       THEN Entity("TOPOLOGY_SEGMENT", <<suffix(k), s, Servers[other]>>) ELSE ThisServer
  IN  <<ThisServer>>
        \o IF ~Passish(OTopology) THEN <<>>
           ELSE InTurn(Servers, 1, master) \o <<Entity("SUFFIX", "domain"), Entity("SUFFIX", "ca")>>
                  \o InTurn(Servers, 2 * Len(Servers), segment)
AddedLocally ==
  (IF OServer = "PASS" THEN <<Entity("DIRECTORY_SERVER_INSTANCE", "me")>> ELSE <<>>)
    \o (IF Answered(UnitOutcome("kdc")) THEN <<Entity("KDC", "me")>> ELSE <<>>)
    \o (IF Answered(OKeytab) /\ Local("keytab") # "missing" THEN <<Entity("KEYTAB", "me")>> ELSE <<>>)
    \o (IF Answered(OKeytab) /\ Local("keytab") \in {"ok", "world_readable", "unreadable"}
        THEN <<Entity("PRINCIPAL", "me")>> ELSE <<>>)
AddedByPrincipals ==
  LET principal(s, k) == IF s \notin Principals THEN ThisServer
                         ELSE Entity(IF k = 0 THEN "PRINCIPAL" ELSE "SERVER", s)
  IN  IF ~Passish(OPrincipals) THEN <<>> ELSE InTurn(Servers, 2, principal)
AddedByAgreements ==
  LET agreement(a, k) == IF a \notin Listed \/ (k = 2 /\ ~Answered(OReverse(a))) THEN ThisServer
                         ELSE IF k = 0 THEN Entity("AGREEMENT", a)
                         ELSE IF k = 1 THEN Entity("SERVER", Consumer(a))
                         ELSE Entity("AGREEMENT", <<Suffix(a), Consumer(a), "me">>)
  IN  InTurn(Agreements, 3, agreement)

Kept(added) ==
  {added[i] : i \in {i \in DOMAIN added : Cardinality({added[j] : j \in 1..i}) <= MaxEntities}}
Truncated(added) == Kept(added) # RangeOf(added)

(* Deliberately wrong: what the bound dropped is not asked. *)
SettledUnbounded(outcome, whole, added) ==
  IF Passish(outcome) THEN IF whole THEN "COMPLETE" ELSE "PARTIAL"
  ELSE IF outcome = "UNKNOWN" THEN "FAILED" ELSE "NOT_ASKED"

(* An enumeration is COMPLETE only when its read was, and nothing of the   *)
(* graph was dropped by then.                                              *)
Settled(outcome, whole, added) ==
  IF Passish(outcome) THEN IF whole /\ ~Truncated(added) THEN "COMPLETE" ELSE "PARTIAL"
  ELSE IF outcome = "UNKNOWN" THEN "FAILED" ELSE "NOT_ASKED"

EnumerationsOf(upTo2, upTo3) ==
  LET of(kind, members, kept) == {e \in kept : e.kind = kind /\ e.key \in members}
  IN
  [servers |->
     [status  |-> Settled(OTopology, OTopology = "PASS", AddedByTopology), kind |-> "SERVER",
      members |-> IF Passish(OTopology) THEN {Entity("SERVER", s) : s \in Masters} ELSE {}],
   ldap_principals |->
     [status  |-> Settled(OPrincipals, OPrincipals = "PASS", upTo2), kind |-> "PRINCIPAL",
      members |-> IF Passish(OPrincipals) THEN of("PRINCIPAL", Principals, Kept(upTo2)) ELSE {}],
   outbound_agreements |->
     [status  |-> Settled(OAgreements, OAgreements = "PASS" /\ Dropped = {}, upTo3), kind |-> "AGREEMENT",
      members |-> of("AGREEMENT", Listed, Kept(upTo3))]]

UpToPrincipals == AddedByTopology \o AddedLocally \o AddedByPrincipals
Enumerations   == EnumerationsOf(UpToPrincipals, UpToPrincipals \o AddedByAgreements)

(* absent: "no" for a member; "yes" only by a COMPLETE enumeration.        *)
Absent(e, entity) ==
  IF entity \in e.members THEN "no"
  ELSE IF e.status = "COMPLETE" /\ e.kind = entity.kind THEN "yes"
  ELSE "unknown"
=============================================================================
