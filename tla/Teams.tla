-------------------------------- MODULE Teams --------------------------------
(***************************************************************************)
(* Sub-agents, the teams they form and a work item that travels through a  *)
(* team. A team is built from the metadata of a team asset and from the    *)
(* sub-agents that are registered under its members' ids. The code that    *)
(* drives the item is a caller's: it asks route_handoff where an output    *)
(* goes and reports progress as it likes.                                  *)
(***************************************************************************)
EXTENDS Assets

CONSTANTS
  Roles,      \* Roles[a]: the role that the definition of agent a states
  Statuses,   \* member_statuses that a caller passes: a member to its status
  MaxHops,    \* bound: handoffs of one work item
  MaxReports  \* bound: progress events

VARIABLES
  agents,  \* SubAgentRegistry: the ids registered
  teams,   \* TeamRegistry: the teams registered
  item,    \* the work item: its team, where it is, the handoffs it made
  reports  \* progress events of teams and of sub-agents

teamVars == <<agents, teams, item, reports>>

-----------------------------------------------------------------------------
(* Definitions that are accepted                                           *)

\* SubAgentRole: lists of texts without duplicates, and no opaque persona.
RoleValid(role) ==
  /\ \A list \in {role.responsibilities, role.constraints, role.outputs} :
       list # <<>> /\ (\A i \in DOMAIN list : Said(list[i]))
       /\ NoDuplicates([i \in DOMAIN list |-> Strip(list[i])])
  /\ ~role.opaque

OutputsOf(agent) == {Strip(o) : o \in ToSet(Roles[agent].outputs)}

\* From the metadata to the domain type.
TeamOf(asset) ==
  LET t == asset.spec
  IN [ id          |-> asset.id,
       input       |-> Strip(t.input),
       dispatcher  |-> Strip(t.dispatcher),
       specialists |-> {Strip(s) : s \in ToSet(t.specialists)},
       routes      |-> [i \in DOMAIN t.routes |->
                          [part \in DOMAIN t.routes[i] |-> Strip(t.routes[i][part])]],
       fallback    |-> IF t.fallback = None THEN None ELSE Strip(t.fallback) ]

Members(team) == {team.dispatcher} \cup team.specialists

\* Mutant: only a route back along a route is seen.
AcyclicPairs(routes) ==
  \A i, j \in DOMAIN routes : ~(routes[i].from = routes[j].to /\ routes[i].to = routes[j].from)

\* _raise_on_deadlock: no cycle among the routes. A set of agents that all
\* have a route into the set holds one. The fallback is not looked at.
Acyclic(routes) ==
  LET sources == {routes[i].from : i \in DOMAIN routes}
  IN \A s \in (SUBSET sources) \ {{}} :
       \E a \in s : \A i \in DOMAIN routes : routes[i].from = a => routes[i].to \notin s

\* Team.__post_init__. The constructor wants more than the asset's validator:
\* outputs that the source declares, no route to oneself, no cycle.
TeamAccepted(team) ==
  /\ team.specialists # {} /\ team.dispatcher \notin team.specialists
  /\ \A i \in DOMAIN team.routes :
       LET r == team.routes[i]
       IN r.from \in Members(team) /\ r.to \in Members(team) /\ r.from # r.to
          /\ r.output \in OutputsOf(r.from)
  /\ team.fallback # None => team.fallback \in team.specialists
  /\ Acyclic(team.routes)

-----------------------------------------------------------------------------
(* Where an output goes                                                    *)

Hop(from, output, to, fallback) ==
  [from |-> from, output |-> output, to |-> to, fallback |-> fallback]

\* route_handoff: the first route with that source and output; else, from the
\* dispatcher, the fallback whatever the output; else KeyError.
Handoffs(team, from, output) ==
  LET fits == {i \in DOMAIN team.routes :
                 team.routes[i].from = from /\ team.routes[i].output = output}
      first == {i \in fits : \A j \in fits : i <= j}
  IN IF fits # {} THEN {Hop(from, output, team.routes[i].to, FALSE) : i \in first}
     ELSE IF from = team.dispatcher /\ team.fallback # None
          THEN {Hop(from, output, team.fallback, TRUE)}
          ELSE {}

-----------------------------------------------------------------------------
(* Actions                                                                 *)

RegisterAgent(a) ==
  /\ RoleValid(Roles[a])
  /\ a \notin agents
  /\ agents' = agents \cup {a}
  /\ UNCHANGED <<teams, item, reports>>

\* The caller takes the members from the registry of sub-agents; the registry
\* of teams rejects an id it has.
RegisterTeam(asset) ==
  LET team == TeamOf(asset)
  IN /\ asset.kind = "team"
     /\ Members(team) \subseteq agents
     /\ TeamAccepted(team)
     /\ \A t \in teams : t.id # team.id
     /\ teams' = teams \cup {team}
     /\ UNCHANGED <<agents, item, reports>>

\* accepts_handoff_artifact: an artifact of the team's input kind starts with
\* the dispatcher.
Accept(team, kind) ==
  /\ item = None
  /\ kind = team.input
  /\ item' = [team |-> team, at |-> team.dispatcher, path |-> <<>>]
  /\ UNCHANGED <<agents, teams, reports>>

\* The agent that has the item names one of its outputs, or a text of its own.
HandOff(output) ==
  /\ item # None /\ Len(item.path) < MaxHops
  /\ \E hop \in Handoffs(item.team, item.at, output) :
       item' = [item EXCEPT !.at = hop.to, !.path = Append(@, hop)]
  /\ UNCHANGED <<agents, teams, reports>>

HandoffMilestones ==
  {"team_started", "team_completed", "team_blocked",
   "sub_agent_registered", "sub_agent_started", "sub_agent_completed"}

\* make_team_progress_event: a status of every member and of nobody else.
ReportTeam(milestone, statuses) ==
  /\ item # None /\ Len(reports) < MaxReports
  /\ milestone \in HandoffMilestones
  /\ DOMAIN statuses = Members(item.team)
  /\ reports' = Append(reports, [about |-> item.team.id, milestone |-> milestone,
                                 statuses |-> statuses])
  /\ UNCHANGED <<agents, teams, item>>

\* make_sub_agent_progress_event.
ReportAgent(a, milestone, status) ==
  /\ a \in agents /\ Len(reports) < MaxReports
  /\ milestone \in HandoffMilestones
  /\ reports' = Append(reports, [about |-> a, milestone |-> milestone,
                                 statuses |-> [m \in {a} |-> status]])
  /\ UNCHANGED <<agents, teams, item>>

TeamInit == agents = {} /\ teams = {} /\ item = None /\ reports = <<>>

-----------------------------------------------------------------------------
(* What is true of teams                                                   *)

\* A work item comes back to a member that it has left only by way of a hop
\* that the dispatcher's fallback made: the routes alone go round in no
\* circle (domain/team.py:136, 184-207, and 165-172 for what escapes).
RevisitOnlyThroughFallback ==
  item # None =>
    \A i, j \in DOMAIN item.path :
      (i <= j /\ item.path[j].to = item.path[i].from) =>
        \E k \in i..j : item.path[k].fallback
=============================================================================
