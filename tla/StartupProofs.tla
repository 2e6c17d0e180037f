---------------------------- MODULE StartupProofs ----------------------------
(***************************************************************************)
(* For any files, extensions, policies and teams, in whatever order one    *)
(* process loads them: the providers of a hydrated profile stay, a work    *)
(* item comes back only by way of a fallback, an override stays local, a   *)
(* hydrated profile shows what its filters leave.                          *)
(***************************************************************************)
EXTENDS Startup, SequenceTheorems, FiniteSetTheorems, TLAPS

-----------------------------------------------------------------------------
(* Providers                                                               *)

\* A registry of extensions that has all that another one has.
Keeps(before, after) ==
  /\ DOMAIN before \subseteq DOMAIN after
  /\ \A n \in DOMAIN before : after[n] = before[n]

LEMMA WithExtensionKeeps ==
  ASSUME NEW known, NEW ext
  PROVE  Keeps(known, WithExtension(known, ext))
BY DEF Keeps, WithExtension

LEMMA ProvidesStays ==
  ASSUME NEW before, NEW after, NEW slot, Keeps(before, after), Provides(before, slot)
  PROVE  Provides(after, slot)
BY DEF Keeps, Provides

LEMMA RefusedNeeds ==
  ASSUME NEW p, NEW why, NEW filters
  PROVE  /\ Refused(p, why, filters).needs = {}
         /\ "needs" \in DOMAIN Refused(p, why, filters)
BY DEF Refused

LEMMA ViewNeeds ==
  ASSUME NEW p, NEW reg, NEW resolved, NEW checked
  PROVE  /\ View(p, reg, resolved, checked).needs =
              IF checked THEN Slots(ws.profiles[p].required_providers) ELSE {}
         /\ "needs" \in DOMAIN View(p, reg, resolved, checked)
BY Zenon DEF View

\* Where a hydration is not refused and has checked its providers, all are there.
LEMMA OutcomeNeeds ==
  ASSUME NEW p, NEW reg, NEW checked
  PROVE  /\ "needs" \in DOMAIN Outcome(p, reg, checked)
         /\ \A slot \in Outcome(p, reg, checked).needs : Provides(extensions, slot)
<1> DEFINE filters == ws.profiles[p].asset_filters
           resolved == ApplyFilters(reg, filters)
           good == View(p, reg, resolved, checked)
<1>1. \/ \E why, fs : Outcome(p, reg, checked) = Refused(p, why, fs)
      \/ /\ Outcome(p, reg, checked) = good
         /\ checked => StartupValid(ws.profiles[p].required_providers, extensions)
  BY Zenon DEF Outcome
<1>2. CASE \E why, fs : Outcome(p, reg, checked) = Refused(p, why, fs)
  <2>1. PICK why, fs : Outcome(p, reg, checked) = Refused(p, why, fs)
    BY <1>2
  <2> QED BY <2>1, RefusedNeeds
<1>3. CASE /\ Outcome(p, reg, checked) = good
           /\ checked => StartupValid(ws.profiles[p].required_providers, extensions)
  <2> HIDE DEF resolved
  <2>1. "needs" \in DOMAIN good
    BY ViewNeeds
  <2>2. ASSUME NEW slot \in good.needs PROVE Provides(extensions, slot)
    <3>1. good.needs = IF checked THEN Slots(ws.profiles[p].required_providers) ELSE {}
      BY ViewNeeds
    <3>2. checked /\ slot \in Slots(ws.profiles[p].required_providers)
      BY <2>2, <3>1, Zenon
    <3> QED BY <1>3, <3>2 DEF StartupValid
  <2> QED BY <1>3, <2>1, <2>2
<1> QED BY <1>1, <1>2, <1>3

\* A call of the extension registry takes nothing away.
LEMMA ExtensionsKept ==
  ASSUME [Next]_vars
  PROVE  Keeps(extensions, extensions')
<1>1. CASE extensions' = extensions
  BY <1>1 DEF Keeps
<1>2. CASE \E ext \in Extensions : RegisterExtension(ext)
  <2>1. PICK ext \in Extensions : extensions' = WithExtension(extensions, ext)
    BY <1>2 DEF RegisterExtension
  <2> QED BY <2>1, WithExtensionKeeps
<1>3. CASE \E declared \in Declared : LoadDeclared(declared)
  BY <1>3 DEF LoadDeclared, Keeps
<1>4. CASE UNCHANGED vars
  BY <1>1, <1>4 DEF vars
<1>5. CASE TeamCall \/ ItemCall \/ ReportCall
  BY <1>1, <1>5 DEF TeamCall, ItemCall, ReportCall, Untouched, extensionVars
<1>6. CASE \E p \in Packs : HydrateShared(p) \/ HydrateOwn(p)
  BY <1>1, <1>6 DEF HydrateShared, HydrateOwn, extensionVars
<1>7. CASE CreateApp \/ ClearCache \/ LoadInstances \/ LoadAssets
  BY <1>1, <1>7 DEF CreateApp, ClearCache, LoadInstances, LoadAssets, extensionVars
<1>8. CASE \E w \in session.edits : Edit(w)
  BY <1>1, <1>8 DEF Edit, extensionVars
<1>9. CASE \E name \in ChannelNames : RegisterChannel(name)
  BY <1>1, <1>9 DEF RegisterChannel
<1>10. CASE \E preset \in Presets, override \in Overrides, providers \in ToolSets :
              LoadPolicy(preset, override, providers)
  BY <1>1, <1>10 DEF LoadPolicy, extensionVars
<1>11. CASE \E tool \in UNION {Capabilities(p) : p \in ToolSets}, action \in {"read", "write"} :
              Invoke(tool, action)
  BY <1>1, <1>11 DEF Invoke, extensionVars
<1> QED BY <1>2, <1>3, <1>4, <1>5, <1>6, <1>7, <1>8, <1>9, <1>10, <1>11 DEF Next

\* What a hydration without a registry shows.
LEMMA OwnView ==
  ASSUME NEW p \in Packs, HydrateOwn(p)
  PROVE  \E running \in BOOLEAN, skipped \in BOOLEAN, checked \in BOOLEAN :
           LET reg == IF skipped THEN EmptyRegistry ELSE LoadFromDir(EmptyRegistry, ws.assets)
               loads == HydratedDescriptorValid(p) /\ (running \/ LoadRaises(ws.assets) => skipped)
               end == IF loads \/ ~HydratedDescriptorValid(p) THEN Outcome(p, reg, checked)
                      ELSE Refused(p, "raised", <<>>)
           IN view' = [end EXCEPT !.dir = IF end.why = "none resolved" THEN ws.assets ELSE None]
<1>1. PICK running \in BOOLEAN, skipped \in (IF p = "ea" /\ awaited THEN BOOLEAN ELSE {FALSE}),
           checked \in MayCheck(p) :
        LET reg == IF skipped THEN EmptyRegistry ELSE LoadFromDir(EmptyRegistry, ws.assets)
            loads == HydratedDescriptorValid(p) /\ (running \/ LoadRaises(ws.assets) => skipped)
            end == IF loads \/ ~HydratedDescriptorValid(p) THEN Outcome(p, reg, checked)
                   ELSE Refused(p, "raised", <<>>)
        IN view' = [end EXCEPT !.dir = IF end.why = "none resolved" THEN ws.assets ELSE None]
  BY ZenonT(60) DEF HydrateOwn
<1>2. skipped \in BOOLEAN /\ checked \in BOOLEAN
  BY Zenon DEF MayCheck
<1> QED BY <1>1, <1>2, Zenon

\* What a view can be after a step: the one before, or the outcome of a
\* hydration, with a directory or without.
LEMMA ViewSteps ==
  ASSUME [Next]_vars
  PROVE  \/ view' = view
         \/ /\ extensions' = extensions
            /\ \A slot \in view'.needs : Provides(extensions, slot)
<1>1. CASE view' = view
  BY <1>1
<1>2. CASE \E p \in Packs : HydrateShared(p)
  <2>1. PICK p \in Packs : HydrateShared(p)
    BY <1>2
  <2>2. PICK checked \in MayCheck(p) : view' = Outcome(p, registry, checked)
    BY <2>1 DEF HydrateShared
  <2>3. extensions' = extensions
    BY <2>1 DEF HydrateShared, extensionVars
  <2> QED BY <2>2, <2>3, OutcomeNeeds
<1>3. CASE \E p \in Packs : HydrateOwn(p)
  <2>1. PICK p \in Packs : HydrateOwn(p)
    BY <1>3
  <2>2. extensions' = extensions
    BY <2>1 DEF HydrateOwn, extensionVars
  <2>3. PICK running \in BOOLEAN, skipped \in BOOLEAN, checked \in BOOLEAN :
          LET reg == IF skipped THEN EmptyRegistry ELSE LoadFromDir(EmptyRegistry, ws.assets)
              loads == HydratedDescriptorValid(p) /\ (running \/ LoadRaises(ws.assets) => skipped)
              end == IF loads \/ ~HydratedDescriptorValid(p) THEN Outcome(p, reg, checked)
                     ELSE Refused(p, "raised", <<>>)
          IN view' = [end EXCEPT !.dir = IF end.why = "none resolved" THEN ws.assets ELSE None]
    BY <2>1, OwnView
  <2> DEFINE reg == IF skipped THEN EmptyRegistry ELSE LoadFromDir(EmptyRegistry, ws.assets)
             loads == HydratedDescriptorValid(p) /\ (running \/ LoadRaises(ws.assets) => skipped)
             end == IF loads \/ ~HydratedDescriptorValid(p) THEN Outcome(p, reg, checked)
                    ELSE Refused(p, "raised", <<>>)
             dir == IF end.why = "none resolved" THEN ws.assets ELSE None
  <2>4. end = Outcome(p, reg, checked) \/ end = Refused(p, "raised", <<>>)
    OBVIOUS
  <2>5. view' = [end EXCEPT !.dir = dir]
    BY <2>3
  <2> HIDE DEF reg, end, dir
  <2>6. /\ "needs" \in DOMAIN end
        /\ \A slot \in end.needs : Provides(extensions, slot)
    <3>1. CASE end = Outcome(p, reg, checked)
      BY <3>1, OutcomeNeeds
    <3>2. CASE end = Refused(p, "raised", <<>>)
      BY <3>2, RefusedNeeds
    <3> QED BY <2>4, <3>1, <3>2
  <2>7. view'.needs = end.needs
    BY <2>5, <2>6
  <2> QED BY <2>2, <2>6, <2>7
<1>4. CASE UNCHANGED vars
  BY <1>1, <1>4 DEF vars
<1>5. CASE TeamCall \/ ItemCall \/ ReportCall
  BY <1>1, <1>5 DEF TeamCall, ItemCall, ReportCall, Untouched, assetVars
<1>6. CASE CreateApp \/ ClearCache \/ LoadInstances \/ LoadAssets
  BY <1>1, <1>6 DEF CreateApp, ClearCache, LoadInstances, LoadAssets, assetVars
<1>7. CASE \E w \in session.edits : Edit(w)
  BY <1>1, <1>7 DEF Edit, assetVars
<1>8. CASE \/ \E name \in ChannelNames : RegisterChannel(name)
           \/ \E ext \in Extensions : RegisterExtension(ext)
           \/ \E declared \in Declared : LoadDeclared(declared)
  BY <1>1, <1>8 DEF RegisterChannel, RegisterExtension, LoadDeclared, assetVars
<1>9. CASE \E preset \in Presets, override \in Overrides, providers \in ToolSets :
             LoadPolicy(preset, override, providers)
  BY <1>1, <1>9 DEF LoadPolicy, assetVars
<1>10. CASE \E tool \in UNION {Capabilities(p) : p \in ToolSets}, action \in {"read", "write"} :
              Invoke(tool, action)
  BY <1>1, <1>10 DEF Invoke, assetVars
<1> QED BY <1>2, <1>3, <1>4, <1>5, <1>6, <1>7, <1>8, <1>9, <1>10 DEF Next

\* The providers that a profile was hydrated against are never taken from the
\* extension registry, nor replaced (extensions/registry.py:30-39).
THEOREM ProvidersStayHolds == Spec => []ProvidersStay
<1>1. Init => ProvidersStay
  BY DEF Init, ProvidersStay
<1>2. ProvidersStay /\ [Next]_vars => ProvidersStay'
  <2> SUFFICES ASSUME ProvidersStay, [Next]_vars, view' # None, NEW slot \in view'.needs
               PROVE  Provides(extensions', slot)
    BY DEF ProvidersStay, Provides
  <2>1. Keeps(extensions, extensions')
    BY ExtensionsKept
  <2>2. Provides(extensions, slot)
    BY ViewSteps DEF ProvidersStay
  <2> QED BY <2>1, <2>2, ProvidesStays
<1> QED BY <1>1, <1>2, PTL DEF Spec

-----------------------------------------------------------------------------
(* The way of a work item                                                  *)

Outputs == UNION {OutputsOf(a) : a \in DOMAIN Roles}

Hops(team) ==
  [from : Members(team), output : Outputs, to : Members(team), fallback : BOOLEAN]

IsRoute(team, hop) ==
  \E i \in DOMAIN team.routes : team.routes[i].from = hop.from /\ team.routes[i].to = hop.to

\* Every hop starts where the one before ended, and follows a route of the
\* team unless the fallback made it.
Travelled(team, at, path) ==
  /\ path \in Seq(Hops(team))
  /\ at \in Members(team)
  /\ \A k \in 1..Len(path) : ~path[k].fallback => IsRoute(team, path[k])
  /\ \A k \in 1..Len(path) : path[k].to = IF k < Len(path) THEN path[k + 1].from ELSE at

TravelInv ==
  /\ \A t \in teams : TeamAccepted(t)
  /\ item # None =>
       /\ item = [team |-> item.team, at |-> item.at, path |-> item.path]
       /\ item.team \in teams
       /\ Travelled(item.team, item.at, item.path)

\* A hop that an accepted team allows.
LEMMA HandoffIsHop ==
  ASSUME NEW team, TeamAccepted(team), NEW from \in Members(team), NEW output \in Outputs,
         NEW hop \in Handoffs(team, from, output)
  PROVE  /\ hop \in Hops(team) /\ hop.from = from
         /\ ~hop.fallback => IsRoute(team, hop)
<1> DEFINE fits == {i \in DOMAIN team.routes :
                      team.routes[i].from = from /\ team.routes[i].output = output}
           first == {i \in fits : \A j \in fits : i <= j}
<1>1. CASE \E i \in fits : hop = Hop(from, output, team.routes[i].to, FALSE)
  <2>1. PICK i \in fits : hop = Hop(from, output, team.routes[i].to, FALSE)
    BY <1>1
  <2>2. team.routes[i].to \in Members(team) /\ team.routes[i].from = from
    BY DEF TeamAccepted
  <2> QED BY <2>1, <2>2 DEF Hop, Hops, IsRoute
<1>2. CASE team.fallback # None /\ hop = Hop(from, output, team.fallback, TRUE)
  <2>1. team.fallback \in Members(team)
    BY <1>2 DEF TeamAccepted, Members
  <2> QED BY <1>2, <2>1 DEF Hop, Hops
<1>3. \/ hop \in {Hop(from, output, team.routes[i].to, FALSE) : i \in first}
      \/ team.fallback # None /\ hop = Hop(from, output, team.fallback, TRUE)
  BY DEF Handoffs
<1> QED BY <1>1, <1>2, <1>3

LEMMA TravelsOn ==
  ASSUME NEW team, TeamAccepted(team), NEW at, NEW path, Travelled(team, at, path),
         NEW output \in Outputs, NEW hop \in Handoffs(team, at, output)
  PROVE  Travelled(team, hop.to, Append(path, hop))
<1> DEFINE longer == Append(path, hop)
<1>1. /\ path \in Seq(Hops(team)) /\ at \in Members(team)
      /\ hop \in Hops(team) /\ hop.from = at
      /\ ~hop.fallback => IsRoute(team, hop)
  BY HandoffIsHop DEF Travelled
<1>2. /\ longer \in Seq(Hops(team)) /\ Len(longer) = Len(path) + 1
      /\ \A k \in 1..Len(path) : longer[k] = path[k]
      /\ longer[Len(path) + 1] = hop
      /\ Len(path) \in Nat
  BY <1>1, AppendProperties, LenProperties
<1>3. hop.to \in Members(team)
  BY <1>1 DEF Hops
<1> HIDE DEF longer
<1>4. ASSUME NEW k \in 1..Len(longer)
      PROVE  /\ ~longer[k].fallback => IsRoute(team, longer[k])
             /\ longer[k].to = IF k < Len(longer) THEN longer[k + 1].from ELSE hop.to
  <2>1. CASE k = Len(path) + 1
    BY <1>1, <1>2, <2>1
  <2>2. CASE k = Len(path)
    BY <1>1, <1>2, <2>2 DEF Travelled
  <2>3. CASE k < Len(path)
    <3>1. k \in 1..Len(path) /\ k + 1 \in 1..Len(path) /\ k < Len(longer)
      BY <1>2, <2>3
    <3>2. longer[k] = path[k] /\ longer[k + 1] = path[k + 1]
      BY <1>2, <3>1
    <3> QED BY <2>3, <3>1, <3>2 DEF Travelled
  <2> QED BY <1>2, <2>1, <2>2, <2>3
<1> QED BY <1>2, <1>3, <1>4 DEF Travelled, longer

LEMMA AcceptKeeps ==
  ASSUME TravelInv, NEW t \in teams, NEW kind, Accept(t, kind)
  PROVE  TravelInv'
<1>1. /\ item' = [team |-> t, at |-> t.dispatcher, path |-> <<>>]
      /\ teams' = teams
  BY DEF Accept
<1>2. Travelled(t, t.dispatcher, <<>>)
  <2>1. <<>> \in Seq(Hops(t)) /\ Len(<<>>) = 0
    OBVIOUS
  <2>2. t.dispatcher \in Members(t)
    BY DEF Members
  <2> QED BY <2>1, <2>2 DEF Travelled
<1> QED BY <1>1, <1>2 DEF TravelInv

LEMMA HandOffKeeps ==
  ASSUME TravelInv, NEW output \in Outputs, HandOff(output)
  PROVE  TravelInv'
<1> DEFINE team == item.team
<1>1. PICK hop \in Handoffs(team, item.at, output) :
        item' = [item EXCEPT !.at = hop.to, !.path = Append(@, hop)]
  BY DEF HandOff
<1>2. /\ item = [team |-> team, at |-> item.at, path |-> item.path]
      /\ team \in teams /\ TeamAccepted(team) /\ Travelled(team, item.at, item.path)
  BY DEF TravelInv, HandOff
<1>3. Travelled(team, hop.to, Append(item.path, hop))
  BY <1>2, TravelsOn
<1>4. item' = [team |-> team, at |-> hop.to, path |-> Append(item.path, hop)]
  BY <1>1, <1>2
<1>5. item'.team = team /\ item'.at = hop.to /\ item'.path = Append(item.path, hop)
  BY <1>4
<1>6. teams' = teams
  BY DEF HandOff
<1> HIDE DEF team
<1> QED BY <1>2, <1>3, <1>4, <1>5, <1>6 DEF TravelInv

LEMMA RegisterTeamKeeps ==
  ASSUME TravelInv, NEW asset, RegisterTeam(asset)
  PROVE  TravelInv'
BY Zenon DEF TravelInv, RegisterTeam

LEMMA TravelSteps ==
  ASSUME TravelInv, [Next]_vars
  PROVE  TravelInv'
<1>1. CASE item' = item /\ teams' = teams
  BY <1>1, Zenon DEF TravelInv
<1>2. CASE TeamCall
  <2>1. CASE \E a \in DOMAIN Roles : RegisterAgent(a)
    BY <1>1, <2>1 DEF RegisterAgent
  <2>2. CASE \E i \in DOMAIN registry.assets : RegisterTeam(registry.assets[i])
    BY <2>2, RegisterTeamKeeps
  <2> QED BY <1>2, <2>1, <2>2 DEF TeamCall
<1>3. CASE ItemCall
  <2>1. CASE \E t \in teams, kind \in {t.input : t \in teams} : Accept(t, kind)
    BY <2>1, AcceptKeeps
  <2>2. CASE \E output \in Outputs : HandOff(output)
    BY <2>2, HandOffKeeps
  <2> QED BY <1>3, <2>1, <2>2 DEF ItemCall, Outputs
<1>4. CASE ReportCall
  BY <1>1, <1>4 DEF ReportCall, ReportTeam, ReportAgent
<1>5. CASE UNCHANGED vars
  BY <1>1, <1>5 DEF vars
<1>6. CASE \E p \in Packs : HydrateShared(p) \/ HydrateOwn(p)
  BY <1>1, <1>6 DEF HydrateShared, HydrateOwn, teamVars
<1>7. CASE CreateApp \/ ClearCache \/ LoadInstances \/ LoadAssets
  BY <1>1, <1>7 DEF CreateApp, ClearCache, LoadInstances, LoadAssets, teamVars
<1>8. CASE \/ \E w \in session.edits : Edit(w)
           \/ \E name \in ChannelNames : RegisterChannel(name)
           \/ \E ext \in Extensions : RegisterExtension(ext)
           \/ \E declared \in Declared : LoadDeclared(declared)
  BY <1>1, <1>8 DEF Edit, RegisterChannel, RegisterExtension, LoadDeclared, teamVars
<1>9. CASE \E preset \in Presets, override \in Overrides, providers \in ToolSets :
             LoadPolicy(preset, override, providers)
  BY <1>1, <1>9 DEF LoadPolicy, teamVars
<1>10. CASE \E tool \in UNION {Capabilities(p) : p \in ToolSets}, action \in {"read", "write"} :
              Invoke(tool, action)
  BY <1>1, <1>10 DEF Invoke, teamVars
<1> QED BY <1>2, <1>3, <1>4, <1>5, <1>6, <1>7, <1>8, <1>9, <1>10 DEF Next

\* The sources of a circle without a fallback hop would be a set of agents that
\* all have a route into the set: no accepted team has one.
LEMMA CircleNeedsFallback ==
  ASSUME NEW team, TeamAccepted(team), NEW at, NEW path, Travelled(team, at, path),
         NEW i \in 1..Len(path), NEW j \in 1..Len(path), i <= j, path[j].to = path[i].from
  PROVE  \E k \in i..j : path[k].fallback
<1> SUFFICES ASSUME \A k \in i..j : ~path[k].fallback PROVE FALSE
  OBVIOUS
<1> DEFINE s == {path[k].from : k \in i..j}
           sources == {team.routes[r].from : r \in DOMAIN team.routes}
<1>1. Len(path) \in Nat /\ i \in Nat /\ j \in Nat
  BY LenProperties DEF Travelled
<1>2. ASSUME NEW k \in i..j PROVE k \in 1..Len(path) /\ IsRoute(team, path[k])
  BY <1>1, <1>2 DEF Travelled
<1>3. s \in (SUBSET sources) \ {{}}
  <2>1. path[i].from \in s
    BY <1>1
  <2>2. s \subseteq sources
    BY <1>2 DEF IsRoute
  <2> QED BY <2>1, <2>2
<1>4. PICK a \in s : \A r \in DOMAIN team.routes :
                       team.routes[r].from = a => team.routes[r].to \notin s
  BY <1>3 DEF TeamAccepted, Acyclic
<1>5. PICK k \in i..j : a = path[k].from
  OBVIOUS
<1>6. path[k].to \notin s
  BY <1>2, <1>4, <1>5 DEF IsRoute
<1>7. CASE k = j
  BY <1>1, <1>6, <1>7
<1>8. CASE k < j
  <2>1. k + 1 \in i..j /\ k < Len(path) /\ k \in 1..Len(path)
    BY <1>1, <1>8
  <2>2. path[k].to = path[k + 1].from
    BY <2>1 DEF Travelled
  <2> QED BY <1>6, <2>1, <2>2
<1> QED BY <1>1, <1>7, <1>8

\* A work item comes back to a member it has left only by way of the
\* dispatcher's fallback (domain/team.py:165-172, 184-207).
THEOREM RevisitOnlyThroughFallbackHolds == Spec => []RevisitOnlyThroughFallback
<1>1. Init => TravelInv
  BY DEF Init, TeamInit, TravelInv
<1>2. TravelInv /\ [Next]_vars => TravelInv'
  BY TravelSteps
<1>3. TravelInv => RevisitOnlyThroughFallback
  <2> SUFFICES ASSUME TravelInv, item # None,
                      NEW i \in DOMAIN item.path, NEW j \in DOMAIN item.path,
                      i <= j, item.path[j].to = item.path[i].from
               PROVE  \E k \in i..j : item.path[k].fallback
    BY DEF RevisitOnlyThroughFallback
  <2>1. TeamAccepted(item.team) /\ Travelled(item.team, item.at, item.path)
    BY DEF TravelInv
  <2>2. DOMAIN item.path = 1..Len(item.path)
    BY <2>1, LenProperties DEF Travelled
  <2> QED BY <2>1, <2>2, CircleNeedsFallback
<1> QED BY <1>1, <1>2, <1>3, PTL DEF Spec

-----------------------------------------------------------------------------
(* Numbers and finite sets                                                 *)

\* Intervals from 0 are finite sets, and those are well-founded.
LEMMA LeastNumber ==
  ASSUME NEW T, T \subseteq Nat, T # {}
  PROVE  \E m \in T : \A n \in T : m <= n
<1> DEFINE R == StrictSubsetOrdering(Nat)
           F == FiniteSubsetsOf(Nat)
           Intervals == {0..n : n \in T}
<1>1. IsWellFoundedOn(R, F)
  BY FS_StrictSubsetOrderingWellFounded
<1>2. Intervals \subseteq F /\ Intervals # {}
  <2>1. ASSUME NEW n \in T PROVE 0..n \in F
    <3>1. n \in Int /\ 0 \in Int
      OBVIOUS
    <3>2. IsFiniteSet(0..n)
      BY <3>1, FS_Interval
    <3>3. 0..n \in SUBSET Nat
      OBVIOUS
    <3> QED BY <3>2, <3>3 DEF FiniteSubsetsOf
  <2>2. Intervals # {}
    OBVIOUS
  <2> HIDE DEF F
  <2> QED BY <2>1, <2>2
<1>3. PICK m \in T : \A y \in Intervals : <<y, 0..m>> \notin R
  <2> HIDE DEF R, F
  <2>1. \E x \in Intervals : \A y \in Intervals : ~ (<<y, x>> \in R)
    <3> HIDE DEF Intervals
    <3> QED BY <1>1, <1>2, WFMin
  <2> QED BY <2>1
<1>4. ASSUME NEW n \in T, n < m PROVE FALSE
  <2>1. 0..n \subseteq 0..m /\ 0..n \in SUBSET Nat /\ 0..m \in SUBSET Nat
    BY <1>4
  <2>2. m \in 0..m /\ m \notin 0..n
    BY <1>4
  <2>3. <<0..n, 0..m>> \in R
    BY <2>1, <2>2 DEF StrictSubsetOrdering
  <2> QED BY <1>3, <2>3
<1> QED BY <1>4

LEMMA GreatestNumber ==
  ASSUME NEW n \in Nat, NEW T, T \subseteq 1..n, T # {}
  PROVE  \E m \in T : \A i \in T : i <= m
<1> DEFINE U == {n - i : i \in T}
<1>1. U \subseteq Nat /\ U # {}
  <2>1. ASSUME NEW i \in T PROVE n - i \in Nat
    <3>1. i \in 1..n
      OBVIOUS
    <3> QED BY <3>1
  <2> QED BY <2>1
<1>2. PICK u \in U : \A v \in U : u <= v
  BY <1>1, LeastNumber
<1>3. PICK m \in T : u = n - m
  OBVIOUS
<1>4. ASSUME NEW i \in T PROVE i <= m
  <2>1. n - i \in U /\ i \in 1..n /\ m \in 1..n
    OBVIOUS
  <2> HIDE DEF U
  <2>2. n - m <= n - i
    BY <1>2, <1>3, <2>1
  <2> QED BY <2>1, <2>2
<1> QED BY <1>4

\* SetToSeq lists a finite set and nothing else.
LEMMA ListOfSet ==
  ASSUME NEW S, IsFiniteSet(S)
  PROVE  /\ SetToSeq(S) \in Seq(S)
         /\ \A x \in S : \E i \in 1..Len(SetToSeq(S)) : SetToSeq(S)[i] = x
<1> DEFINE D == 1..Cardinality(S)
           f == SetToSeq(S)
<1>1. Cardinality(S) \in Nat /\ ExistsBijection(D, S)
  BY FS_CardinalityType
<1>2. \E g \in [D -> S] : IsInjective(g)
  BY <1>1 DEF ExistsBijection, Bijection, Injection
<1>3. f \in [D -> S] /\ IsInjective(f)
  BY <1>2 DEF SetToSeq
<1>4. f \in Injection(D, S)
  BY <1>3 DEF Injection
<1>5. IsFiniteSet(D) /\ Cardinality(D) = Cardinality(S)
  <2>1. 1 \in Int /\ Cardinality(S) \in Int
    BY <1>1
  <2>2. /\ IsFiniteSet(D)
        /\ Cardinality(D) = IF 1 > Cardinality(S) THEN 0 ELSE Cardinality(S) - 1 + 1
    BY <2>1, FS_Interval
  <2> HIDE DEF D
  <2> QED BY <1>1, <2>2
<1>6. f \in Surjection(D, S)
  <2> HIDE DEF D, f
  <2> QED BY <1>4, <1>5, FS_Injection
<1>7. f \in Seq(S) /\ Len(f) = Cardinality(S)
  <2> HIDE DEF f
  <2> QED BY <1>1, <1>3
<1>8. \A x \in S : \E i \in 1..Len(f) : f[i] = x
  <2> HIDE DEF f
  <2> QED BY <1>6, <1>7 DEF Surjection
<1> QED BY <1>7, <1>8

-----------------------------------------------------------------------------
(* Overrides                                                               *)

\* The last valid rule of a tool is one of that tool.
LEMMA OverrideForTool ==
  ASSUME NEW rules, IsList(rules), NEW tool \in ToolsOf(rules)
  PROVE  OverrideFor(rules, tool).tool = tool
<1> DEFINE of == {i \in DOMAIN rules : RuleValid(rules[i]) /\ rules[i].tool = tool}
           last == CHOOSE i \in of : \A j \in of : j <= i
<1>1. of \subseteq 1..Len(rules) /\ of # {}
  BY DEF IsList, ToolsOf
<1>2. \E i \in of : \A j \in of : j <= i
  <2> HIDE DEF of
  <2> QED BY <1>1, GreatestNumber DEF IsList
<1>3. last \in of
  <2> HIDE DEF of
  <2> QED BY <1>2
<1>4. rules[last].tool = tool
  BY <1>3
<1>5. OverrideFor(rules, tool) = Rule(rules[last])
  BY DEF OverrideFor
<1> HIDE DEF last
<1> QED BY <1>4, <1>5 DEF Rule

LEMMA RulesAreFinite ==
  ASSUME NEW rules, IsList(rules), NEW T, T \subseteq ToolsOf(rules)
  PROVE  IsFiniteSet({OverrideFor(rules, t) : t \in T})
<1> DEFINE D == {j \in DOMAIN rules : RuleValid(rules[j])}
           f == [i \in D |-> rules[i].tool]
           B == {OverrideFor(rules, t) : t \in T}
           g == [t \in T |-> OverrideFor(rules, t)]
<1>1. IsFiniteSet(D)
  <2>1. 1 \in Int /\ Len(rules) \in Int
    BY DEF IsList
  <2>2. IsFiniteSet(1..Len(rules))
    BY <2>1, FS_Interval
  <2>3. D \in SUBSET (1..Len(rules))
    BY DEF IsList
  <2> HIDE DEF D
  <2> QED BY <2>2, <2>3, FS_Subset
<1>2. f \in Surjection(D, ToolsOf(rules))
  BY DEF Surjection, ToolsOf
<1>3. IsFiniteSet(ToolsOf(rules))
  <2> HIDE DEF D, f
  <2> QED BY <1>1, <1>2, FS_Surjection
<1>4. IsFiniteSet(T)
  BY <1>3, FS_Subset
<1>5. g \in Surjection(T, B)
  BY DEF Surjection
<1> HIDE DEF g
<1> QED BY <1>4, <1>5, FS_Surjection

LEMMA MergedRules ==
  ASSUME NEW preset \in Presets, NEW override \in Overrides
  PROVE  LET rules == MergeOverrides(preset, override).rules
             named == ToolsOf(override.rules)
             n     == Len(preset.rules)
         IN /\ IsList(rules) /\ n <= Len(rules)
            /\ \A i \in 1..n :
                 rules[i] = IF preset.rules[i].tool \in named
                            THEN OverrideFor(override.rules, preset.rules[i].tool)
                            ELSE preset.rules[i]
            /\ \A i \in 1..Len(rules) :
                 i <= n \/ \E t \in named : rules[i] = OverrideFor(override.rules, t)
            /\ \A t \in named :
                 \E i \in 1..Len(rules) : rules[i] = OverrideFor(override.rules, t)
<1> DEFINE rules == MergeOverrides(preset, override).rules
           named == ToolsOf(override.rules)
           n == Len(preset.rules)
           old == [i \in DOMAIN preset.rules |->
                     IF preset.rules[i].tool \in named
                     THEN OverrideFor(override.rules, preset.rules[i].tool)
                     ELSE preset.rules[i]]
           fresh == named \ {preset.rules[i].tool : i \in DOMAIN preset.rules}
           B == {OverrideFor(override.rules, t) : t \in fresh}
           new == SetToSeq(B)
           S == {old[i] : i \in 1..n} \cup B
<1>1. n \in Nat /\ DOMAIN preset.rules = 1..n
  BY PoliciesAssumption
<1>2. old \in Seq(S) /\ Len(old) = n
  BY <1>1
<1>3. IsFiniteSet(B)
  <2>1. IsList(override.rules)
    BY OverridesAssumption DEF IsList
  <2> QED BY <2>1, RulesAreFinite
<1>4. /\ new \in Seq(B)
      /\ \A x \in B : \E i \in 1..Len(new) : new[i] = x
  <2> HIDE DEF B
  <2> QED BY <1>3, ListOfSet
<1>5. new \in Seq(S) /\ Len(new) \in Nat /\ \A i \in 1..Len(new) : new[i] \in B
  <2> HIDE DEF new, B
  <2> QED BY <1>4
<1>6. rules = old \o new
  BY DEF MergeOverrides
<1>7. /\ rules \in Seq(S) /\ Len(rules) = n + Len(new)
      /\ \A i \in 1..n + Len(new) : rules[i] = IF i <= n THEN old[i] ELSE new[i - n]
  <2> HIDE DEF old, new, S, rules, n
  <2> QED BY <1>2, <1>5, <1>6, ConcatProperties
<1>8. IsList(rules) /\ n <= Len(rules)
  <2> HIDE DEF old, new, S, rules, n
  <2> QED BY <1>1, <1>5, <1>7 DEF IsList
<1>9. \A i \in 1..n : rules[i] = old[i]
  <2> HIDE DEF old, new, S, rules, n
  <2> QED BY <1>1, <1>5, <1>7
<1>10. ASSUME NEW i \in 1..Len(rules), ~(i <= n)
       PROVE  \E t \in named : rules[i] = OverrideFor(override.rules, t)
  <2>1. i - n \in 1..Len(new) /\ rules[i] = new[i - n]
    <3> HIDE DEF old, new, S, rules, n
    <3> QED BY <1>1, <1>5, <1>7, <1>10
  <2>2. rules[i] \in B
    BY <1>5, <2>1
  <2> QED BY <2>2
<1>11. ASSUME NEW t \in named
       PROVE  \E i \in 1..Len(rules) : rules[i] = OverrideFor(override.rules, t)
  <2>1. CASE t \in fresh
    <3>1. OverrideFor(override.rules, t) \in B
      BY <2>1
    <3>2. PICK k \in 1..Len(new) : new[k] = OverrideFor(override.rules, t)
      BY <1>4, <3>1
    <3>3. n + k \in 1..Len(rules) /\ rules[n + k] = new[k]
      <4> HIDE DEF old, new, S, rules, n
      <4>1. n + k \in 1..n + Len(new) /\ ~(n + k <= n) /\ (n + k) - n = k
        BY <1>1, <1>5
      <4> QED BY <1>7, <4>1
    <3> QED BY <3>2, <3>3
  <2>2. CASE t \notin fresh
    <3>1. PICK i \in 1..n : preset.rules[i].tool = t
      BY <1>1, <2>2
    <3>2. rules[i] = OverrideFor(override.rules, t)
      BY <1>1, <1>9, <3>1
    <3>3. i \in 1..Len(rules)
      <4> HIDE DEF rules, n
      <4> QED BY <1>1, <1>8 DEF IsList
    <3> QED BY <3>2, <3>3
  <2> QED BY <2>1, <2>2
<1>12. \A i \in 1..n : rules[i] = IF preset.rules[i].tool \in named
                                 THEN OverrideFor(override.rules, preset.rules[i].tool)
                                 ELSE preset.rules[i]
  BY <1>1, <1>9
<1> HIDE DEF rules, named, n
<1>13. \A i \in 1..Len(rules) : i <= n \/ \E t \in named : rules[i] = OverrideFor(override.rules, t)
  BY <1>10
<1>14. \A t \in named : \E i \in 1..Len(rules) : rules[i] = OverrideFor(override.rules, t)
  BY <1>11
<1> QED BY <1>8, <1>12, <1>13, <1>14 DEF rules, named, n

LEMMA OwnToolDecided ==
  ASSUME NEW preset \in Presets, NEW override \in Overrides, NEW p,
         p.rules = MergeOverrides(preset, override).rules,
         NEW tool \in ToolsOf(override.rules), NEW action
  PROVE  DecisionOn(p, tool, action) =
           LET rule == OverrideFor(override.rules, tool)
           IN IF rule.action \in {None, action} THEN rule.decision ELSE p.default
<1> DEFINE rules == MergeOverrides(preset, override).rules
           named == ToolsOf(override.rules)
           n == Len(preset.rules)
           ruling == OverrideFor(override.rules, tool)
           fits == {i \in DOMAIN p.rules : /\ p.rules[i].tool = tool
                                           /\ p.rules[i].action \in {None, action}}
           first == CHOOSE i \in fits : \A j \in fits : i <= j
<1>1. /\ IsList(rules) /\ n <= Len(rules)
      /\ \A i \in 1..n :
           rules[i] = IF preset.rules[i].tool \in named
                      THEN OverrideFor(override.rules, preset.rules[i].tool)
                      ELSE preset.rules[i]
      /\ \A i \in 1..Len(rules) :
           i <= n \/ \E t \in named : rules[i] = OverrideFor(override.rules, t)
      /\ \A t \in named :
           \E i \in 1..Len(rules) : rules[i] = OverrideFor(override.rules, t)
  BY MergedRules
<1>2. \A t \in named : OverrideFor(override.rules, t).tool = t
  BY OverridesAssumption, OverrideForTool DEF IsList
<1>3. n \in Nat
  BY PoliciesAssumption
<1> HIDE DEF rules, named, n, ruling
<1>4. tool \in named /\ ruling = OverrideFor(override.rules, tool)
  BY DEF named, ruling
<1>5. p.rules = rules
  BY DEF rules
<1>6. ASSUME NEW i \in 1..Len(rules), rules[i].tool = tool
      PROVE  rules[i] = ruling
  <2>1. CASE i <= n
    <3>1. i \in 1..n
      BY <1>1, <1>3, <2>1 DEF IsList
    <3>2. CASE preset.rules[i].tool \in named
      BY <1>1, <1>2, <1>4, <1>6, <3>1, <3>2
    <3>3. CASE preset.rules[i].tool \notin named
      BY <1>1, <1>4, <1>6, <3>1, <3>3
    <3> QED BY <3>2, <3>3
  <2>2. CASE \E t \in named : rules[i] = OverrideFor(override.rules, t)
    BY <1>2, <1>4, <1>6, <2>2
  <2> QED BY <1>1, <2>1, <2>2
<1>7. \A i \in fits : p.rules[i] = ruling
  BY <1>1, <1>5, <1>6 DEF IsList
<1>8. DecisionOn(p, tool, action) =
        IF fits = {} THEN p.default ELSE p.rules[first].decision
  BY DEF DecisionOn
<1>9. CASE ruling.action \in {None, action}
  <2>1. PICK i \in 1..Len(rules) : rules[i] = ruling
    BY <1>1, <1>4
  <2>2. i \in fits
    BY <1>1, <1>2, <1>4, <1>5, <1>9, <2>1 DEF IsList
  <2>3. fits \subseteq Nat
    BY <1>1, <1>5 DEF IsList
  <2> HIDE DEF fits
  <2>4. \E m \in fits : \A j \in fits : m <= j
    BY <2>2, <2>3, LeastNumber
  <2>5. first \in fits
    BY <2>4
  <2> HIDE DEF first
  <2>6. DecisionOn(p, tool, action) = ruling.decision
    BY <1>7, <1>8, <2>2, <2>5
  <2> QED BY <1>9, <2>6 DEF ruling
<1>10. CASE ruling.action \notin {None, action}
  <2>1. fits = {}
    BY <1>7, <1>10
  <2>2. DecisionOn(p, tool, action) = p.default
    BY <1>8, <2>1
  <2> QED BY <1>10, <2>2 DEF ruling
<1> QED BY <1>9, <1>10

LEMMA OtherToolDecided ==
  ASSUME NEW preset \in Presets, NEW override \in Overrides, NEW p, NEW base,
         p.rules = MergeOverrides(preset, override).rules,
         base.rules = preset.rules, base.default = p.default,
         NEW tool, tool \notin ToolsOf(override.rules), NEW action
  PROVE  DecisionOn(p, tool, action) = DecisionOn(base, tool, action)
<1> DEFINE rules == MergeOverrides(preset, override).rules
           named == ToolsOf(override.rules)
           n == Len(preset.rules)
           Fits(q) == {i \in DOMAIN q.rules : /\ q.rules[i].tool = tool
                                              /\ q.rules[i].action \in {None, action}}
           First(q) == CHOOSE i \in Fits(q) : \A j \in Fits(q) : i <= j
<1>1. /\ IsList(rules) /\ n <= Len(rules)
      /\ \A i \in 1..n :
           rules[i] = IF preset.rules[i].tool \in named
                      THEN OverrideFor(override.rules, preset.rules[i].tool)
                      ELSE preset.rules[i]
      /\ \A i \in 1..Len(rules) :
           i <= n \/ \E t \in named : rules[i] = OverrideFor(override.rules, t)
  BY MergedRules
<1>2. \A t \in named : OverrideFor(override.rules, t).tool = t
  BY OverridesAssumption, OverrideForTool DEF IsList
<1>3. n \in Nat /\ DOMAIN preset.rules = 1..n
  BY PoliciesAssumption
<1> HIDE DEF rules, named, n
<1>4. tool \notin named /\ p.rules = rules
  BY DEF named, rules
<1>5. ASSUME NEW i \in 1..n, preset.rules[i].tool = tool \/ rules[i].tool = tool
      PROVE  rules[i] = preset.rules[i]
  BY <1>1, <1>2, <1>4, <1>5
<1>6. ASSUME NEW i \in 1..Len(rules), rules[i].tool = tool
      PROVE  i \in 1..n
  BY <1>1, <1>2, <1>3, <1>4, <1>6 DEF IsList
<1>7. 1..n \subseteq 1..Len(rules)
  BY <1>1, <1>3 DEF IsList
<1>8. Fits(p) = Fits(base) /\ Fits(p) \subseteq Nat /\ \A i \in Fits(p) : p.rules[i] = base.rules[i]
  <2>1. Fits(p) = {i \in 1..Len(rules) : rules[i].tool = tool /\ rules[i].action \in {None, action}}
    BY <1>1, <1>4 DEF IsList
  <2>2. Fits(base) = {i \in 1..n : /\ preset.rules[i].tool = tool
                                   /\ preset.rules[i].action \in {None, action}}
    BY <1>3
  <2> HIDE DEF Fits
  <2>3. Fits(p) = Fits(base)
    BY <1>5, <1>6, <1>7, <2>1, <2>2
  <2> QED BY <1>4, <1>5, <2>1, <2>2, <2>3
<1>9. /\ DecisionOn(p, tool, action) =
           IF Fits(p) = {} THEN p.default ELSE p.rules[First(p)].decision
      /\ DecisionOn(base, tool, action) =
           IF Fits(base) = {} THEN base.default ELSE base.rules[First(base)].decision
  BY DEF DecisionOn
<1> HIDE DEF Fits
<1>10. CASE Fits(p) = {}
  BY <1>8, <1>9, <1>10
<1>11. CASE Fits(p) # {}
  <2>1. \E m \in Fits(p) : \A j \in Fits(p) : m <= j
    BY <1>8, <1>11, LeastNumber
  <2>2. First(p) \in Fits(p) /\ First(p) = First(base)
    BY <1>8, <2>1
  <2> HIDE DEF First
  <2> QED BY <1>8, <1>9, <1>11, <2>2
<1> QED BY <1>10, <1>11

\* The policy is what the loader made of a preset and an override.
PolicyInv ==
  policy # None =>
    \E preset \in Presets, override \in Overrides :
      /\ policy.preset = preset /\ policy.override = override
      /\ policy.rules = MergeOverrides(preset, override).rules

LEMMA PolicySteps ==
  ASSUME PolicyInv, [Next]_vars
  PROVE  PolicyInv'
<1>1. CASE policy' = policy
  BY <1>1 DEF PolicyInv
<1>2. CASE \E preset \in Presets, override \in Overrides, providers \in ToolSets :
             LoadPolicy(preset, override, providers)
  <2>1. PICK preset \in Presets, override \in Overrides, providers \in ToolSets :
          LoadPolicy(preset, override, providers)
    BY <1>2
  <2>2. policy' = [rules |-> MergeOverrides(preset, override).rules,
                   default |-> MergeOverrides(preset, override).default, preset |-> preset,
                   override |-> override, capabilities |-> Capabilities(providers)]
    BY <2>1 DEF LoadPolicy
  <2>3. /\ policy'.preset = preset /\ policy'.override = override
        /\ policy'.rules = MergeOverrides(preset, override).rules
    BY <2>2
  <2> QED BY <2>3 DEF PolicyInv
<1>3. CASE UNCHANGED vars
  BY <1>1, <1>3 DEF vars
<1>4. CASE TeamCall \/ ItemCall \/ ReportCall
  BY <1>1, <1>4 DEF TeamCall, ItemCall, ReportCall, Untouched, policyVars
<1>5. CASE \E p \in Packs : HydrateShared(p) \/ HydrateOwn(p)
  BY <1>1, <1>5 DEF HydrateShared, HydrateOwn, policyVars
<1>6. CASE CreateApp \/ ClearCache \/ LoadInstances \/ LoadAssets
  BY <1>1, <1>6 DEF CreateApp, ClearCache, LoadInstances, LoadAssets, policyVars
<1>7. CASE \/ \E w \in session.edits : Edit(w)
           \/ \E name \in ChannelNames : RegisterChannel(name)
           \/ \E ext \in Extensions : RegisterExtension(ext)
           \/ \E declared \in Declared : LoadDeclared(declared)
  BY <1>1, <1>7 DEF Edit, RegisterChannel, RegisterExtension, LoadDeclared, policyVars
<1>8. CASE \E tool \in UNION {Capabilities(p) : p \in ToolSets}, action \in {"read", "write"} :
              Invoke(tool, action)
  BY <1>1, <1>8 DEF Invoke
<1> QED BY <1>2, <1>3, <1>4, <1>5, <1>6, <1>7, <1>8 DEF Next

\* An override rules on its tool alone; on that tool nothing of the preset is
\* left (policy/loader.py:139-178).
THEOREM OverridesAreLocalHolds == Spec => []OverridesAreLocal
<1>1. Init => PolicyInv
  BY DEF Init, PolicyInv
<1>2. PolicyInv /\ [Next]_vars => PolicyInv'
  BY PolicySteps
<1>3. PolicyInv => OverridesAreLocal
  <2> SUFFICES ASSUME PolicyInv, policy # None, NEW tool \in policy.capabilities,
                      NEW action \in {"read", "write"}
               PROVE  DecisionOn(policy, tool, action) =
                        IF tool \notin ToolsOf(policy.override.rules)
                        THEN DecisionOn([policy.preset EXCEPT !.default = policy.default],
                                        tool, action)
                        ELSE LET rule == OverrideFor(policy.override.rules, tool)
                             IN IF rule.action \in {None, action} THEN rule.decision
                                ELSE policy.default
    BY Zenon DEF OverridesAreLocal
  <2>1. PICK preset \in Presets, override \in Overrides :
          /\ policy.preset = preset /\ policy.override = override
          /\ policy.rules = MergeOverrides(preset, override).rules
    BY DEF PolicyInv
  <2> DEFINE base == [preset EXCEPT !.default = policy.default]
  <2>2. base.rules = preset.rules /\ base.default = policy.default
    <3>1. preset = [default |-> preset.default, rules |-> preset.rules]
      BY PoliciesAssumption
    <3>2. base = [default |-> policy.default, rules |-> preset.rules]
      BY <3>1
    <3> QED BY <3>2
  <2> HIDE DEF base
  <2>3. CASE tool \notin ToolsOf(override.rules)
    <3>1. DecisionOn(policy, tool, action) = DecisionOn(base, tool, action)
      BY <2>1, <2>2, <2>3, OtherToolDecided
    <3> QED BY <2>1, <2>3, <3>1 DEF base
  <2>4. CASE tool \in ToolsOf(override.rules)
    <3>1. DecisionOn(policy, tool, action) =
            LET rule == OverrideFor(override.rules, tool)
            IN IF rule.action \in {None, action} THEN rule.decision ELSE policy.default
      BY <2>1, <2>4, OwnToolDecided
    <3> QED BY <2>1, <2>4, <3>1
  <2> QED BY <2>3, <2>4
<1> QED BY <1>1, <1>2, <1>3, PTL DEF Spec

-----------------------------------------------------------------------------
(* Loops: a function that is defined by recursion satisfies its equation.  *)

\* The loop over the files of a directory.
LEMMA LoadingRuns ==
  ASSUME NEW reg, NEW dir, Len(dir) \in Nat
  PROVE  Loading(reg, dir) =
           [n \in 0..Len(dir) |->
              IF n = 0 THEN reg ELSE LoadNext(Loading(reg, dir)[n - 1], dir, n)]
<1> DEFINE Runs(g, n) ==
             g = [k \in 0..n |-> IF k = 0 THEN reg ELSE LoadNext(g[k - 1], dir, k)]
           T == {n \in Nat : ~ \E g : Runs(g, n)}
<1>1. ASSUME T # {} PROVE FALSE
  <2>1. PICK m \in T : \A n \in T : m <= n
    BY <1>1, LeastNumber
  <2>2. CASE m = 0
    <3>1. Runs([k \in 0..0 |-> reg], 0)
      OBVIOUS
    <3> QED BY <2>1, <2>2, <3>1
  <2>3. CASE m # 0
    <3>1. m \in Nat /\ m - 1 \in Nat /\ m - 1 \notin T
      <4>1. m \in Nat /\ m - 1 \in Nat
        BY <2>3
      <4> HIDE DEF T
      <4> QED BY <2>1, <4>1
    <3>2. PICK g : Runs(g, m - 1)
      BY <3>1
    <3> DEFINE h == [k \in 0..m |-> IF k < m THEN g[k] ELSE LoadNext(g[m - 1], dir, m)]
    <3>3. Runs(h, m)
      <4>1. ASSUME NEW k \in 0..m
            PROVE  h[k] = IF k = 0 THEN reg ELSE LoadNext(h[k - 1], dir, k)
        <5>1. CASE k < m
          BY <2>3, <3>1, <3>2, <5>1
        <5>2. CASE k = m
          BY <2>3, <3>1, <5>2
        <5> QED BY <3>1, <5>1, <5>2
      <4> QED BY <4>1
    <3> QED BY <2>1, <3>3
  <2> QED BY <2>2, <2>3
<1>2. \E g : Runs(g, Len(dir))
  BY <1>1
<1> QED BY <1>2 DEF Loading

\* The loop of a filter over the assets.
LEMMA EvaluatingRuns ==
  ASSUME NEW f, NEW assets, Len(assets) \in Nat
  PROVE  Evaluating(f, assets) =
           [n \in 0..Len(assets) |->
              IF n = 0 THEN <<>> ELSE EvaluateNext(f, Evaluating(f, assets)[n - 1], assets[n])]
<1> DEFINE Runs(g, n) ==
             g = [k \in 0..n |-> IF k = 0 THEN <<>> ELSE EvaluateNext(f, g[k - 1], assets[k])]
           T == {n \in Nat : ~ \E g : Runs(g, n)}
<1>1. ASSUME T # {} PROVE FALSE
  <2>1. PICK m \in T : \A n \in T : m <= n
    BY <1>1, LeastNumber
  <2>2. CASE m = 0
    <3>1. Runs([k \in 0..0 |-> <<>>], 0)
      OBVIOUS
    <3> QED BY <2>1, <2>2, <3>1
  <2>3. CASE m # 0
    <3>1. m \in Nat /\ m - 1 \in Nat /\ m - 1 \notin T
      <4>1. m \in Nat /\ m - 1 \in Nat
        BY <2>3
      <4> HIDE DEF T
      <4> QED BY <2>1, <4>1
    <3>2. PICK g : Runs(g, m - 1)
      BY <3>1
    <3> DEFINE h == [k \in 0..m |-> IF k < m THEN g[k] ELSE EvaluateNext(f, g[m - 1], assets[m])]
    <3>3. Runs(h, m)
      <4>1. ASSUME NEW k \in 0..m
            PROVE  h[k] = IF k = 0 THEN <<>> ELSE EvaluateNext(f, h[k - 1], assets[k])
        <5>1. CASE k < m
          BY <2>3, <3>1, <3>2, <5>1
        <5>2. CASE k = m
          BY <2>3, <3>1, <5>2
        <5> QED BY <3>1, <5>1, <5>2
      <4> QED BY <4>1
    <3> QED BY <2>1, <3>3
  <2> QED BY <2>2, <2>3
<1>2. \E g : Runs(g, Len(assets))
  BY <1>1
<1> QED BY <1>2 DEF Evaluating

\* The loop over the filters.
LEMMA FilteringRuns ==
  ASSUME NEW reg, NEW filters, Len(filters) \in Nat
  PROVE  Filtering(reg, filters) =
           [n \in 0..Len(filters) |->
              IF n = 0 THEN reg.assets ELSE Evaluate(filters[n], Filtering(reg, filters)[n - 1])]
<1> DEFINE Runs(g, n) ==
             g = [k \in 0..n |-> IF k = 0 THEN reg.assets ELSE Evaluate(filters[k], g[k - 1])]
           T == {n \in Nat : ~ \E g : Runs(g, n)}
<1>1. ASSUME T # {} PROVE FALSE
  <2>1. PICK m \in T : \A n \in T : m <= n
    BY <1>1, LeastNumber
  <2>2. CASE m = 0
    <3>1. Runs([k \in 0..0 |-> reg.assets], 0)
      OBVIOUS
    <3> QED BY <2>1, <2>2, <3>1
  <2>3. CASE m # 0
    <3>1. m \in Nat /\ m - 1 \in Nat /\ m - 1 \notin T
      <4>1. m \in Nat /\ m - 1 \in Nat
        BY <2>3
      <4> HIDE DEF T
      <4> QED BY <2>1, <4>1
    <3>2. PICK g : Runs(g, m - 1)
      BY <3>1
    <3> DEFINE h == [k \in 0..m |-> IF k < m THEN g[k] ELSE Evaluate(filters[m], g[m - 1])]
    <3>3. Runs(h, m)
      <4>1. ASSUME NEW k \in 0..m
            PROVE  h[k] = IF k = 0 THEN reg.assets ELSE Evaluate(filters[k], h[k - 1])
        <5>1. CASE k < m
          BY <2>3, <3>1, <3>2, <5>1
        <5>2. CASE k = m
          BY <2>3, <3>1, <5>2
        <5> QED BY <3>1, <5>1, <5>2
      <4> QED BY <4>1
    <3> QED BY <2>1, <3>3
  <2> QED BY <2>2, <2>3
<1>2. \E g : Runs(g, Len(filters))
  BY <1>1
<1> QED BY <1>2 DEF Filtering

\* A list of anything.
IsSeq(s) == \E S : s \in Seq(S)

LEMMA ListLength ==
  ASSUME NEW s, IsSeq(s)
  PROVE  Len(s) \in Nat /\ DOMAIN s = 1..Len(s)
BY DEF IsSeq

LEMMA Appended ==
  ASSUME NEW s, IsSeq(s), NEW e
  PROVE  /\ IsSeq(Append(s, e))
         /\ Len(Append(s, e)) = Len(s) + 1
         /\ \A i \in 1..Len(s) : Append(s, e)[i] = s[i]
         /\ Append(s, e)[Len(s) + 1] = e
<1>1. PICK S : s \in Seq(S)
  BY DEF IsSeq
<1> DEFINE U == S \cup {e}
<1>2. s \in Seq(U) /\ e \in U
  BY <1>1
<1> HIDE DEF U
<1>3. Append(s, e) \in Seq(U)
  BY <1>2, AppendProperties
<1>4. /\ Len(Append(s, e)) = Len(s) + 1
      /\ \A i \in 1..Len(s) : Append(s, e)[i] = s[i]
      /\ Append(s, e)[Len(s) + 1] = e
  BY <1>2, AppendProperties
<1> QED BY <1>3, <1>4 DEF IsSeq

-----------------------------------------------------------------------------
(* The registry of assets                                                  *)

KeysDistinct(s) == \A i, j \in DOMAIN s : KeyOf(s[i]) = KeyOf(s[j]) => i = j

\* What every registry is, with errors or without.
IsRegistry(reg) ==
  /\ reg = [assets |-> reg.assets, errors |-> reg.errors]
  /\ IsSeq(reg.assets)
  /\ KeysDistinct(reg.assets)

LEMMA EmptyIsRegistry == IsRegistry(EmptyRegistry)
<1>1. EmptyRegistry.assets = <<>>
  BY DEF EmptyRegistry
<1>2. <<>> \in Seq({})
  OBVIOUS
<1>3. EmptyRegistry = [assets |-> EmptyRegistry.assets, errors |-> EmptyRegistry.errors]
  BY DEF EmptyRegistry
<1> QED BY <1>1, <1>2, <1>3 DEF IsRegistry, IsSeq, KeysDistinct

LEMMA FailedKeeps ==
  ASSUME NEW reg, IsRegistry(reg), NEW why
  PROVE  IsRegistry(Failed(reg, why))
<1> DEFINE errors == Append(reg.errors, why)
<1>1. Failed(reg, why) = [reg EXCEPT !.errors = errors]
  BY DEF Failed
<1> HIDE DEF errors
<1>2. [reg EXCEPT !.errors = errors] = [assets |-> reg.assets, errors |-> errors]
  BY DEF IsRegistry
<1> QED BY <1>1, <1>2 DEF IsRegistry

\* A file is registered under a key that no other asset has.
LEMMA LoadSingleKeeps ==
  ASSUME NEW reg, IsRegistry(reg), NEW file
  PROVE  IsRegistry(LoadSingle(reg, file))
<1> DEFINE a == Metadata(file)
           more == [reg EXCEPT !.assets = Append(reg.assets, a)]
<1>1. \/ \E why : LoadSingle(reg, file) = Failed(reg, why)
      \/ LoadSingle(reg, file) = more /\ KeyOf(a) \notin Keys(reg)
  BY Zenon DEF LoadSingle
<1> HIDE DEF a
<1>2. ASSUME KeyOf(a) \notin Keys(reg) PROVE IsRegistry(more)
  <2> DEFINE s == reg.assets
             t == Append(s, a)
  <2>1. IsSeq(s) /\ KeysDistinct(s) /\ Len(s) \in Nat /\ DOMAIN s = 1..Len(s)
    BY ListLength DEF IsRegistry
  <2>2. /\ IsSeq(t) /\ Len(t) = Len(s) + 1
        /\ \A i \in 1..Len(s) : t[i] = s[i]
        /\ t[Len(s) + 1] = a
    BY <2>1, Appended
  <2>3. DOMAIN t = 1..(Len(s) + 1)
    BY <2>2, ListLength
  <2>4. \A i \in 1..Len(s) : KeyOf(s[i]) # KeyOf(a)
    BY <1>2, <2>1 DEF Keys
  <2>5. more = [assets |-> t, errors |-> reg.errors]
    <3> HIDE DEF t
    <3>1. more = [reg EXCEPT !.assets = t]
      BY DEF t
    <3> HIDE DEF more
    <3> QED BY <3>1 DEF IsRegistry
  <2> HIDE DEF s, t, more
  <2>6. KeysDistinct(t)
    <3> SUFFICES ASSUME NEW i \in DOMAIN t, NEW j \in DOMAIN t, KeyOf(t[i]) = KeyOf(t[j])
                 PROVE  i = j
      BY DEF KeysDistinct
    <3>1. CASE i \in 1..Len(s) /\ j \in 1..Len(s)
      BY <2>1, <2>2, <3>1 DEF KeysDistinct
    <3>2. CASE i = Len(s) + 1 /\ j \in 1..Len(s)
      BY <2>2, <2>4, <3>2
    <3>3. CASE j = Len(s) + 1 /\ i \in 1..Len(s)
      BY <2>2, <2>4, <3>3
    <3> QED BY <2>1, <2>3, <3>1, <3>2, <3>3
  <2> QED BY <2>2, <2>5, <2>6 DEF IsRegistry
<1> HIDE DEF more
<1> QED BY <1>1, <1>2, FailedKeeps

LEMMA LoadFromDirKeeps ==
  ASSUME NEW reg, IsRegistry(reg), NEW dir, dir # None => IsList(dir)
  PROVE  IsRegistry(LoadFromDir(reg, dir))
<1> DEFINE after == Loading(reg, dir)
           T == {n \in Nat : n <= Len(dir) /\ ~ IsRegistry(after[n])}
<1>1. \/ \E why : LoadFromDir(reg, dir) = Failed(reg, why)
      \/ dir # None /\ LoadFromDir(reg, dir) = after[Len(dir)]
  BY Zenon DEF LoadFromDir
<1>2. ASSUME dir # None PROVE IsRegistry(after[Len(dir)])
  <2>1. Len(dir) \in Nat
    BY <1>2 DEF IsList
  <2>2. after = [n \in 0..Len(dir) |-> IF n = 0 THEN reg ELSE LoadNext(after[n - 1], dir, n)]
    BY <2>1, LoadingRuns
  <2> HIDE DEF after
  <2>3. ASSUME T # {} PROVE FALSE
    <3>1. PICK m \in T : \A n \in T : m <= n
      BY <2>3, LeastNumber
    <3>2. m \in Nat /\ m <= Len(dir) /\ ~ IsRegistry(after[m])
      OBVIOUS
    <3>3. m # 0
      BY <2>1, <2>2, <3>2
    <3>4. m - 1 \in Nat /\ m - 1 <= Len(dir) /\ m - 1 \notin T
      <4>1. m - 1 \in Nat /\ m - 1 <= Len(dir) /\ m - 1 < m
        BY <2>1, <3>2, <3>3
      <4>2. ASSUME m - 1 \in T PROVE FALSE
        <5> HIDE DEF T
        <5> QED BY <3>1, <3>2, <4>1, <4>2
      <4> QED BY <4>1, <4>2
    <3>5. IsRegistry(after[m - 1])
      BY <3>4
    <3>6. after[m] = LoadNext(after[m - 1], dir, m)
      BY <2>1, <2>2, <3>2, <3>3
    <3>7. after[m] = after[m - 1] \/ after[m] = LoadSingle(after[m - 1], dir[m])
      BY <3>6 DEF LoadNext
    <3> QED BY <3>2, <3>5, <3>7, LoadSingleKeeps
  <2> QED BY <2>1, <2>3
<1> QED BY <1>1, <1>2, FailedKeeps

-----------------------------------------------------------------------------
(* Filters                                                                 *)

\* What is left of s, in the order of s.
LeftOf(t, s) ==
  /\ IsSeq(t)
  /\ \A i \in DOMAIN t : \E k \in DOMAIN s : t[i] = s[k]
  /\ \A i, j \in DOMAIN t, k, l \in DOMAIN s :
       i < j /\ t[i] = s[k] /\ t[j] = s[l] => k < l

LEMMA LeftOfLeft ==
  ASSUME NEW s, NEW t, NEW u, LeftOf(t, s), LeftOf(u, t)
  PROVE  LeftOf(u, s)
<1>1. ASSUME NEW i \in DOMAIN u PROVE \E k \in DOMAIN s : u[i] = s[k]
  <2>1. PICK h \in DOMAIN t : u[i] = t[h]
    BY DEF LeftOf
  <2> QED BY <2>1 DEF LeftOf
<1>2. ASSUME NEW i \in DOMAIN u, NEW j \in DOMAIN u, NEW k \in DOMAIN s, NEW l \in DOMAIN s,
             i < j, u[i] = s[k], u[j] = s[l]
      PROVE  k < l
  <2>1. PICK h \in DOMAIN t : u[i] = t[h]
    BY DEF LeftOf
  <2>2. PICK g \in DOMAIN t : u[j] = t[g]
    BY DEF LeftOf
  <2>3. h < g
    BY <1>2, <2>1, <2>2 DEF LeftOf
  <2> QED BY <1>2, <2>1, <2>2, <2>3 DEF LeftOf
<1> QED BY <1>1, <1>2 DEF LeftOf

\* No element comes twice.
Distinct(s) == \A k, l \in DOMAIN s : s[k] = s[l] => k = l

LEMMA LeftIsDistinct ==
  ASSUME NEW s, NEW t, IsSeq(s), LeftOf(t, s)
  PROVE  Distinct(t)
<1> SUFFICES ASSUME NEW i \in DOMAIN t, NEW j \in DOMAIN t, t[i] = t[j], i # j
             PROVE  FALSE
  BY DEF Distinct
<1>1. i \in Nat /\ j \in Nat
  BY ListLength DEF LeftOf
<1>2. PICK k \in DOMAIN s : t[i] = s[k]
  BY DEF LeftOf
<1>3. k \in Nat /\ t[j] = s[k]
  BY <1>2, ListLength
<1>4. ASSUME i < j PROVE FALSE
  <2>1. k < k
    BY <1>2, <1>3, <1>4 DEF LeftOf
  <2> QED BY <1>3, <2>1
<1>5. ASSUME j < i PROVE FALSE
  <2>1. k < k
    BY <1>2, <1>3, <1>5 DEF LeftOf
  <2> QED BY <1>3, <2>1
<1> QED BY <1>1, <1>4, <1>5

\* After n elements of s: those of them that f selects, in their order.
KeptSoFar(f, s, n, t) ==
  /\ IsSeq(t)
  /\ \A i \in DOMAIN t : \E k \in 1..n : t[i] = s[k] /\ Selects(f, s[k])
  /\ \A k \in 1..n : Selects(f, s[k]) => \E i \in DOMAIN t : t[i] = s[k]
  /\ \A i, j \in DOMAIN t, k, l \in 1..n :
       i < j /\ t[i] = s[k] /\ t[j] = s[l] => k < l

LEMMA EvaluateNextKeeps ==
  ASSUME NEW f, NEW s, IsSeq(s), Distinct(s), NEW n \in Nat, n + 1 <= Len(s),
         NEW t, KeptSoFar(f, s, n, t)
  PROVE  KeptSoFar(f, s, n + 1, EvaluateNext(f, t, s[n + 1]))
<1> DEFINE a == s[n + 1]
<1>0. /\ Len(s) \in Nat /\ DOMAIN s = 1..Len(s)
      /\ Len(t) \in Nat /\ DOMAIN t = 1..Len(t)
  BY ListLength DEF KeptSoFar
<1>1. \A k \in 1..n : s[k] # a
  BY <1>0 DEF Distinct
<1>2. \A k \in 1..(n + 1) : k \in 1..n \/ k = n + 1
  OBVIOUS
<1>3. \A i \in DOMAIN t : t[i] # a
  BY <1>1 DEF KeptSoFar
<1>4. CASE ~ Selects(f, a)
  <2>1. EvaluateNext(f, t, a) = t
    BY <1>4, Zenon DEF EvaluateNext
  <2>2. \A i \in DOMAIN t : \E k \in 1..(n + 1) : t[i] = s[k] /\ Selects(f, s[k])
    BY DEF KeptSoFar
  <2>3. \A k \in 1..(n + 1) : Selects(f, s[k]) => \E i \in DOMAIN t : t[i] = s[k]
    BY <1>2, <1>4 DEF KeptSoFar
  <2>4. \A i, j \in DOMAIN t, k, l \in 1..(n + 1) :
          i < j /\ t[i] = s[k] /\ t[j] = s[l] => k < l
    BY <1>2, <1>3 DEF KeptSoFar
  <2> QED BY <2>1, <2>2, <2>3, <2>4 DEF KeptSoFar
<1>5. CASE Selects(f, a)
  <2> DEFINE u == Append(t, a)
  <2>1. EvaluateNext(f, t, a) = u
    BY <1>5, Zenon DEF EvaluateNext
  <2>2. /\ IsSeq(u) /\ Len(u) = Len(t) + 1
        /\ \A i \in DOMAIN t : u[i] = t[i]
        /\ u[Len(t) + 1] = a
    BY <1>0, Appended DEF KeptSoFar
  <2>3. DOMAIN u = 1..(Len(t) + 1)
    BY <2>2, ListLength
  <2> HIDE DEF u
  <2>4. \A i \in DOMAIN u : i \in DOMAIN t \/ i = Len(t) + 1
    BY <1>0, <2>3
  <2>5. ASSUME NEW i \in DOMAIN u
        PROVE  \E k \in 1..(n + 1) : u[i] = s[k] /\ Selects(f, s[k])
    <3>1. CASE i \in DOMAIN t
      <4>1. PICK k \in 1..n : t[i] = s[k] /\ Selects(f, s[k])
        BY <3>1 DEF KeptSoFar
      <4> QED BY <2>2, <3>1, <4>1
    <3>2. CASE i = Len(t) + 1
      <4>1. n + 1 \in 1..(n + 1)
        OBVIOUS
      <4> QED BY <1>5, <2>2, <3>2, <4>1
    <3> QED BY <2>4, <3>1, <3>2
  <2>6. ASSUME NEW k \in 1..(n + 1), Selects(f, s[k])
        PROVE  \E i \in DOMAIN u : u[i] = s[k]
    <3>1. CASE k \in 1..n
      <4>1. PICK i \in DOMAIN t : t[i] = s[k]
        BY <2>6, <3>1 DEF KeptSoFar
      <4>2. i \in DOMAIN u
        BY <1>0, <2>3
      <4> QED BY <2>2, <4>1, <4>2
    <3>2. CASE k = n + 1
      <4>1. Len(t) + 1 \in DOMAIN u
        BY <1>0, <2>3
      <4> QED BY <2>2, <3>2, <4>1
    <3> QED BY <1>2, <3>1, <3>2
  <2>7. ASSUME NEW i \in DOMAIN u, NEW j \in DOMAIN u, NEW k \in 1..(n + 1), NEW l \in 1..(n + 1),
               i < j, u[i] = s[k], u[j] = s[l]
        PROVE  k < l
    <3>1. i \in DOMAIN t /\ u[i] = t[i]
      BY <1>0, <2>2, <2>3, <2>4, <2>7
    <3>2. k \in 1..n
      BY <1>2, <1>3, <2>7, <3>1
    <3>3. CASE j \in DOMAIN t
      <4>1. u[j] = t[j] /\ t[j] # a
        BY <1>3, <2>2, <3>3
      <4>2. l \in 1..n
        BY <1>2, <2>7, <4>1
      <4>3. t[i] = s[k] /\ t[j] = s[l]
        BY <2>7, <3>1, <4>1
      <4> QED BY <2>7, <3>1, <3>2, <3>3, <4>2, <4>3, Zenon DEF KeptSoFar
    <3>4. CASE j = Len(t) + 1
      <4>1. s[l] = a
        BY <2>2, <2>7, <3>4
      <4>2. l = n + 1
        BY <1>1, <1>2, <4>1
      <4> QED BY <3>2, <4>2
    <3> QED BY <2>4, <3>3, <3>4
  <2> QED BY <2>1, <2>2, <2>5, <2>6, <2>7 DEF KeptSoFar
<1> QED BY <1>4, <1>5

\* A filter leaves what it selects, in order.
LEMMA EvaluateLeaves ==
  ASSUME NEW f, NEW s, IsSeq(s), Distinct(s)
  PROVE  /\ LeftOf(Evaluate(f, s), s)
         /\ ToSet(Evaluate(f, s)) = {a \in ToSet(s) : Selects(f, a)}
<1> DEFINE kept == Evaluating(f, s)
           T == {n \in Nat : n <= Len(s) /\ ~ KeptSoFar(f, s, n, kept[n])}
           t == Evaluate(f, s)
<1>1. Len(s) \in Nat /\ DOMAIN s = 1..Len(s)
  BY ListLength
<1>2. kept = [n \in 0..Len(s) |-> IF n = 0 THEN <<>> ELSE EvaluateNext(f, kept[n - 1], s[n])]
  BY <1>1, EvaluatingRuns
<1>3. t = kept[Len(s)]
  BY DEF Evaluate
<1> HIDE DEF kept, t
<1>4. ASSUME T # {} PROVE FALSE
  <2>1. PICK m \in T : \A n \in T : m <= n
    BY <1>4, LeastNumber
  <2>2. m \in Nat /\ m <= Len(s) /\ ~ KeptSoFar(f, s, m, kept[m])
    OBVIOUS
  <2>3. CASE m = 0
    <3>1. kept[0] = <<>>
      BY <1>1, <1>2
    <3>2. IsSeq(<<>>)
      BY DEF IsSeq
    <3>3. KeptSoFar(f, s, 0, <<>>)
      BY <3>2 DEF KeptSoFar
    <3> QED BY <2>2, <2>3, <3>1, <3>3
  <2>4. CASE m # 0
    <3>1. m - 1 \in Nat /\ m - 1 <= Len(s) /\ m - 1 < m /\ (m - 1) + 1 = m
      BY <1>1, <2>2, <2>4
    <3>2. m - 1 \notin T
      <4> HIDE DEF T
      <4> QED BY <2>1, <2>2, <3>1
    <3>3. KeptSoFar(f, s, m - 1, kept[m - 1])
      BY <3>1, <3>2
    <3>4. kept[m] = EvaluateNext(f, kept[m - 1], s[m])
      BY <1>1, <1>2, <2>2, <2>4
    <3>5. KeptSoFar(f, s, (m - 1) + 1, EvaluateNext(f, kept[m - 1], s[(m - 1) + 1]))
      BY <2>2, <3>1, <3>3, EvaluateNextKeeps
    <3> QED BY <2>2, <3>1, <3>4, <3>5
  <2> QED BY <2>3, <2>4
<1>5. KeptSoFar(f, s, Len(s), t)
  BY <1>1, <1>3, <1>4
<1>6. LeftOf(t, s)
  BY <1>1, <1>5 DEF KeptSoFar, LeftOf
<1>7. ToSet(t) = {a \in ToSet(s) : Selects(f, a)}
  <2>1. ToSet(s) = {s[k] : k \in 1..Len(s)}
    BY <1>1 DEF ToSet
  <2>2. ToSet(t) = {t[i] : i \in DOMAIN t}
    BY DEF ToSet
  <2> HIDE DEF T
  <2>3. ASSUME NEW a \in ToSet(t) PROVE a \in ToSet(s) /\ Selects(f, a)
    BY <1>5, <2>1, <2>2, <2>3, Zenon DEF KeptSoFar
  <2>4. ASSUME NEW a \in ToSet(s), Selects(f, a) PROVE a \in ToSet(t)
    BY <1>5, <2>1, <2>2, <2>4, Zenon DEF KeptSoFar
  <2> QED BY <2>3, <2>4
<1> QED BY <1>6, <1>7 DEF t

LEMMA FiltersLeave ==
  ASSUME NEW reg, IsSeq(reg.assets), Distinct(reg.assets), NEW filters, IsList(filters)
  PROVE  /\ LeftOf(ApplyFilters(reg, filters), reg.assets)
         /\ ToSet(ApplyFilters(reg, filters)) =
              {a \in ToSet(reg.assets) : \A i \in DOMAIN filters : Selects(filters[i], a)}
<1> DEFINE left == Filtering(reg, filters)
           s == reg.assets
           Good(n) == /\ LeftOf(left[n], s)
                      /\ ToSet(left[n]) =
                           {a \in ToSet(s) : \A i \in 1..n : Selects(filters[i], a)}
           T == {n \in Nat : n <= Len(filters) /\ ~ Good(n)}
<1>1. Len(filters) \in Nat /\ DOMAIN filters = 1..Len(filters)
  BY DEF IsList
<1>2. left = [n \in 0..Len(filters) |-> IF n = 0 THEN s ELSE Evaluate(filters[n], left[n - 1])]
  BY <1>1, FilteringRuns
<1>3. ApplyFilters(reg, filters) = left[Len(filters)]
  BY DEF ApplyFilters
<1> HIDE DEF left, s
<1>4. IsSeq(s) /\ Distinct(s)
  BY DEF s
<1>5. ASSUME T # {} PROVE FALSE
  <2>1. PICK m \in T : \A n \in T : m <= n
    <3> HIDE DEF Good
    <3> QED BY <1>5, LeastNumber
  <2>2. m \in Nat /\ m <= Len(filters) /\ ~ Good(m)
    <3> HIDE DEF Good
    <3> QED OBVIOUS
  <2>3. CASE m = 0
    <3>1. left[0] = s
      BY <1>1, <1>2
    <3>2. LeftOf(s, s)
      <4>1. DOMAIN s = 1..Len(s) /\ Len(s) \in Nat
        BY <1>4, ListLength
      <4>2. \A i, j, k, l \in DOMAIN s : i < j /\ s[i] = s[k] /\ s[j] = s[l] => k < l
        BY <1>4, <4>1 DEF Distinct
      <4> QED BY <1>4, <4>2 DEF LeftOf
    <3>3. ToSet(s) = {a \in ToSet(s) : \A i \in 1..0 : Selects(filters[i], a)}
      OBVIOUS
    <3> QED BY <2>2, <2>3, <3>1, <3>2, <3>3
  <2>4. CASE m # 0
    <3>1. m - 1 \in Nat /\ m - 1 <= Len(filters) /\ m - 1 < m /\ (m - 1) + 1 = m
      BY <1>1, <2>2, <2>4
    <3>2. m - 1 \notin T
      <4> HIDE DEF T, Good
      <4> QED BY <2>1, <2>2, <3>1
    <3>3. Good(m - 1)
      <4> HIDE DEF Good
      <4> QED BY <3>1, <3>2
    <3> DEFINE t == left[m - 1]
               u == Evaluate(filters[m], t)
    <3>4. left[m] = u
      BY <1>1, <1>2, <2>2, <2>4
    <3>5. IsSeq(t) /\ Distinct(t)
      BY <1>4, <3>3, LeftIsDistinct DEF LeftOf
    <3> HIDE DEF t
    <3>6. LeftOf(u, t) /\ ToSet(u) = {a \in ToSet(t) : Selects(filters[m], a)}
      BY <3>5, EvaluateLeaves
    <3> HIDE DEF u
    <3>7. LeftOf(u, s)
      BY <3>3, <3>6, LeftOfLeft DEF t
    <3>8. \A i \in 1..m : i \in 1..(m - 1) \/ i = m
      BY <2>2
    <3>9. \A i \in 1..(m - 1) : i \in 1..m
      BY <2>2
    <3>10. m \in 1..m
      BY <2>2, <2>4
    <3>11. ToSet(t) = {a \in ToSet(s) : \A i \in 1..(m - 1) : Selects(filters[i], a)}
      BY <3>3 DEF t
    <3>12. ToSet(u) = {a \in ToSet(s) : \A i \in 1..m : Selects(filters[i], a)}
      BY <3>6, <3>8, <3>9, <3>10, <3>11, Zenon
    <3> QED BY <2>2, <3>4, <3>7, <3>12
  <2> QED BY <2>3, <2>4
<1>6. Good(Len(filters))
  <2> HIDE DEF Good
  <2> QED BY <1>1, <1>5
<1> QED BY <1>1, <1>3, <1>6 DEF s

\* Each operator selects what it says in its own words.
LEMMA SelectsWhatQualifies ==
  ASSUME NEW f, ~ Malformed(f), NEW a
  PROVE  Selects(f, a) <=> Qualifies(f, a)
<1> DEFINE op == Lower(f.op).word
           tags == IF f.tags \in {None, {}} THEN f.tag ELSE f.tags
           providers == IF f.providers \in {None, {}} THEN f.provider ELSE f.providers
           selected == /\ f.tags \notin {None} => \A t \in f.tags : t \in a.tags
                       /\ f.required_providers \notin {None} =>
                            \A x \in f.required_providers : x \in a.providers
<1>1. op \in {"include", "exclude", "by_tag", "by_required_provider"}
  BY DEF Malformed, FilterOps
<1>2. MatchInclude(f, a) <=> selected
  BY DEF MatchInclude
<1>3. FirstFilled(f.tags, f.tag) = tags /\ FirstFilled(f.providers, f.provider) = providers
  BY DEF FirstFilled
<1> HIDE DEF op, tags, providers, selected
<1>4. /\ MatchInclude(f, a) \in BOOLEAN
      /\ (tags # None /\ tags \subseteq a.tags) \in BOOLEAN
      /\ (providers # None /\ providers \cap a.providers # {}) \in BOOLEAN
  BY DEF MatchInclude
<1>5. Matches(f, a) = CASE op \in {"include", "exclude"} -> MatchInclude(f, a)
                        [] op = "by_tag" -> tags # None /\ tags \subseteq a.tags
                        [] op = "by_required_provider" ->
                             providers # None /\ providers \cap a.providers # {}
  BY <1>3, Zenon DEF Matches, op
<1>6. Qualifies(f, a) <=>
        \/ op = "include" /\ selected
        \/ op = "exclude" /\ ~selected
        \/ op = "by_tag" /\ tags # None /\ \A t \in tags : t \in a.tags
        \/ op = "by_required_provider" /\ providers # None /\ \E x \in providers : x \in a.providers
  BY Zenon DEF Qualifies, op, tags, providers, selected
<1>7. Selects(f, a) <=> (Matches(f, a) # (op = "exclude"))
  BY Zenon DEF Selects, op
<1>8. CASE op = "include"
  <2>1. Matches(f, a) = MatchInclude(f, a)
    BY <1>5, <1>8
  <2> QED BY <1>2, <1>4, <1>6, <1>7, <1>8, <2>1
<1>9. CASE op = "exclude"
  <2>1. Matches(f, a) = MatchInclude(f, a)
    BY <1>5, <1>9
  <2> QED BY <1>2, <1>4, <1>6, <1>7, <1>9, <2>1
<1>10. CASE op = "by_tag"
  <2>1. Matches(f, a) = (tags # None /\ tags \subseteq a.tags)
    BY <1>5, <1>10
  <2> QED BY <1>4, <1>6, <1>7, <1>10, <2>1
<1>11. CASE op = "by_required_provider"
  <2>1. Matches(f, a) = (providers # None /\ providers \cap a.providers # {})
    BY <1>5, <1>11
  <2> QED BY <1>4, <1>6, <1>7, <1>11, <2>1
<1> QED BY <1>1, <1>8, <1>9, <1>10, <1>11

-----------------------------------------------------------------------------
(* What a hydrated profile shows                                           *)

AssetsInv ==
  /\ session \in Starts /\ ws \in {session.files} \cup session.edits
  /\ IsRegistry(registry)
  /\ ViewIsFiltered

\* The body of ViewIsFiltered, of the fields it looks at.
Shows(ok, source, filters, assets, profile) ==
  ok =>
    LET place(a) == CHOOSE i \in DOMAIN source.assets : source.assets[i] = a
    IN /\ source.errors = <<>>
       /\ filters # <<>> =>
            ToSet(assets) = {a \in ToSet(source.assets) :
                               \A i \in DOMAIN filters : Qualifies(filters[i], a)}
       /\ \A i, j \in DOMAIN assets :
            /\ i # j => KeyOf(assets[i]) # KeyOf(assets[j])
            /\ i < j => place(assets[i]) < place(assets[j])
       /\ profile = "ea" => assets # <<>>

Filtered(v) == Shows(v.ok, v.source, v.filters, v.assets, v.profile)

LEMMA OutcomeIsFiltered ==
  ASSUME FilesAreLists(ws), NEW p, NEW reg, IsRegistry(reg), NEW checked
  PROVE  Filtered(Outcome(p, reg, checked))
<1> DEFINE filters == ws.profiles[p].asset_filters
           resolved == ApplyFilters(reg, filters)
           good == View(p, reg, resolved, checked)
           s == reg.assets
<1>1. \/ \E why, fs : Outcome(p, reg, checked) = Refused(p, why, fs)
      \/ /\ Outcome(p, reg, checked) = good
         /\ HydratedDescriptorValid(p) /\ ~ Poisoned(reg)
         /\ \A i \in DOMAIN filters : ~ Malformed(filters[i])
         /\ p = "ea" => filters # <<>> /\ resolved # <<>>
  BY Zenon DEF Outcome
<1>2. ASSUME NEW why, NEW fs PROVE Filtered(Refused(p, why, fs))
  BY DEF Filtered, Shows, Refused
<1>3. ASSUME HydratedDescriptorValid(p), ~ Poisoned(reg),
             \A i \in DOMAIN filters : ~ Malformed(filters[i]),
             p = "ea" => filters # <<>> /\ resolved # <<>>
      PROVE  Filtered(good)
  <2>1. IsList(filters)
    BY <1>3 DEF FilesAreLists, HydratedDescriptorValid
  <2>2. IsSeq(s) /\ KeysDistinct(s)
    BY DEF IsRegistry
  <2>3. Distinct(s)
    BY <2>2 DEF KeysDistinct, Distinct
  <2>4. /\ LeftOf(resolved, s)
        /\ ToSet(resolved) =
             {a \in ToSet(s) : \A i \in DOMAIN filters : Selects(filters[i], a)}
    BY <2>1, <2>2, <2>3, FiltersLeave
  <2> DEFINE shown == IF filters = <<>> THEN <<>> ELSE resolved
  <2>5. /\ good.ok /\ good.source = reg /\ good.filters = filters
        /\ good.profile = p /\ good.assets = shown
    <3> HIDE DEF resolved, filters
    <3> QED BY DEF View, filters
  <2> HIDE DEF resolved, good
  <2>6. reg.errors = <<>>
    BY <1>3 DEF Poisoned
  <2>7. filters # <<>> =>
          ToSet(shown) = {a \in ToSet(s) : \A i \in DOMAIN filters : Qualifies(filters[i], a)}
    <3>1. \A a, i : i \in DOMAIN filters => (Selects(filters[i], a) <=> Qualifies(filters[i], a))
      BY <1>3, SelectsWhatQualifies
    <3> HIDE DEF filters, s
    <3> QED BY <2>4, <3>1
  <2>8. LeftOf(shown, s)
    <3>1. LeftOf(<<>>, s)
      BY DEF LeftOf, IsSeq
    <3> HIDE DEF filters, s
    <3> QED BY <2>4, <3>1
  <2> HIDE DEF shown
  <2>9. ASSUME NEW i \in DOMAIN shown, NEW j \in DOMAIN shown, i < j
        PROVE  /\ KeyOf(shown[i]) # KeyOf(shown[j])
               /\ (CHOOSE k \in DOMAIN s : s[k] = shown[i]) <
                    (CHOOSE k \in DOMAIN s : s[k] = shown[j])
    <3> DEFINE k == CHOOSE k \in DOMAIN s : s[k] = shown[i]
               l == CHOOSE l \in DOMAIN s : s[l] = shown[j]
    <3>1. k \in DOMAIN s /\ s[k] = shown[i]
      BY <2>8 DEF LeftOf
    <3>2. l \in DOMAIN s /\ s[l] = shown[j]
      BY <2>8 DEF LeftOf
    <3> HIDE DEF k, l
    <3>3. k < l
      BY <2>8, <2>9, <3>1, <3>2 DEF LeftOf
    <3>4. k # l
      BY <2>2, <3>1, <3>3, ListLength
    <3>5. KeyOf(shown[i]) # KeyOf(shown[j])
      BY <2>2, <3>1, <3>2, <3>4 DEF KeysDistinct
    <3> QED BY <3>3, <3>5 DEF k, l
  <2>10. ASSUME NEW i \in DOMAIN shown, NEW j \in DOMAIN shown, i # j
         PROVE  KeyOf(shown[i]) # KeyOf(shown[j])
    <3>1. i < j \/ j < i
      BY <2>8, <2>10, ListLength DEF LeftOf
    <3> QED BY <2>9, <3>1
  <2>11. p = "ea" => shown # <<>>
    BY <1>3 DEF shown
  <2> HIDE DEF filters
  <2> QED BY <2>5, <2>6, <2>7, <2>9, <2>10, <2>11 DEF Filtered, Shows
<1> HIDE DEF good, resolved, filters
<1> QED BY <1>1, <1>2, <1>3

\* A step leaves the view, or makes one of a hydration; the registry stays or
\* loads a directory; nobody changes how the process started.
LEMMA AssetSteps ==
  ASSUME AssetsInv, [Next]_vars
  PROVE  AssetsInv'
<1> DEFINE Lists == session \in Starts /\ ws \in {session.files} \cup session.edits
<1>0. Lists /\ IsRegistry(registry) /\ ViewIsFiltered
  BY DEF AssetsInv
<1>a. FilesAreLists(ws)
  BY <1>0, FilesAssumption
<1>b. ViewIsFiltered <=> (view # None => Filtered(view))
  BY Zenon DEF ViewIsFiltered, Filtered, Shows
<1>c. ViewIsFiltered' <=> (view' # None => Filtered(view'))
  BY Zenon DEF ViewIsFiltered, Filtered, Shows
<1>1. CASE \E p \in Packs : HydrateShared(p)
  <2>1. PICK p \in Packs : HydrateShared(p)
    BY <1>1
  <2>2. PICK checked \in MayCheck(p) : view' = Outcome(p, registry, checked)
    BY <2>1 DEF HydrateShared
  <2>3. session' = session /\ ws' = ws /\ registry' = registry
    BY <2>1 DEF HydrateShared, Call
  <2>4. Filtered(view')
    BY <1>0, <1>a, <2>2, OutcomeIsFiltered
  <2> QED BY <1>0, <1>c, <2>3, <2>4 DEF AssetsInv
<1>2. CASE \E p \in Packs : HydrateOwn(p)
  <2>1. PICK p \in Packs : HydrateOwn(p)
    BY <1>2
  <2>2. session' = session /\ ws' = ws /\ registry' = registry
    BY <2>1 DEF HydrateOwn, Call
  <2>3. PICK running \in BOOLEAN, skipped \in BOOLEAN, checked \in BOOLEAN :
          LET reg == IF skipped THEN EmptyRegistry ELSE LoadFromDir(EmptyRegistry, ws.assets)
              loads == HydratedDescriptorValid(p) /\ (running \/ LoadRaises(ws.assets) => skipped)
              end == IF loads \/ ~HydratedDescriptorValid(p) THEN Outcome(p, reg, checked)
                     ELSE Refused(p, "raised", <<>>)
          IN view' = [end EXCEPT !.dir = IF end.why = "none resolved" THEN ws.assets ELSE None]
    BY <2>1, OwnView
  <2> DEFINE reg == IF skipped THEN EmptyRegistry ELSE LoadFromDir(EmptyRegistry, ws.assets)
             loads == HydratedDescriptorValid(p) /\ (running \/ LoadRaises(ws.assets) => skipped)
             end == IF loads \/ ~HydratedDescriptorValid(p) THEN Outcome(p, reg, checked)
                    ELSE Refused(p, "raised", <<>>)
             dir == IF end.why = "none resolved" THEN ws.assets ELSE None
  <2>4. end = Outcome(p, reg, checked) \/ end = Refused(p, "raised", <<>>)
    OBVIOUS
  <2>5. view' = [end EXCEPT !.dir = dir]
    BY <2>3
  <2>6. IsRegistry(reg)
    BY <1>a, EmptyIsRegistry, LoadFromDirKeeps DEF FilesAreLists
  <2> HIDE DEF reg, end, dir
  <2>7. Filtered(end)
    <3>1. Filtered(Refused(p, "raised", <<>>))
      BY DEF Filtered, Shows, Refused
    <3> QED BY <1>a, <2>4, <2>6, <3>1, OutcomeIsFiltered
  <2>8. /\ view'.ok = end.ok /\ view'.source = end.source /\ view'.filters = end.filters
        /\ view'.assets = end.assets /\ view'.profile = end.profile
    BY <2>5
  <2>9. Filtered(view')
    BY <2>7, <2>8 DEF Filtered
  <2> QED BY <1>0, <1>c, <2>2, <2>9 DEF AssetsInv
<1>3. CASE LoadAssets
  <2>1. /\ session' = session /\ ws' = ws /\ view' = view
        /\ registry' = LoadFromDir(registry, ws.assets)
    BY <1>3 DEF LoadAssets
  <2>2. IsRegistry(registry')
    BY <1>0, <1>a, <2>1, LoadFromDirKeeps DEF FilesAreLists
  <2> QED BY <1>0, <1>b, <1>c, <2>1, <2>2 DEF AssetsInv
<1>4. CASE \E w \in session.edits : Edit(w)
  <2>1. PICK w \in session.edits : Edit(w)
    BY <1>4
  <2>2. session' = session /\ ws' = w /\ view' = view /\ registry' = registry
    BY <2>1 DEF Edit, Call, assetVars
  <2> QED BY <1>0, <1>b, <1>c, <2>2 DEF AssetsInv
<1>5. CASE session' = session /\ ws' = ws /\ view' = view /\ registry' = registry
  BY <1>0, <1>b, <1>c, <1>5 DEF AssetsInv
<1>6. CASE CreateApp \/ ClearCache \/ LoadInstances
  BY <1>5, <1>6 DEF CreateApp, ClearCache, LoadInstances, assetVars, Call
<1>7. CASE \E name \in ChannelNames : RegisterChannel(name)
  BY <1>5, <1>7 DEF RegisterChannel, assetVars, Call
<1>8. CASE \E ext \in Extensions : RegisterExtension(ext)
  BY <1>5, <1>8 DEF RegisterExtension, assetVars, Call
<1>9. CASE \E declared \in Declared : LoadDeclared(declared)
  BY <1>5, <1>9 DEF LoadDeclared, assetVars, Call
<1>10. CASE \E preset \in Presets, override \in Overrides, providers \in ToolSets :
              LoadPolicy(preset, override, providers)
  BY <1>5, <1>10 DEF LoadPolicy, assetVars, Call
<1>11. CASE \E tool \in UNION {Capabilities(p) : p \in ToolSets}, action \in {"read", "write"} :
              Invoke(tool, action)
  BY <1>5, <1>11 DEF Invoke, assetVars, Call
<1>12. CASE TeamCall \/ ItemCall \/ ReportCall
  BY <1>5, <1>12 DEF TeamCall, ItemCall, ReportCall, Untouched, assetVars, Call
<1>13. CASE UNCHANGED vars
  BY <1>5, <1>13 DEF vars
<1> QED BY <1>1, <1>2, <1>3, <1>4, <1>6, <1>7, <1>8, <1>9, <1>10, <1>11, <1>12, <1>13 DEF Next

(***************************************************************************)
(* Whatever was loaded before, and whatever the files say by then, a       *)
(* profile that is hydrated shows the assets of a registry without errors  *)
(* that qualify under all of its filters, each id and kind once, in the    *)
(* order of the registry.                                                  *)
(***************************************************************************)
THEOREM ViewIsFilteredHolds == Spec => []ViewIsFiltered
<1>1. Init => AssetsInv
  <2> SUFFICES ASSUME Init PROVE AssetsInv
    OBVIOUS
  <2>1. session \in Starts /\ ws \in {session.files} \cup session.edits
    BY DEF Init
  <2>2. registry = EmptyRegistry /\ view = None
    BY DEF Init
  <2> QED BY <2>1, <2>2, EmptyIsRegistry DEF AssetsInv, ViewIsFiltered
<1>2. AssetsInv /\ [Next]_vars => AssetsInv'
  BY AssetSteps
<1>3. AssetsInv => ViewIsFiltered
  BY DEF AssetsInv
<1> QED BY <1>1, <1>2, <1>3, PTL DEF Spec
=============================================================================
