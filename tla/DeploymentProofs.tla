-------------------------- MODULE DeploymentProofs ---------------------------
(***************************************************************************)
(* Theorems about Deployment: what is proved of its parts holds in it, as  *)
(* each step of it is a step of a part or leaves it alone.                 *)
(*                                                                         *)
(* The theorems about Registry and Review are taken from RegistryProofs    *)
(* and ReviewProofs by instances of them; Schema and Authoring are proved  *)
(* about here.                                                             *)
(***************************************************************************)
EXTENDS Deployment, Sequences, TLAPS

RegP == INSTANCE RegistryProofs
DashP == INSTANCE ReviewProofs WITH Configs <- Screens

-------------------------------------------------------------------------------
(* The ontology registry. *)

\* The instance of the theorems has the operators of the instance of the model.
LEMMA GraphOperators ==
    /\ \A S : RegP!Cardinality(S) = Reg!Cardinality(S)
    /\ \A S : RegP!IsFiniteSet(S) <=> Reg!IsFiniteSet(S)
    /\ \A S : RegP!Ids(S) = Reg!Ids(S)
    /\ \A S, kind : RegP!OfKind(S, kind) = Reg!OfKind(S, kind)
    /\ \A g, id, relation : RegP!Related(g, id, relation) = Reg!Related(g, id, relation)
    /\ \A g, id, kind : RegP!Parents(g, id, kind) = Reg!Parents(g, id, kind)
    /\ \A g, id : RegP!Zones(g, id) = Reg!Zones(g, id)
    /\ \A g, id : RegP!Rooms(g, id) = Reg!Rooms(g, id)
    /\ \A g, id : RegP!Spaces(g, id) = Reg!Spaces(g, id)
    /\ \A g, id, class : RegP!PointsOf(g, id, class) = Reg!PointsOf(g, id, class)
    /\ \A c : RegP!Classes(c) = Reg!Classes(c)
    /\ \A selector, id : RegP!Selects(selector, id) <=> Reg!Selects(selector, id)
  <1>1. /\ \A S : RegP!Cardinality(S) = Reg!Cardinality(S)
        /\ \A S : RegP!IsFiniteSet(S) <=> Reg!IsFiniteSet(S)
    BY DEF Reg!Cardinality, RegP!Cardinality, Reg!IsFiniteSet, RegP!IsFiniteSet
  <1>2. /\ \A S : RegP!Ids(S) = Reg!Ids(S)
        /\ \A S, kind : RegP!OfKind(S, kind) = Reg!OfKind(S, kind)
        /\ \A g, id, relation : RegP!Related(g, id, relation) = Reg!Related(g, id, relation)
    BY DEF Reg!Ids, RegP!Ids, Reg!OfKind, RegP!OfKind, Reg!Related, RegP!Related
  <1>3. \A g, id, kind : RegP!Parents(g, id, kind) = Reg!Parents(g, id, kind)
    BY <1>2 DEF Reg!Parents, RegP!Parents
  <1>4. /\ \A g, id : RegP!Zones(g, id) = Reg!Zones(g, id)
        /\ \A g, id : RegP!Rooms(g, id) = Reg!Rooms(g, id)
        /\ \A g, id, class : RegP!PointsOf(g, id, class) = Reg!PointsOf(g, id, class)
    BY <1>2 DEF Reg!Zones, RegP!Zones, Reg!Rooms, RegP!Rooms, Reg!PointsOf, RegP!PointsOf
  <1>5. \A g, id : RegP!Spaces(g, id) = Reg!Spaces(g, id)
    BY <1>2, <1>4 DEF Reg!Spaces, RegP!Spaces
  <1>6. /\ \A c : RegP!Classes(c) = Reg!Classes(c)
        /\ \A selector, id : RegP!Selects(selector, id) <=> Reg!Selects(selector, id)
    BY DEF Reg!Classes, RegP!Classes, Reg!Selects, RegP!Selects
  <1> QED BY <1>1, <1>2, <1>3, <1>4, <1>5, <1>6

LEMMA VerdictOperators ==
    /\ \A g, target, id : RegP!Paths(g, target, id) = Reg!Paths(g, target, id)
    /\ \A g, c, id : RegP!Missing(g, c, id) = Reg!Missing(g, c, id)
    /\ \A g, c, id : RegP!Verdict(g, c, id) = Reg!Verdict(g, c, id)
  <1>1. \A g, target, zone :
          RegP!SpaceInScope(g, target, zone) <=> Reg!SpaceInScope(g, target, zone)
    BY GraphOperators DEF Reg!SpaceInScope, RegP!SpaceInScope
  <1>2. \A g, target, id : RegP!Paths(g, target, id) = Reg!Paths(g, target, id)
    BY <1>1, GraphOperators DEF Reg!Paths, RegP!Paths
  <1>3. /\ \A g, c, id : RegP!Missing(g, c, id) = Reg!Missing(g, c, id)
        /\ \A g, c, id : RegP!UnitMismatch(g, c, id) <=> Reg!UnitMismatch(g, c, id)
    BY GraphOperators DEF Reg!Missing, RegP!Missing, Reg!UnitMismatch, RegP!UnitMismatch
  <1>4. \A g, c, id : RegP!Verdict(g, c, id) = Reg!Verdict(g, c, id)
    BY <1>2, <1>3, GraphOperators DEF Reg!Verdict, RegP!Verdict
  <1> QED BY <1>2, <1>3, <1>4

LEMMA PreviewOperators ==
    /\ \A g, c : RegP!Preview(g, c) = Reg!Preview(g, c)
    /\ \A g, c : RegP!Valid(g, c) <=> Reg!Valid(g, c)
    /\ \A g : RegP!Loaded(g) = Reg!Loaded(g)
  <1>1. ASSUME NEW g, NEW c, NEW id PROVE RegP!Match(g, c, id) = Reg!Match(g, c, id)
    <2> DEFINE owner(ways) == (CHOOSE p \in ways : TRUE).building.id
               match(ways) ==
                  [equipment |-> id,
                   paths |-> {<<p.building.id, p.floor.id, p.zone.id,
                                RegP!Ids(RegP!Rooms(g, p.zone.id))>> : p \in ways},
                   points |-> [class \in RegP!Classes(c) |->
                                  RegP!Ids(RegP!PointsOf(g, id, class))],
                   override |-> IF owner(ways) \in DOMAIN c.overrides
                                THEN c.overrides[owner(ways)] ELSE None,
                   affected |-> RegP!Spaces(g, id)]
               paths == Reg!Paths(g, c.target, id)
               override == IF owner(paths) \in DOMAIN c.overrides
                           THEN c.overrides[owner(paths)] ELSE None
    <2>1. RegP!Match(g, c, id) = match(RegP!Paths(g, c.target, id))
      BY DEF RegP!Match
    <2> HIDE DEF match
    <2>2. RegP!Match(g, c, id) = match(paths)
      BY <2>1, VerdictOperators
    <2> HIDE DEF paths
    <2>3. {<<p.building.id, p.floor.id, p.zone.id, RegP!Ids(RegP!Rooms(g, p.zone.id))>> :
              p \in paths}
            = {<<p.building.id, p.floor.id, p.zone.id, Reg!Ids(Reg!Rooms(g, p.zone.id))>> :
                  p \in paths}
      BY GraphOperators
    <2>4. [class \in RegP!Classes(c) |-> RegP!Ids(RegP!PointsOf(g, id, class))]
            = [class \in Reg!Classes(c) |-> Reg!Ids(Reg!PointsOf(g, id, class))]
      BY GraphOperators
    <2>5. RegP!Spaces(g, id) = Reg!Spaces(g, id)
      BY GraphOperators
    <2>6. Reg!Match(g, c, id) =
            [equipment |-> id,
             paths |-> {<<p.building.id, p.floor.id, p.zone.id,
                          Reg!Ids(Reg!Rooms(g, p.zone.id))>> : p \in paths},
             points |-> [class \in Reg!Classes(c) |-> Reg!Ids(Reg!PointsOf(g, id, class))],
             override |-> override,
             affected |-> Reg!Spaces(g, id)]
      BY DEF Reg!Match, paths
    <2>7. match(paths) =
            [equipment |-> id,
             paths |-> {<<p.building.id, p.floor.id, p.zone.id,
                          RegP!Ids(RegP!Rooms(g, p.zone.id))>> : p \in paths},
             points |-> [class \in RegP!Classes(c) |-> RegP!Ids(RegP!PointsOf(g, id, class))],
             override |-> override,
             affected |-> RegP!Spaces(g, id)]
      BY DEF match
    <2> HIDE DEF override
    <2> QED BY <2>2, <2>3, <2>4, <2>5, <2>6, <2>7
  <1>2. ASSUME NEW g, NEW c PROVE RegP!Preview(g, c) = Reg!Preview(g, c)
    <2> DEFINE candidates == Reg!Ids(Reg!OfKind(g.entities, c.target.equipmentType))
               verdict == [eq \in candidates |-> Reg!Verdict(g, c, eq)]
               matched == {eq \in candidates : verdict[eq] = "match"}
               out(eq, missing) == <<eq, verdict[eq], IF verdict[eq] = "points"
                                                      THEN missing ELSE {}>>
    <2>1. RegP!Ids(RegP!OfKind(g.entities, c.target.equipmentType)) = candidates
      BY GraphOperators
    <2> HIDE DEF candidates
    <2>2. [eq \in candidates |-> RegP!Verdict(g, c, eq)] = verdict
      BY VerdictOperators
    <2> HIDE DEF verdict
    <2>3. RegP!Preview(g, c) =
            [matches |-> {RegP!Match(g, c, eq) : eq \in matched},
             exclusions |-> {out(eq, RegP!Missing(g, c, eq)) : eq \in candidates \ matched}]
      BY <2>1, <2>2, Zenon DEF RegP!Preview
    <2>4. Reg!Preview(g, c) =
            [matches |-> {Reg!Match(g, c, eq) : eq \in matched},
             exclusions |-> {out(eq, Reg!Missing(g, c, eq)) : eq \in candidates \ matched}]
      BY DEF Reg!Preview, candidates, verdict
    <2> HIDE DEF matched, out
    <2>5. {RegP!Match(g, c, eq) : eq \in matched} = {Reg!Match(g, c, eq) : eq \in matched}
      BY <1>1
    <2>6. {out(eq, RegP!Missing(g, c, eq)) : eq \in candidates \ matched}
            = {out(eq, Reg!Missing(g, c, eq)) : eq \in candidates \ matched}
      BY VerdictOperators
    <2> QED BY <2>3, <2>4, <2>5, <2>6
  <1>3. \A g, c : RegP!Valid(g, c) <=> Reg!Valid(g, c)
    BY GraphOperators DEF Reg!Valid, RegP!Valid
  <1>4. \A g : RegP!Loaded(g) = Reg!Loaded(g)
    BY DEF Reg!Loaded, RegP!Loaded
  <1> QED BY <1>2, <1>3, <1>4

LEMMA ImportOperators ==
    /\ \A r : RegP!Inventory(r) = Reg!Inventory(r)
    /\ \A payload : RegP!Accepted(payload) <=> Reg!Accepted(payload)
    /\ \A payload : RegP!Grown(payload) = Reg!Grown(payload)
  <1>1. \A source, relation, target :
          RegP!Relation(source, relation, target) = Reg!Relation(source, relation, target)
    BY DEF Reg!Relation, RegP!Relation
  <1>2. \A r : RegP!Inventory(r) = Reg!Inventory(r)
    BY <1>1 DEF Reg!Inventory, RegP!Inventory
  <1>3. \A payload : RegP!Accepted(payload) <=> Reg!Accepted(payload)
    BY GraphOperators DEF Reg!Accepted, RegP!Accepted, Reg!Unchanged, RegP!Unchanged,
                          Reg!Relations, RegP!Relations
  <1>4. \A payload : RegP!Grown(payload) = Reg!Grown(payload)
    BY DEF Reg!Grown, RegP!Grown
  <1> QED BY <1>2, <1>3, <1>4

LEMMA RegistryAssumptions ==
    RegP!WellFormedPayloads /\ RegP!WellFormedRegisters /\ RegP!WellFormedConfigs
  <1>1. RegP!WellFormedPayloads
    BY PayloadsAssumption, GraphOperators DEF Reg!WellFormedPayloads, RegP!WellFormedPayloads
  <1>2. RegP!WellFormedRegisters
    BY RegistersAssumption, GraphOperators
       DEF Reg!WellFormedRegisters, RegP!WellFormedRegisters, Reg!Identified, RegP!Identified
  <1>3. RegP!WellFormedConfigs
    BY ConfigsAssumption
       DEF Reg!WellFormedConfigs, RegP!WellFormedConfigs, Reg!Selectors, RegP!Selectors
  <1> QED BY <1>1, <1>2, <1>3

LEMMA RegistrySteps == Reg!Next => RegP!Next
  <1>1. \A payload : Reg!Import(payload) => RegP!Import(payload)
    BY ImportOperators DEF Reg!Import, RegP!Import
  <1>2. \A why : Reg!Read(why) => RegP!Read(why)
    BY DEF Reg!Read, RegP!Read
  <1>3. Reg!Review => RegP!Review
    BY PreviewOperators DEF Reg!Review, RegP!Review
  <1>4. Reg!Activate => RegP!Activate
    BY PreviewOperators DEF Reg!Activate, RegP!Activate, Reg!Confirmed, RegP!Confirmed
  <1> QED BY <1>1, <1>2, <1>3, <1>4, ImportOperators DEF Reg!Next, RegP!Next

\* The registry in the deployment is the registry: whatever the other parts do
\* leaves it alone.
LEMMA RegistryPart == Spec => RegP!Spec
  <1>1. Init => RegP!Init
    BY DEF Init, Reg!Init, RegP!Init
  <1>2. ASSUME [Next]_vars PROVE [RegP!Next]_(RegP!vars)
    <2>1. CASE UNCHANGED registry
      BY <2>1 DEF registry, RegP!vars
    <2>2. UNCHANGED registry \/ Reg!Next
      BY <1>2 DEF Next, vars, Setup, Start, Inventory, Author, Screen
    <2> QED BY <2>1, <2>2, RegistrySteps
  <1> QED BY <1>1, <1>2, PTL DEF Spec, RegP!Spec

\* Lifted from the registry: what holds in every state of it.
LEMMA RegistryHolds ==
    Spec => [](/\ RegP!InventoryInOrder /\ RegP!PackImports
               /\ RegP!TornReadHarmless /\ RegP!NarrowingOnlyDisambiguates)
  <1>1. RegP!Spec => []RegP!InventoryInOrder
    BY RegistryAssumptions, RegP!InventoryStaysInOrder
  <1>2. RegP!Spec => []RegP!PackImports
    BY RegistryAssumptions, RegP!PacksAlwaysImport
  <1>3. RegP!Spec => []RegP!TornReadHarmless
    BY RegistryAssumptions, RegP!TornReadsHarmless
  <1>4. RegP!Spec => []RegP!NarrowingOnlyDisambiguates
    BY RegistryAssumptions, RegP!NarrowingDisambiguates
  <1> QED BY <1>1, <1>2, <1>3, <1>4, RegistryPart, PTL

LEMMA RegistryProperties ==
    (/\ RegP!InventoryInOrder /\ RegP!PackImports
     /\ RegP!TornReadHarmless /\ RegP!NarrowingOnlyDisambiguates) => RegistrySound
  <1>1. RegP!InventoryInOrder => Reg!InventoryInOrder
    BY GraphOperators DEF Reg!InventoryInOrder, RegP!InventoryInOrder
  <1>2. RegP!PackImports => Reg!PackImports
    BY ImportOperators DEF Reg!PackImports, RegP!PackImports
  <1>3. RegP!TornReadHarmless => Reg!TornReadHarmless
    BY GraphOperators, PreviewOperators DEF Reg!TornReadHarmless, RegP!TornReadHarmless,
                                            Reg!OnlyAttached, RegP!OnlyAttached
  <1>4. \A g, c : RegP!Verdicts(g, c) = Reg!Verdicts(g, c)
    BY GraphOperators, VerdictOperators DEF Reg!Verdicts, RegP!Verdicts
  <1>5. \A narrow, c : RegP!Narrows(narrow, c) <=> Reg!Narrows(narrow, c)
    BY DEF Reg!Narrows, RegP!Narrows, Reg!Selectors, RegP!Selectors
  <1>6. RegP!NarrowingOnlyDisambiguates => Reg!NarrowingOnlyDisambiguates
    BY <1>4, <1>5, VerdictOperators
       DEF Reg!NarrowingOnlyDisambiguates, RegP!NarrowingOnlyDisambiguates
  <1> QED BY <1>1, <1>2, <1>3, <1>6 DEF RegistrySound

\* RegistrySound, for any inventories, files, packs and configurations: the
\* inventory stays in order, a pack can be imported again, a reader sees nothing
\* of equipment that is attached between its queries, and a selector that is
\* filled in adds nothing (seed.py:79-114; persistence/ontology.py:7-8;
\* ontology.py:53-146).
THEOREM RegistryIsSound == Spec => []RegistrySound
  BY RegistryHolds, RegistryProperties, PTL

\* GrowthOnlyAmbiguates, for any imports: they never take equipment that a rule
\* targets out of its scope (ontology.py:53-141).
THEOREM DeployedGrowthAmbiguates == Spec => GrowthOnlyAmbiguates
  <1> DEFINE Before == \A c \in Configs : \A eq \in DOMAIN RegP!Verdicts(graph, c) :
                          RegP!Verdict(graph, c, eq) = "match" =>
                              RegP!Verdict(graph', c, eq) \in {"match", "points", "ownership"}
             After == \A c \in Configs : \A eq \in DOMAIN Reg!Verdicts(graph, c) :
                          Reg!Verdict(graph, c, eq) = "match" =>
                              Reg!Verdict(graph', c, eq) \in {"match", "points", "ownership"}
  <1>1. Spec => [][Before]_graph
    <2>1. RegP!Spec => RegP!GrowthOnlyAmbiguates
      BY RegistryAssumptions, RegP!GrowthAmbiguates
    <2> QED BY <2>1, RegistryPart, PTL DEF RegP!GrowthOnlyAmbiguates
  <1>2. [Before]_graph => [After]_graph
    <2>1. \A g, c : RegP!Verdicts(g, c) = Reg!Verdicts(g, c)
      BY GraphOperators, VerdictOperators DEF Reg!Verdicts, RegP!Verdicts
    <2> QED BY <2>1, VerdictOperators
  <1> QED BY <1>1, <1>2, PTL DEF GrowthOnlyAmbiguates, Reg!GrowthOnlyAmbiguates

\* ActivatedWhole, for any imports and configurations: a version enters service
\* with what was reviewed, and that holds, but for the lack of points, in the
\* inventory as it was when its activation began (rules.py:68-77).
THEOREM DeployedActivationWhole == Spec => ActivatedWhole
  <1> DEFINE Before == status' # status => active' = shown /\ RegP!Holds(shown, reader)
             After == status' # status => active' = shown /\ Reg!Holds(shown, reader)
  <1>1. Spec => [][Before]_(RegP!vars)
    <2>1. RegP!Spec => RegP!ActivatedWhole
      BY RegistryAssumptions, RegP!ActivationIsWhole
    <2> QED BY <2>1, RegistryPart, PTL DEF RegP!ActivatedWhole
  <1>2. [Before]_(RegP!vars) => [After]_(Reg!vars)
    <2>1. \A p, g : RegP!Holds(p, g) <=> Reg!Holds(p, g)
      BY PreviewOperators DEF Reg!Holds, RegP!Holds
    <2> QED BY <2>1 DEF Reg!vars, RegP!vars
  <1> QED BY <1>1, <1>2, PTL DEF ActivatedWhole, Reg!ActivatedWhole

-------------------------------------------------------------------------------
(* The dashboard. *)

LEMMA DashboardPerson == Dash!Person => DashP!Person
  <1>1. /\ \A v, c : Dash!OpenRule(v, c) <=> DashP!OpenRule(v, c)
        /\ \A v : Dash!Open(v) => DashP!Open(v)
        /\ Dash!ReviewDraft => DashP!ReviewDraft
    BY DEF Dash!OpenRule, DashP!OpenRule, Dash!Open, DashP!Open,
           Dash!ReviewDraft, DashP!ReviewDraft
  <1>2. /\ (Dash!Shown <=> DashP!Shown) /\ Dash!Rule = DashP!Rule
        /\ (Dash!busy <=> DashP!busy)
    BY DEF Dash!Shown, DashP!Shown, Dash!Rule, DashP!Rule, Dash!busy, DashP!busy
  <1>3. Dash!Reviewing <=> DashP!Reviewing
    BY <1>2 DEF Dash!Reviewing, DashP!Reviewing
  <1>4. /\ \A c : Dash!Edit(c) => DashP!Edit(c)
        /\ Dash!Tick => DashP!Tick
    BY <1>2, <1>3 DEF Dash!Edit, DashP!Edit, Dash!Tick, DashP!Tick
  <1>5. \A kind : Dash!Click(kind) => DashP!Click(kind)
    BY <1>2, <1>3 DEF Dash!Click, DashP!Click, Dash!CanActivate, DashP!CanActivate,
                      Dash!screen, DashP!screen
  <1> QED BY <1>1, <1>4, <1>5 DEF Dash!Person, DashP!Person, Dash!Kinds, DashP!Kinds

LEMMA DashboardSteps == Dash!Next => DashP!Next
  <1>1. \A x : Dash!Answer(x) <=> DashP!Answer(x)
    BY DEF Dash!Answer, DashP!Answer
  <1>2. /\ \A v, c : Dash!With(v, c) = DashP!With(v, c)
        /\ \A c : Dash!Draft(c) = DashP!Draft(c)
        /\ \A v, c : Dash!MayActivate(v, c) <=> DashP!MayActivate(v, c)
    BY DEF Dash!With, DashP!With, Dash!Draft, DashP!Draft, Dash!MayActivate, DashP!MayActivate
  <1>3. Dash!Serve => DashP!Serve
    BY <1>1, <1>2 DEF Dash!Serve, DashP!Serve, Dash!screen, DashP!screen
  <1>4. /\ Dash!Lose => DashP!Lose
        /\ Dash!Refused => DashP!Refused
        /\ \A v : Dash!Elsewhere(v) => DashP!Elsewhere(v)
    BY <1>1 DEF Dash!Lose, DashP!Lose, Dash!Refused, DashP!Refused, Dash!Elsewhere,
                DashP!Elsewhere, Dash!screen, DashP!screen
  <1>5. Dash!Respond => DashP!Respond
    BY DEF Dash!Respond, DashP!Respond, Dash!Arrived, DashP!Arrived, Dash!OpenRule,
           DashP!OpenRule, Dash!Begun, DashP!Begun, Dash!screen, DashP!screen
  <1>6. /\ Dash!Poll => DashP!Poll
        /\ \A r : /\ Dash!Read(r) => DashP!Read(r)
                  /\ Dash!Load(r) => DashP!Load(r)
                  /\ Dash!Fail(r) => DashP!Fail(r)
    BY DEF Dash!Poll, DashP!Poll, Dash!Read, DashP!Read, Dash!Load, DashP!Load, Dash!Fail,
           DashP!Fail, Dash!Settle, DashP!Settle, Dash!Begun, DashP!Begun, Dash!screen, DashP!screen
  <1> QED BY <1>3, <1>4, <1>5, <1>6, DashboardPerson DEF Dash!Next, DashP!Next

\* The dashboard in the deployment is the dashboard: whatever the other parts do
\* leaves it alone.
LEMMA DashboardPart == Spec => DashP!Spec
  <1>1. Init => DashP!Init
    BY DEF Init, Dash!Init, DashP!Init, Dash!Draft, DashP!Draft
  <1>2. ASSUME [Next]_vars PROVE [DashP!Next]_(DashP!vars)
    <2>1. CASE UNCHANGED dashboard
      BY <2>1 DEF dashboard, DashP!vars, DashP!screen
    <2>2. UNCHANGED dashboard \/ Dash!Next
      BY <1>2 DEF Next, vars, Setup, Start, Inventory, Author, Screen
    <2> QED BY <2>1, <2>2, DashboardSteps
  <1> QED BY <1>1, <1>2, PTL DEF Spec, DashP!Spec

\* ActivatedAsReviewed, for any versions, configurations and calls: what the
\* dashboard puts in service is what was on the screen when the reviewer ticked the
\* box (RuleDetail.tsx:84-89, :185-218; rules.py:76; docs/afdd.md:13).
THEOREM DeployedActivationReviewed == Spec => ActivatedAsReviewed
  <1> DEFINE Reviewed == \A v \in DOMAIN versions :
                 versions[v].status = "DRAFT" /\ versions'[v].status = "ACTIVE" /\ op' # op =>
                     op.seen = [ticked |-> <<v, versions[v].config>>,
                                editor |-> versions[v].config]
  <1>1. DashP!Spec => [][Reviewed]_(DashP!vars)
    BY DashP!ActivationReviewed DEF DashP!ActivatedAsReviewed
  <1>2. [Reviewed]_(DashP!vars) => [Reviewed]_(Dash!vars)
    BY DEF Dash!vars, DashP!vars, Dash!screen, DashP!screen
  <1> QED BY <1>1, <1>2, DashboardPart, PTL DEF ActivatedAsReviewed, Dash!ActivatedAsReviewed

\* SnapshotForward, for any of them: the workspace never goes back to an older
\* state of a version (useWorkspaceData.ts:41-95).
THEOREM DeployedSnapshotForward == Spec => SnapshotForward
  <1> DEFINE Forward(pairs) == \A v \in DOMAIN snapshot :
          /\ v \in DOMAIN snapshot'
          /\ snapshot'[v].status # snapshot[v].status =>
                 <<snapshot[v].status, snapshot'[v].status>> \in pairs
  <1>1. DashP!Spec => [][Forward(DashP!Forward)]_(DashP!vars)
    BY DashP!WorkspaceForward DEF DashP!SnapshotForward
  <1>2. [Forward(DashP!Forward)]_(DashP!vars) => [Forward(Dash!Forward)]_(Dash!vars)
    BY DEF Dash!vars, DashP!vars, Dash!screen, DashP!screen, Dash!Forward, DashP!Forward
  <1> QED BY <1>1, <1>2, DashboardPart, PTL DEF SnapshotForward, Dash!SnapshotForward

-------------------------------------------------------------------------------
(* The schema. *)

\* A record of a store.
IsStore(s) ==
    /\ s = [tables |-> s.tables, indexes |-> s.indexes, versioned |-> s.versioned,
            revision |-> s.revision, repeated |-> s.repeated]
    /\ s.tables \in {"none", "some", "all"}
    /\ s.versioned \in BOOLEAN /\ s.repeated \in BOOLEAN
    /\ s.revision \in 0 .. 3

\* The indexes of a database without a recorded revision are those of a revision,
\* but for one that may lack.
Recognisable(s) ==
    \E n \in 1 .. 3 :
        \/ s.indexes = Db!Required[n] /\ (n = 3 => ~s.repeated)
        \/ \E i \in Db!Required[n] : s.indexes = Db!Required[n] \ {i}

SchemaInv ==
    /\ IsStore(store)
    /\ store.tables = "none" => store.indexes = {} /\ store.revision = 0 /\ ~store.repeated
    /\ store.revision > 0 =>
          store.tables = "all" /\ store.versioned /\ store.indexes = Db!Required[store.revision]
    /\ store.revision = 3 => ~store.repeated
    /\ store.revision = 0 /\ store.tables = "all" => Recognisable(store)

\* No revision has all the indexes of another one.
LEMMA RequiredApart ==
    \A m, n \in 1 .. 3 : Db!Required[m] \subseteq Db!Required[n] => m = n
  <1>1. /\ "outbox_done" \in Db!Required[1]
        /\ "outbox_done" \notin Db!Required[2] /\ "outbox_done" \notin Db!Required[3]
    BY DEF Db!Required, Db!Baseline, Db!V2, Db!HeadIndexes
  <1>2. /\ "edges_source" \notin Db!Required[1]
        /\ "edges_source" \in Db!Required[2] /\ "edges_source" \in Db!Required[3]
    BY DEF Db!Required, Db!Baseline, Db!V2, Db!HeadIndexes
  <1>3. /\ "point_time" \in Db!Required[2] /\ "point_time" \notin Db!Required[3]
        /\ "unique_point_time" \notin Db!Required[2] /\ "unique_point_time" \in Db!Required[3]
    BY DEF Db!Required, Db!Baseline, Db!V2, Db!HeadIndexes
  <1> QED BY <1>1, <1>2, <1>3

\* What is recognised is what the database is at (schema.py:50-80).
LEMMA DetectedIsAt ==
    ASSUME SchemaInv, NEW n \in Db!Detected(store)
    PROVE  /\ n \in 1 .. 3 /\ store.revision = 0 /\ store.tables = "all"
           /\ store.indexes = Db!Required[n]
           /\ n = 3 => ~store.repeated
  <1>1. /\ n \in 1 .. 3 /\ store.tables = "all" /\ ~store.versioned
        /\ Db!Required[n] \subseteq store.indexes
    BY DEF Db!Detected, Db!Revisions, Db!Required
  <1>2. store.revision = 0
    BY <1>1 DEF SchemaInv, IsStore
  <1>3. PICK m \in 1 .. 3 :
           \/ store.indexes = Db!Required[m] /\ (m = 3 => ~store.repeated)
           \/ \E i \in Db!Required[m] : store.indexes = Db!Required[m] \ {i}
    BY <1>1, <1>2 DEF SchemaInv, Recognisable
  <1>4. m = n
    BY <1>1, <1>3, RequiredApart
  <1> QED BY <1>1, <1>2, <1>3, <1>4

LEMMA StampOK ==
    ASSUME SchemaInv, Db!Detected(store) # {}, store' = Db!Stamp(store)
    PROVE  SchemaInv'
  <1>1. PICK n \in Db!Detected(store) : TRUE
    OBVIOUS
  <1>2. \A m \in Db!Detected(store) : m = n
    BY DetectedIsAt, RequiredApart
  <1>3. n \in 1 .. 3 /\ store.tables = "all" /\ store.indexes = Db!Required[n]
        /\ (n = 3 => ~store.repeated)
    BY <1>1, DetectedIsAt
  <1>4. (CHOOSE k \in Db!Detected(store) : \A m \in Db!Detected(store) : m <= k) = n
    <2> DEFINE Highest(k) == \A m \in Db!Detected(store) : m <= k
    <2>1. Highest(n)
      BY <1>2, <1>3
    <2>2. \A k \in Db!Detected(store) : Highest(k) => k = n
      BY <1>2
    <2> HIDE DEF Highest
    <2>3. (CHOOSE k \in Db!Detected(store) : Highest(k)) = n
      BY <1>1, <2>1, <2>2, Zenon
    <2> QED BY <2>3 DEF Highest
  <1>5. store' = [store EXCEPT !.versioned = TRUE, !.revision = n]
    BY <1>4 DEF Db!Stamp
  <1>6. store' = [tables |-> "all", indexes |-> Db!Required[n], versioned |-> TRUE,
                  revision |-> n, repeated |-> store.repeated]
    BY <1>3, <1>5 DEF SchemaInv, IsStore
  <1> QED BY <1>3, <1>6 DEF SchemaInv, IsStore

\* The way up is what its equation says.
LEMMA WayUp ==
    ASSUME NEW s, s.revision \in 0 .. 3
    PROVE  \A n \in 0 .. 3 : Db!Way(s)[n] =
               IF n <= s.revision THEN s ELSE Db!Up(Db!Way(s)[n - 1], n)
  <1> DEFINE step(f, n) == IF n <= s.revision THEN s ELSE Db!Up(f[n - 1], n)
             one == IF 1 <= s.revision THEN s ELSE Db!Up(s, 1)
             two == IF 2 <= s.revision THEN s ELSE Db!Up(one, 2)
             three == IF 3 <= s.revision THEN s ELSE Db!Up(two, 3)
             way == [n \in 0 .. 3 |-> CASE n = 0 -> s [] n = 1 -> one
                                        [] n = 2 -> two [] n = 3 -> three]
  <1>1. way[0] = s /\ way[1] = one /\ way[2] = two /\ way[3] = three
    OBVIOUS
  <1>2. way = [n \in 0 .. 3 |-> way[n]]
    OBVIOUS
  <1> HIDE DEF way
  <1>3. \A n \in 0 .. 3 : way[n] = step(way, n)
    <2>1. way[0] = step(way, 0)
      BY <1>1
    <2>2. way[1] = step(way, 1) /\ way[2] = step(way, 2) /\ way[3] = step(way, 3)
      BY <1>1
    <2> QED BY <2>1, <2>2
  <1>4. way = [n \in 0 .. 3 |-> step(way, n)]
    BY <1>2, <1>3
  <1>5. Db!Way(s) = CHOOSE f : f = [n \in 0 .. 3 |-> step(f, n)]
    BY DEF Db!Way, Db!Head
  <1>6. Db!Way(s) = [n \in 0 .. 3 |-> step(Db!Way(s), n)]
    BY <1>4, <1>5, Zenon
  <1> QED BY <1>6

\* A migration leads from the indexes of one revision to those of the next
\* (migrations/versions).
LEMMA UpIs ==
    ASSUME NEW s, IsStore(s), NEW n \in 1 .. 3,
           s.indexes = IF n = 1 THEN {} ELSE Db!Required[n - 1]
    PROVE  Db!Up(s, n) = [tables |-> "all", indexes |-> Db!Required[n], versioned |-> TRUE,
                          revision |-> n, repeated |-> s.repeated]
  <1>1. (s.indexes \ Db!Drops[n]) \cup Db!Creates[n] = Db!Required[n]
    BY DEF Db!Drops, Db!Creates, Db!Required, Db!Baseline, Db!V2, Db!HeadIndexes
  <1>2. Db!Up(s, n) = [s EXCEPT !.tables = "all", !.versioned = TRUE, !.revision = n,
                                !.indexes = (s.indexes \ Db!Drops[n]) \cup Db!Creates[n]]
    BY DEF Db!Up, IsStore
  <1> QED BY <1>1, <1>2 DEF IsStore

\* On the way up a database has been at all revisions from the one it is at.
LEMMA WayIs ==
    ASSUME NEW s, IsStore(s), NEW n \in s.revision + 1 .. 3,
           s.indexes = IF s.revision = 0 THEN {} ELSE Db!Required[s.revision]
    PROVE  Db!Way(s)[n] = [tables |-> "all", indexes |-> Db!Required[n], versioned |-> TRUE,
                           revision |-> n, repeated |-> s.repeated]
  <1> DEFINE at(k) == [tables |-> "all", indexes |-> Db!Required[k], versioned |-> TRUE,
                       revision |-> k, repeated |-> s.repeated]
  <1>1. s.revision \in 0 .. 3
    BY DEF IsStore
  <1>2. ASSUME NEW k \in 1 .. 3 PROVE IsStore(at(k)) /\ at(k).indexes = Db!Required[k]
                                      /\ at(k).repeated = s.repeated
    BY DEF IsStore
  <1>3. Db!Way(s)[s.revision] = s
    BY <1>1, WayUp
  <1>4. ASSUME NEW k \in 1 .. 3, k > s.revision PROVE Db!Way(s)[k] = Db!Up(Db!Way(s)[k - 1], k)
    BY <1>1, <1>4, WayUp
  <1>5. ASSUME NEW k \in 1 .. 3, k = s.revision + 1 PROVE Db!Way(s)[k] = at(k)
    <2>1. s.indexes = IF k = 1 THEN {} ELSE Db!Required[k - 1]
      BY <1>5, <1>1
    <2>2. Db!Way(s)[k] = Db!Up(s, k)
      BY <1>5, <1>1, <1>3, <1>4
    <2> QED BY <2>1, <2>2, UpIs
  <1>6. ASSUME NEW k \in 2 .. 3, Db!Way(s)[k - 1] = at(k - 1), k > s.revision
        PROVE  Db!Way(s)[k] = at(k)
    <2> HIDE DEF at
    <2>1. /\ IsStore(at(k - 1)) /\ at(k - 1).repeated = s.repeated
          /\ at(k - 1).indexes = IF k = 1 THEN {} ELSE Db!Required[k - 1]
      <3>1. k - 1 \in 1 .. 3 /\ k # 1
        OBVIOUS
      <3> QED BY <1>2, <3>1
    <2>2. Db!Way(s)[k] = Db!Up(at(k - 1), k)
      BY <1>4, <1>6
    <2>3. Db!Up(at(k - 1), k) = [tables |-> "all", indexes |-> Db!Required[k], versioned |-> TRUE,
                                 revision |-> k, repeated |-> s.repeated]
      <3>1. k \in 1 .. 3
        OBVIOUS
      <3> QED BY <2>1, <3>1, UpIs
    <2> QED BY <2>2, <2>3 DEF at
  <1> HIDE DEF at
  <1>7. Db!Way(s)[n] = at(n)
    BY <1>1, <1>5, <1>6
  <1> QED BY <1>7 DEF at

\* What is at a revision, or empty, can go up unless its history repeats a time;
\* and nothing else goes up (migrations/versions/0003).
LEMMA PossibleIs ==
    ASSUME SchemaInv
    PROVE  /\ Db!CanUpgrade(store) => store.revision > 0 \/ store.tables = "none"
           /\ store.revision < 3 /\ Db!CanUpgrade(store) => ~store.repeated
           /\ store.revision > 0 /\ ~store.repeated => Db!CanUpgrade(store)
  <1>1. IsStore(store) /\ store.revision \in 0 .. 3
    BY DEF SchemaInv, IsStore
  <1>2. Db!Way(store)[store.revision] = store
    BY <1>1, WayUp
  <1>3. ASSUME Db!CanUpgrade(store), store.revision = 0 PROVE store.tables = "none"
    <2>1. Db!Possible(Db!Way(store)[0], 1)
      BY <1>3 DEF Db!CanUpgrade, Db!Head
    <2> QED BY <1>2, <1>3, <2>1 DEF Db!Possible
  <1>4. ASSUME NEW n \in store.revision + 1 .. 3, store.revision > 0 \/ store.tables = "none"
        PROVE  /\ Db!Way(store)[n - 1].repeated = store.repeated
               /\ store.revision > 0 => Db!Way(store)[n - 1].indexes = Db!Required[n - 1]
    <2>1. store.indexes = IF store.revision = 0 THEN {} ELSE Db!Required[store.revision]
      BY <1>1, <1>4 DEF SchemaInv
    <2>2. CASE n = store.revision + 1
      BY <1>1, <1>2, <2>1, <2>2
    <2>3. CASE n - 1 \in store.revision + 1 .. 3
      <3>1. PICK m \in store.revision + 1 .. 3 : m = n - 1
        BY <2>3
      <3>2. Db!Way(store)[m] = [tables |-> "all", indexes |-> Db!Required[m], versioned |-> TRUE,
                                revision |-> m, repeated |-> store.repeated]
        BY <1>1, <2>1, WayIs
      <3> QED BY <3>1, <3>2
    <2> QED BY <1>1, <2>2, <2>3
  <1>5. ASSUME Db!CanUpgrade(store), store.revision < 3 PROVE ~store.repeated
    <2>1. Db!Possible(Db!Way(store)[2], 3)
      BY <1>1, <1>5 DEF Db!CanUpgrade, Db!Head
    <2>2. ~Db!Way(store)[2].repeated
      BY <2>1 DEF Db!Possible, Db!Creates
    <2>3. store.revision > 0 \/ store.tables = "none"
      BY <1>1, <1>3, <1>5
    <2> QED BY <1>1, <1>4, <1>5, <2>2, <2>3
  <1>6. ASSUME store.revision > 0, ~store.repeated PROVE Db!CanUpgrade(store)
    <2> SUFFICES ASSUME NEW n \in store.revision + 1 .. 3
                 PROVE  Db!Possible(Db!Way(store)[n - 1], n)
      BY DEF Db!CanUpgrade, Db!Head
    <2>1. /\ Db!Way(store)[n - 1].indexes = Db!Required[n - 1]
          /\ ~Db!Way(store)[n - 1].repeated
      BY <1>4, <1>6
    <2>2. n \in 2 .. 3
      BY <1>1, <1>6
    <2>3. Db!Drops[n] \subseteq Db!Required[n - 1] /\ Db!Creates[n] \cap Db!Required[n - 1] = {}
      BY <2>2 DEF Db!Drops, Db!Creates, Db!Required, Db!Baseline, Db!V2, Db!HeadIndexes
    <2> QED BY <2>1, <2>2, <2>3 DEF Db!Possible
  <1> QED BY <1>1, <1>3, <1>5, <1>6

LEMMA RunOK ==
    ASSUME SchemaInv, Db!CanUpgrade(store), store' = Db!Way(store)[3]
    PROVE  SchemaInv'
  <1>1. IsStore(store) /\ store.revision \in 0 .. 3
    BY DEF SchemaInv, IsStore
  <1>2. CASE store.revision = 3
    <2>1. store' = store
      BY <1>1, <1>2, WayUp
    <2> QED BY <2>1 DEF SchemaInv, Recognisable
  <1>3. CASE store.revision < 3
    <2>1. store.indexes = IF store.revision = 0 THEN {} ELSE Db!Required[store.revision]
      BY <1>1, PossibleIs DEF SchemaInv
    <2>2. 3 \in store.revision + 1 .. 3
      BY <1>1, <1>3
    <2>3. store' = [tables |-> "all", indexes |-> Db!Required[3], versioned |-> TRUE,
                    revision |-> 3, repeated |-> store.repeated]
      BY <1>1, <2>1, <2>2, WayIs
    <2>4. ~store.repeated
      BY <1>3, PossibleIs
    <2> QED BY <2>3, <2>4 DEF SchemaInv, IsStore
  <1> QED BY <1>1, <1>2, <1>3

LEMMA SchemaStep ==
    ASSUME SchemaInv, Db!Next
    PROVE  SchemaInv'
  <1>1. CASE UNCHANGED store
    BY <1>1 DEF SchemaInv, Recognisable
  <1>2. CASE Db!Migrate
    BY <1>1, <1>2, StampOK DEF Db!Migrate
  <1>3. CASE Db!Run
    BY <1>1, <1>3, RunOK DEF Db!Run, Db!Head
  <1>4. CASE Db!Reset
    <2>1. CASE store.revision = 0
      <3>1. store' = [tables |-> store.tables, indexes |-> store.indexes, versioned |-> TRUE,
                      revision |-> 0, repeated |-> store.repeated]
        BY <1>4, <2>1 DEF Db!Reset, SchemaInv, IsStore
      <3> QED BY <2>1, <3>1 DEF SchemaInv, IsStore, Recognisable
    <2>2. CASE store.revision # 0
      <3>1. store' = [tables |-> "none", indexes |-> {}, versioned |-> TRUE, revision |-> 0,
                      repeated |-> FALSE]
        BY <1>4, <2>2 DEF Db!Reset, Db!Empty
      <3> QED BY <3>1 DEF SchemaInv, IsStore
    <2> QED BY <2>1, <2>2
  <1>5. CASE Db!Repair
    <2>1. store' = [tables |-> store.tables, indexes |-> store.indexes,
                    versioned |-> store.versioned, revision |-> store.revision,
                    repeated |-> FALSE]
      BY <1>5 DEF Db!Repair, SchemaInv, IsStore
    <2> QED BY <2>1 DEF SchemaInv, IsStore, Recognisable
  <1>6. CASE Db!Crash
    BY <1>1, <1>6 DEF Db!Crash
  <1> QED BY <1>2, <1>3, <1>4, <1>5, <1>6 DEF Db!Next

LEMMA SchemaStart == Db!Init => SchemaInv
  <1> SUFFICES ASSUME Db!Init PROVE SchemaInv
    OBVIOUS
  <1> DEFINE at(tables, indexes, repeated) ==
                 [tables |-> tables, indexes |-> indexes, versioned |-> FALSE,
                  revision |-> 0, repeated |-> repeated]
  <1>1. CASE store \in {Db!Empty, [Db!Empty EXCEPT !.tables = "some"]}
    <2>1. store = at("none", {}, FALSE) \/ store = at("some", {}, FALSE)
      BY <1>1 DEF Db!Empty
    <2>2. CASE store = at("none", {}, FALSE)
      BY <2>2 DEF SchemaInv, IsStore
    <2>3. CASE store = at("some", {}, FALSE)
      BY <2>3 DEF SchemaInv, IsStore
    <2> QED BY <2>1, <2>2, <2>3
  <1>2. ASSUME NEW n, NEW b
        PROVE  Db!Unversioned(n, b) = at("all", Db!Required[n], b /\ n < 3)
    <2> DEFINE repeated == b /\ n < 3
    <2>1. Db!Unversioned(n, b) = [Db!Empty EXCEPT !.tables = "all", !.indexes = Db!Required[n],
                                                  !.repeated = repeated]
      BY DEF Db!Unversioned, Db!Head
    <2> HIDE DEF repeated
    <2>2. Db!Unversioned(n, b) = at("all", Db!Required[n], repeated)
      BY <2>1 DEF Db!Empty
    <2> QED BY <2>2 DEF repeated
  <1>3. ASSUME NEW n \in 1 .. 3, NEW b \in BOOLEAN, store = Db!Unversioned(n, b)
        PROVE  SchemaInv
    <2> DEFINE repeated == b /\ n < 3
    <2>1. repeated \in BOOLEAN /\ (n = 3 => ~repeated)
      OBVIOUS
    <2> HIDE DEF repeated
    <2>2. store = at("all", Db!Required[n], repeated)
      BY <1>2, <1>3 DEF repeated
    <2> QED BY <2>1, <2>2 DEF SchemaInv, IsStore, Recognisable
  <1>4. ASSUME NEW n \in 1 .. 3, NEW index, store = Db!Damaged(n, index)
        PROVE  SchemaInv
    <2>1. Db!Unversioned(n, FALSE) = at("all", Db!Required[n], FALSE)
      BY <1>2
    <2>2. store = at("all", Db!Required[n] \ {index}, FALSE)
      <3> DEFINE whole == at("all", Db!Required[n], FALSE)
      <3>1. Db!Unversioned(n, FALSE) = whole
        BY <2>1
      <3>2. Db!Damaged(n, index) = [whole EXCEPT !.indexes = @ \ {index}]
        <4> HIDE DEF whole
        <4> QED BY <3>1 DEF Db!Damaged
      <3> QED BY <1>4, <3>2
    <2>3. CASE index \in Db!Required[n]
      BY <2>2, <2>3 DEF SchemaInv, IsStore, Recognisable
    <2>4. CASE index \notin Db!Required[n]
      <3>1. Db!Required[n] \ {index} = Db!Required[n]
        BY <2>4
      <3> QED BY <2>2, <3>1 DEF SchemaInv, IsStore, Recognisable
    <2> QED BY <2>3, <2>4
  <1>5. Db!Revisions = 1 .. 3
    BY DEF Db!Revisions, Db!Required
  <1> QED BY <1>1, <1>3, <1>4, <1>5 DEF Db!Init

\* SchemaSound, for any commands, crashes and databases to begin with: a recorded
\* revision means the schema of that revision, and what was stamped can be
\* migrated (schema.py:50-121; docs/architecture.md:66).
THEOREM SchemaIsSound == Spec => []SchemaSound
  <1>1. Init => SchemaInv
    BY SchemaStart DEF Init
  <1>2. ASSUME SchemaInv, [Next]_vars PROVE SchemaInv'
    <2>1. CASE UNCHANGED store
      BY <1>2, <2>1 DEF SchemaInv, Recognisable
    <2>2. UNCHANGED store \/ Db!Next
      BY <1>2 DEF Next, vars, schema, Setup, Start, Inventory, Author, Screen
    <2> QED BY <1>2, <2>1, <2>2, SchemaStep
  <1>3. SchemaInv => SchemaSound
    <2>1. SchemaInv => Db!RevisionTruthful
      BY DEF SchemaInv, IsStore, Db!RevisionTruthful, Db!Head
    <2> QED BY <2>1, PossibleIs DEF SchemaSound, Db!StampedIsUpgradable
  <1> QED BY <1>1, <1>2, <1>3, PTL DEF Spec

-------------------------------------------------------------------------------
(* Rule authoring. *)

\* The last m traces are the first m pieces of evidence of attempt k, the ones
\* before are not of it but for the discovery, and none is of a later one.
Written(traces, k, m) ==
    /\ Len(traces) >= m
    /\ \A i \in 1 .. m : traces[Len(traces) - m + i] = [tool |-> Auth!Evidence[i], attempt |-> k]
    /\ \A i \in 1 .. Len(traces) - m : traces[i].attempt = k => traces[i].tool = "discover"
    /\ \A i \in 1 .. Len(traces) : traces[i].attempt \in 0 .. k

IsRecord(row) ==
    /\ row = [state |-> row.state, draft |-> row.draft, traces |-> row.traces]
    /\ row.traces \in Seq([tool : Auth!Tools, attempt : 0 .. 1])

AuthType ==
    /\ stored = [r \in Requests |-> stored[r]]
    /\ record = [r \in Requests |-> record[r]]
    /\ pc = [r \in Requests |-> pc[r]]
    /\ drafts \in [Auth!Drafts -> {None, "DRAFT", "ACTIVE"}]
    /\ attempt \in [Requests -> 0 .. 1]
    /\ errors \in [Requests -> BOOLEAN]
    /\ result \in [Requests -> [0 .. 1 -> Auth!Results \cup {None}]]
    /\ fed \in [Requests -> [0 .. 1 -> BOOLEAN]]
    /\ \A r \in Requests : IsRecord(record[r]) /\ (stored[r] # None => IsRecord(stored[r]))

\* The state stands for the result of the last attempt.
Explained(state, r) ==
    /\ state \in DOMAIN Auth!Reasons
    /\ result[r][attempt[r]] \in Auth!Reasons[state]
    /\ result[r][attempt[r]] \in Auth!Retryable => attempt[r] = 1

\* How far the request is, and what its record has by then.
Progress(r) ==
    /\ pc[r] \in {"idle", "discover"} =>
          /\ Written(record[r].traces, 0, 0)
          /\ attempt[r] = 0 /\ result[r][0] = None
    /\ pc[r] = "call" =>
          /\ Written(record[r].traces, attempt[r], 0)
          /\ result[r][attempt[r]] = None
          /\ attempt[r] = 1 => (errors[r] <=> result[r][0] = "invalid")
    /\ pc[r] = "check" =>
          Written(record[r].traces, attempt[r], 1) /\ result[r][attempt[r]] = "draft"
    /\ pc[r] = "preview" =>
          /\ Written(record[r].traces, attempt[r], 2)
          /\ result[r][attempt[r]] \in {"draft", "noMatch"}
    /\ pc[r] = "exclusions" =>
          /\ Written(record[r].traces, attempt[r], 3)
          /\ result[r][attempt[r]] \in {"draft", "noMatch"}
    /\ pc[r] = "create" =>
          Written(record[r].traces, attempt[r], 4) /\ result[r][attempt[r]] = "draft"
    /\ pc[r] = "finish" => Explained(record[r].state, r)
    /\ pc[r] = "done" => Explained(stored[r].state, r)

\* A second attempt has a reason, and the errors of the first.
Retried(r) ==
    /\ ~fed[r][0]
    /\ attempt[r] = 0 => result[r][1] = None /\ ~errors[r]
    /\ attempt[r] = 1 => result[r][0] \in Auth!Retryable \cup {"invalid"}
    /\ result[r][1] # None => (fed[r][1] <=> result[r][0] = "invalid")

\* A version, the record that names it and the row that does.
Drafted(r) ==
    /\ \A k \in 0 .. 1 : drafts[<<r, k>>] # None =>
          /\ k = attempt[r] /\ result[r][k] = "drafted" /\ record[r].draft = <<r, k>>
    /\ record[r].draft # None =>
          /\ pc[r] \in {"finish", "done", "dead"}
          /\ record[r].draft = <<r, attempt[r]>> /\ drafts[<<r, attempt[r]>>] # None
          /\ Written(record[r].traces, attempt[r], 4)
    /\ stored[r] # None /\ stored[r].draft # None =>
          /\ pc[r] = "done"
          /\ stored[r].traces = record[r].traces
    /\ pc[r] = "done" => stored[r].draft = record[r].draft

Story(r) == Progress(r) /\ Retried(r) /\ Drafted(r)

AuthInv == AuthType /\ \A r \in Requests : Story(r)

LEMMA NextEvidence ==
    ASSUME NEW traces \in Seq([tool : Auth!Tools, attempt : 0 .. 1]), NEW k \in 0 .. 1,
           NEW m \in 0 .. 3, Written(traces, k, m)
    PROVE  Written(Append(traces, [tool |-> Auth!Evidence[m + 1], attempt |-> k]), k, m + 1)
  <1> DEFINE e == [tool |-> Auth!Evidence[m + 1], attempt |-> k]
             longer == Append(traces, e)
  <1>1. /\ Len(longer) = Len(traces) + 1 /\ Len(traces) \in Nat
        /\ \A i \in 1 .. Len(traces) : longer[i] = traces[i]
        /\ longer[Len(traces) + 1] = e
    OBVIOUS
  <1>2. e.attempt = k /\ e = [tool |-> Auth!Evidence[m + 1], attempt |-> k]
    OBVIOUS
  <1> HIDE DEF longer, e
  <1>3. ASSUME NEW i \in 1 .. m + 1
        PROVE  longer[Len(longer) - (m + 1) + i] = [tool |-> Auth!Evidence[i], attempt |-> k]
    <2>1. CASE i = m + 1
      BY <1>1, <1>2, <2>1
    <2>2. CASE i \in 1 .. m
      <3>1. Len(longer) - (m + 1) + i = Len(traces) - m + i
        BY <1>1
      <3>2. Len(traces) - m + i \in 1 .. Len(traces)
        BY <1>1, <2>2 DEF Written
      <3> QED BY <1>1, <2>2, <3>1, <3>2 DEF Written
    <2> QED BY <2>1, <2>2
  <1>4. \A i \in 1 .. Len(longer) - (m + 1) :
           longer[i].attempt = k => longer[i].tool = "discover"
    BY <1>1 DEF Written
  <1>5. \A i \in 1 .. Len(longer) : longer[i].attempt \in 0 .. k
    BY <1>1, <1>2 DEF Written
  <1>6. Len(longer) >= m + 1
    BY <1>1 DEF Written
  <1> QED BY <1>3, <1>4, <1>5, <1>6 DEF Written, longer, e

\* Whatever is written in the first attempt is not of the second.
LEMMA SecondAttempt ==
    ASSUME NEW traces \in Seq([tool : Auth!Tools, attempt : 0 .. 1]), NEW m \in 0 .. 4,
           Written(traces, 0, m), NEW tool
    PROVE  Written(Append(traces, [tool |-> tool, attempt |-> 0]), 1, 0)
  <1> DEFINE e == [tool |-> tool, attempt |-> 0]
             longer == Append(traces, e)
  <1>1. /\ Len(longer) = Len(traces) + 1 /\ Len(traces) \in Nat
        /\ \A i \in 1 .. Len(traces) : longer[i] = traces[i]
        /\ longer[Len(traces) + 1] = e /\ e.attempt = 0
    OBVIOUS
  <1> HIDE DEF longer, e
  <1>2. \A i \in 1 .. Len(longer) : longer[i].attempt = 0
    BY <1>1 DEF Written
  <1> QED BY <1>1, <1>2 DEF Written, longer, e

LEMMA Discovered ==
    ASSUME NEW traces \in Seq([tool : Auth!Tools, attempt : 0 .. 1]), Written(traces, 0, 0)
    PROVE  Written(Append(traces, [tool |-> "discover", attempt |-> 0]), 0, 0)
  <1> DEFINE e == [tool |-> "discover", attempt |-> 0]
             longer == Append(traces, e)
  <1>1. /\ Len(longer) = Len(traces) + 1 /\ Len(traces) \in Nat
        /\ \A i \in 1 .. Len(traces) : longer[i] = traces[i]
        /\ longer[Len(traces) + 1] = e /\ e.attempt = 0 /\ e.tool = "discover"
    OBVIOUS
  <1> HIDE DEF longer, e
  <1> QED BY <1>1 DEF Written, longer, e

\* The state an outcome ends in stands for it (ai.py:135-194).
LEMMA EndingExplains ==
    \A outcome \in Auth!Retryable \cup Auth!Raised
                   \cup {"badConfig", "clarify", "unsupported", "invalid"} :
        /\ Auth!Ending(outcome) \in DOMAIN Auth!Reasons
        /\ outcome \in Auth!Reasons[Auth!Ending(outcome)]
  BY DEF Auth!Retryable, Auth!Raised, Auth!Ending, Auth!Reasons

\* A step of request r leaves the others alone.
Kept(r) ==
    \A q \in Requests \ {r} :
        /\ pc'[q] = pc[q] /\ record'[q] = record[q] /\ stored'[q] = stored[q]
        /\ attempt'[q] = attempt[q] /\ errors'[q] = errors[q]
        /\ result'[q] = result[q] /\ fed'[q] = fed[q]
        /\ \A k \in 0 .. 1 : drafts'[<<q, k>>] = drafts[<<q, k>>]

LEMMA StoryKept ==
    ASSUME AuthInv, NEW r \in Requests, AuthType', Kept(r), Story(r)'
    PROVE  AuthInv'
  <1>1. ASSUME NEW q \in Requests \ {r} PROVE Story(q)'
    <2>1. Story(q)
      BY DEF AuthInv
    <2>2. /\ pc'[q] = pc[q] /\ record'[q] = record[q] /\ stored'[q] = stored[q]
          /\ attempt'[q] = attempt[q] /\ errors'[q] = errors[q]
          /\ result'[q] = result[q] /\ fed'[q] = fed[q]
          /\ \A k \in 0 .. 1 : drafts'[<<q, k>>] = drafts[<<q, k>>]
      BY DEF Kept
    <2>3. attempt[q] \in 0 .. 1
      BY DEF AuthInv, AuthType
    <2>4. Progress(q)'
      BY <2>1, <2>2 DEF Story, Progress, Explained
    <2>5. Retried(q)'
      BY <2>1, <2>2 DEF Story, Retried
    <2>6. Drafted(q)'
      BY <2>1, <2>2, <2>3 DEF Story, Drafted
    <2> QED BY <2>4, <2>5, <2>6 DEF Story
  <1> QED BY <1>1 DEF AuthInv

\* What a persisted trace leaves (ai.py:104-130).
TraceLeft(r, next, tool, number) ==
    /\ record' = [q \in Requests |-> record'[q]]
    /\ stored' = [q \in Requests |-> stored'[q]]
    /\ \A q \in Requests \ {r} : record'[q] = record[q] /\ stored'[q] = stored[q]
    /\ IsRecord(record'[r]) /\ IsRecord(stored'[r])
    /\ record'[r].state = next
    /\ record'[r].draft = record[r].draft /\ stored'[r].draft = record[r].draft
    /\ record'[r].traces = Append(record[r].traces, [tool |-> tool, attempt |-> number])

LEMMA TraceDoes ==
    ASSUME AuthType, NEW r \in Requests, NEW now, NEW next, NEW tool \in Auth!Tools,
           NEW number \in 0 .. 1, Auth!Persist(r, Auth!Traced(r, now, tool, number), next)
    PROVE  TraceLeft(r, next, tool, number)
  <1> DEFINE e == [tool |-> tool, attempt |-> number]
             longer == Append(record[r].traces, e)
             row == Auth!Traced(r, now, tool, number)
  <1>1. record[r] = [state |-> record[r].state, draft |-> record[r].draft,
                     traces |-> record[r].traces]
        /\ record[r].traces \in Seq([tool : Auth!Tools, attempt : 0 .. 1])
    BY DEF AuthType, IsRecord
  <1>2. row = [[record[r] EXCEPT !.state = now] EXCEPT !.traces = longer]
    BY <1>1 DEF Auth!Traced
  <1>3. longer \in Seq([tool : Auth!Tools, attempt : 0 .. 1])
    BY <1>1
  <1> HIDE DEF row, longer
  <1>4. row = [state |-> now, draft |-> record[r].draft, traces |-> longer]
    BY <1>1, <1>2
  <1>5. /\ stored' = [stored EXCEPT ![r] = row]
        /\ record' = [record EXCEPT ![r] = [row EXCEPT !.state = next]]
    BY DEF Auth!Persist, row
  <1>6. stored'[r] = row /\ record'[r] = [row EXCEPT !.state = next]
    BY <1>5 DEF AuthType
  <1>7. record'[r] = [state |-> next, draft |-> record[r].draft, traces |-> longer]
    BY <1>4, <1>6
  <1>8. /\ record' = [q \in Requests |-> record'[q]]
        /\ stored' = [q \in Requests |-> stored'[q]]
        /\ \A q \in Requests \ {r} : record'[q] = record[q] /\ stored'[q] = stored[q]
    BY <1>5 DEF AuthType
  <1>9. IsRecord(record'[r])
    BY <1>3, <1>7 DEF IsRecord
  <1>10. stored'[r] = [state |-> now, draft |-> record[r].draft, traces |-> longer]
    BY <1>4, <1>6
  <1>11. IsRecord(stored'[r])
    BY <1>3, <1>10 DEF IsRecord
  <1>12. /\ record'[r].state = next /\ record'[r].traces = longer
         /\ record'[r].draft = record[r].draft
    BY <1>7
  <1>13. stored'[r].draft = record[r].draft
    BY <1>10
  <1> QED BY <1>8, <1>9, <1>11, <1>12, <1>13 DEF longer, TraceLeft

LEMMA CameDoes ==
    ASSUME AuthType, NEW r \in Requests, NEW what \in Auth!Results, Auth!Came(r, what)
    PROVE  /\ result' \in [Requests -> [0 .. 1 -> Auth!Results \cup {None}]]
           /\ \A q \in Requests \ {r} : result'[q] = result[q]
           /\ result'[r][attempt[r]] = what
           /\ \A k \in 0 .. 1 : k # attempt[r] => result'[r][k] = result[r][k]
  BY DEF AuthType, Auth!Came

LEMMA GotoDoes ==
    ASSUME AuthType, NEW r \in Requests, NEW place, Auth!Goto(r, place)
    PROVE  /\ pc' = [q \in Requests |-> pc'[q]] /\ pc'[r] = place
           /\ \A q \in Requests \ {r} : pc'[q] = pc[q]
  BY DEF AuthType, Auth!Goto

LEMMA StopDoes ==
    ASSUME AuthType, NEW r \in Requests, NEW state, Auth!Stop(r, state)
    PROVE  /\ record' = [q \in Requests |-> record'[q]]
           /\ \A q \in Requests \ {r} : record'[q] = record[q]
           /\ IsRecord(record'[r]) /\ record'[r].state = state
           /\ record'[r].draft = record[r].draft /\ record'[r].traces = record[r].traces
           /\ stored' = stored /\ Auth!Goto(r, "finish")
  <1>1. record' = [record EXCEPT ![r] = [record[r] EXCEPT !.state = state]]
    BY DEF Auth!Stop
  <1>2. record'[r] = [state |-> state, draft |-> record[r].draft, traces |-> record[r].traces]
    BY <1>1 DEF AuthType, IsRecord
  <1> QED BY <1>1, <1>2 DEF AuthType, IsRecord, Auth!Stop

LEMMA AuthReceive ==
    ASSUME AuthInv, NEW r \in Requests, Auth!Receive(r)
    PROVE  AuthInv'
  <1> DEFINE first == [state |-> "RECEIVED", draft |-> None, traces |-> <<>>]
             second == [state |-> "DISCOVERING", draft |-> None, traces |-> <<>>]
  <1>1. /\ pc[r] = "idle" /\ Auth!Goto(r, "discover")
        /\ UNCHANGED <<drafts, attempt, errors, result, fed>>
    BY DEF Auth!Receive
  <1>2. AuthType
    BY DEF AuthInv
  <1>3. /\ pc' = [q \in Requests |-> pc'[q]] /\ pc'[r] = "discover"
        /\ \A q \in Requests \ {r} : pc'[q] = pc[q]
    BY <1>1, <1>2, GotoDoes
  <1>4. Auth!New = first
    BY DEF Auth!New
  <1>5. [Auth!New EXCEPT !.state = "DISCOVERING"] = second
    BY <1>4
  <1>6. /\ stored' = [stored EXCEPT ![r] = Auth!New]
        /\ record' = [record EXCEPT ![r] = [Auth!New EXCEPT !.state = "DISCOVERING"]]
    BY DEF Auth!Receive, Auth!Persist
  <1>7. Written(<<>>, 0, 0)
    BY DEF Written
  <1>8. <<>> \in Seq([tool : Auth!Tools, attempt : 0 .. 1])
    OBVIOUS
  <1>9. IsRecord(first) /\ IsRecord(second)
    BY <1>8 DEF IsRecord
  <1>10. /\ first.draft = None /\ second.draft = None /\ second.traces = <<>>
    OBVIOUS
  <1> HIDE DEF first, second
  <1>11. stored' = [stored EXCEPT ![r] = first] /\ record' = [record EXCEPT ![r] = second]
    BY <1>4, <1>5, <1>6
  <1>12. /\ stored' = [q \in Requests |-> stored'[q]]
         /\ record' = [q \in Requests |-> record'[q]]
         /\ stored'[r] = first /\ record'[r] = second
         /\ \A q \in Requests \ {r} : record'[q] = record[q] /\ stored'[q] = stored[q]
    BY <1>2, <1>11 DEF AuthType
  <1>13. AuthType'
    <2>1. \A q \in Requests : IsRecord(record[q]) /\ (stored[q] # None => IsRecord(stored[q]))
      BY <1>2 DEF AuthType
    <2>2. \A q \in Requests :
             IsRecord(record'[q]) /\ (stored'[q] # None => IsRecord(stored'[q]))
      BY <1>9, <1>12, <2>1
    <2> QED BY <1>1, <1>2, <1>3, <1>12, <2>2 DEF AuthType
  <1>14. Kept(r)
    BY <1>1, <1>3, <1>12 DEF Kept
  <1>15. Progress(r) /\ Retried(r) /\ Drafted(r)
    BY DEF AuthInv, Story
  <1>16. Story(r)'
    <2>1. Progress(r)' /\ Retried(r)'
      BY <1>1, <1>3, <1>7, <1>10, <1>12, <1>15 DEF Progress, Retried
    <2>2. record[r].draft = None
      BY <1>1, <1>15 DEF Drafted
    <2>3. ASSUME NEW k \in 0 .. 1 PROVE drafts[<<r, k>>] = None
      <3>1. drafts[<<r, k>>] # None => None = <<r, k>>
        BY <1>15, <2>2 DEF Drafted
      <3>2. <<r, k>> \in Auth!Drafts
        BY DEF Auth!Drafts, Auth!Attempts
      <3> QED BY <3>1, <3>2, NoneAssumption
    <2>4. Drafted(r)'
      BY <1>1, <1>3, <1>10, <1>12, <2>3 DEF Drafted
    <2> QED BY <2>1, <2>4 DEF Story
  <1> QED BY <1>13, <1>14, <1>16, StoryKept

LEMMA LiveUndrafted ==
    ASSUME AuthInv, NEW r \in Requests, pc[r] \notin {"finish", "done", "dead"}
    PROVE  /\ record[r].draft = None
           /\ \A k \in 0 .. 1 : drafts[<<r, k>>] = None
           /\ stored[r] # None => stored[r].draft = None
  <1>1. Drafted(r)
    BY DEF AuthInv, Story
  <1>2. record[r].draft = None
    BY <1>1 DEF Drafted
  <1>3. ASSUME NEW k \in 0 .. 1 PROVE drafts[<<r, k>>] = None
    <2>1. drafts[<<r, k>>] # None => None = <<r, k>>
      BY <1>1, <1>2 DEF Drafted
    <2>2. <<r, k>> \in Auth!Drafts
      BY DEF Auth!Drafts, Auth!Attempts
    <2> QED BY <2>1, <2>2, NoneAssumption
  <1> QED BY <1>1, <1>2, <1>3 DEF Drafted

\* What a step counts of its request only.
Counted(r) ==
    /\ attempt' \in [Requests -> 0 .. 1]
    /\ errors' \in [Requests -> BOOLEAN]
    /\ result' \in [Requests -> [0 .. 1 -> Auth!Results \cup {None}]]
    /\ fed' \in [Requests -> [0 .. 1 -> BOOLEAN]]
    /\ \A q \in Requests \ {r} :
          /\ attempt'[q] = attempt[q] /\ errors'[q] = errors[q]
          /\ result'[q] = result[q] /\ fed'[q] = fed[q]

\* A step that ends in a trace: what is left to show of it is how far it is and
\* why there is another attempt.
StepLeft(r, place, next, tool, number) ==
    /\ AuthType' /\ Kept(r) /\ Drafted(r)'
    /\ pc'[r] = place /\ record'[r].state = next
    /\ record'[r].traces = Append(record[r].traces, [tool |-> tool, attempt |-> number])
    /\ record[r].traces \in Seq([tool : Auth!Tools, attempt : 0 .. 1])

LEMMA TraceStep ==
    ASSUME AuthInv, NEW r \in Requests, pc[r] \notin {"finish", "done", "dead"},
           NEW now, NEW next, NEW tool \in Auth!Tools, NEW number \in 0 .. 1,
           NEW place, place # "done",
           Auth!Persist(r, Auth!Traced(r, now, tool, number), next),
           Auth!Goto(r, place), drafts' = drafts, Counted(r)
    PROVE  StepLeft(r, place, next, tool, number)
  <1>1. AuthType
    BY DEF AuthInv
  <1>2. /\ record' = [q \in Requests |-> record'[q]]
        /\ stored' = [q \in Requests |-> stored'[q]]
        /\ \A q \in Requests \ {r} : record'[q] = record[q] /\ stored'[q] = stored[q]
        /\ IsRecord(record'[r]) /\ IsRecord(stored'[r])
        /\ record'[r].state = next
        /\ record'[r].draft = record[r].draft /\ stored'[r].draft = record[r].draft
        /\ record'[r].traces = Append(record[r].traces, [tool |-> tool, attempt |-> number])
    <2>1. TraceLeft(r, next, tool, number)
      BY <1>1, TraceDoes
    <2> QED BY <2>1 DEF TraceLeft
  <1>3. /\ pc' = [q \in Requests |-> pc'[q]] /\ pc'[r] = place
        /\ \A q \in Requests \ {r} : pc'[q] = pc[q]
    BY <1>1, GotoDoes
  <1>4. AuthType'
    <2>1. \A q \in Requests : IsRecord(record[q]) /\ (stored[q] # None => IsRecord(stored[q]))
      BY <1>1 DEF AuthType
    <2>2. \A q \in Requests :
             IsRecord(record'[q]) /\ (stored'[q] # None => IsRecord(stored'[q]))
      BY <1>2, <2>1
    <2>3. drafts' \in [Auth!Drafts -> {None, "DRAFT", "ACTIVE"}]
      BY <1>1 DEF AuthType
    <2> QED BY <1>2, <1>3, <2>2, <2>3 DEF AuthType, Counted
  <1>5. Kept(r)
    BY <1>2, <1>3 DEF Kept, Counted
  <1>6. record[r].draft = None /\ \A k \in 0 .. 1 : drafts[<<r, k>>] = None
    BY LiveUndrafted
  <1>7. Drafted(r)'
    BY <1>2, <1>3, <1>6 DEF Drafted
  <1>8. record[r].traces \in Seq([tool : Auth!Tools, attempt : 0 .. 1])
    BY <1>1 DEF AuthType, IsRecord
  <1> QED BY <1>2, <1>3, <1>4, <1>5, <1>7, <1>8 DEF StepLeft

\* A step that ends in a state without a trace.
LEMMA StopStep ==
    ASSUME AuthInv, NEW r \in Requests, pc[r] \notin {"finish", "done", "dead"},
           NEW state, Auth!Stop(r, state), drafts' = drafts, Counted(r)
    PROVE  /\ AuthType' /\ Kept(r) /\ Drafted(r)'
           /\ pc'[r] = "finish" /\ record'[r].state = state
  <1>1. AuthType
    BY DEF AuthInv
  <1>2. /\ record' = [q \in Requests |-> record'[q]]
        /\ \A q \in Requests \ {r} : record'[q] = record[q]
        /\ IsRecord(record'[r]) /\ record'[r].state = state
        /\ record'[r].draft = record[r].draft /\ record'[r].traces = record[r].traces
        /\ stored' = stored /\ Auth!Goto(r, "finish")
    BY <1>1, StopDoes
  <1>3. /\ pc' = [q \in Requests |-> pc'[q]] /\ pc'[r] = "finish"
        /\ \A q \in Requests \ {r} : pc'[q] = pc[q]
    BY <1>1, <1>2, GotoDoes
  <1>4. AuthType'
    <2>1. \A q \in Requests : IsRecord(record[q]) /\ (stored[q] # None => IsRecord(stored[q]))
      BY <1>1 DEF AuthType
    <2>2. \A q \in Requests :
             IsRecord(record'[q]) /\ (stored'[q] # None => IsRecord(stored'[q]))
      BY <1>2, <2>1
    <2>3. drafts' \in [Auth!Drafts -> {None, "DRAFT", "ACTIVE"}]
          /\ stored' = [q \in Requests |-> stored'[q]]
      BY <1>1, <1>2 DEF AuthType
    <2> QED BY <1>2, <1>3, <2>2, <2>3 DEF AuthType, Counted
  <1>5. Kept(r)
    BY <1>2, <1>3 DEF Kept, Counted
  <1>6. /\ record[r].draft = None /\ \A k \in 0 .. 1 : drafts[<<r, k>>] = None
        /\ stored[r] # None => stored[r].draft = None
    BY LiveUndrafted
  <1>7. Drafted(r)'
    BY <1>2, <1>3, <1>6 DEF Drafted
  <1> QED BY <1>2, <1>3, <1>4, <1>5, <1>7

LEMMA NothingCounted ==
    ASSUME AuthInv, NEW r \in Requests, UNCHANGED <<attempt, errors, result, fed>>
    PROVE  Counted(r)
  BY DEF AuthInv, AuthType, Counted

LEMMA NoneIsNoResult == None \notin Auth!Retryable \cup {"invalid", "draft", "noMatch", "drafted"}
  BY NoneAssumption DEF Auth!Results, Auth!Outcomes, Auth!Retryable

LEMMA AuthDiscover ==
    ASSUME AuthInv, NEW r \in Requests, Auth!Discover(r)
    PROVE  AuthInv'
  <1>1. pc[r] = "discover" /\ UNCHANGED <<drafts, attempt, errors, result, fed>>
    BY DEF Auth!Discover
  <1>2. Progress(r) /\ Retried(r)
    BY DEF AuthInv, Story
  <1>3. /\ Written(record[r].traces, 0, 0) /\ attempt[r] = 0 /\ result[r][0] = None
    BY <1>1, <1>2 DEF Progress
  <1>4. Counted(r)
    BY <1>1, NothingCounted
  <1>5. Retried(r)'
    BY <1>1, <1>2 DEF Retried
  <1>6. CASE Auth!Stop(r, "INVALID_TOOL_OUTPUT")
    <2>1. /\ AuthType' /\ Kept(r) /\ Drafted(r)'
          /\ pc'[r] = "finish" /\ record'[r].state = "INVALID_TOOL_OUTPUT"
      BY <1>1, <1>4, <1>6, StopStep
    <2>2. /\ "INVALID_TOOL_OUTPUT" \in DOMAIN Auth!Reasons
          /\ None \in Auth!Reasons["INVALID_TOOL_OUTPUT"]
      BY DEF Auth!Reasons
    <2>3. Progress(r)'
      BY <1>1, <1>3, <2>1, <2>2, NoneIsNoResult DEF Progress, Explained
    <2> QED BY <1>5, <2>1, <2>3, StoryKept DEF Story
  <1>7. CASE /\ Auth!Persist(r, Auth!Traced(r, "DISCOVERING", "discover", 0), "PLANNING")
             /\ Auth!Goto(r, "call")
    <2>1. "discover" \in Auth!Tools
      BY DEF Auth!Tools
    <2>2. /\ AuthType' /\ Kept(r) /\ Drafted(r)' /\ pc'[r] = "call"
          /\ record'[r].traces =
                Append(record[r].traces, [tool |-> "discover", attempt |-> 0])
          /\ record[r].traces \in Seq([tool : Auth!Tools, attempt : 0 .. 1])
      <3>1. StepLeft(r, "call", "PLANNING", "discover", 0)
        BY <1>1, <1>4, <1>7, <2>1, TraceStep
      <3> QED BY <3>1 DEF StepLeft
    <2>3. Written(record'[r].traces, 0, 0)
      BY <1>3, <2>2, Discovered
    <2>4. Progress(r)'
      BY <1>1, <1>3, <2>2, <2>3 DEF Progress
    <2> QED BY <1>5, <2>2, <2>4, StoryKept DEF Story
  <1> QED BY <1>6, <1>7 DEF Auth!Discover

\* What a call leaves of the count of its request.
CallLeft(r, outcome) ==
    /\ result'[r][attempt[r]] = outcome
    /\ \A k \in 0 .. 1 : k # attempt[r] => result'[r][k] = result[r][k]
    /\ fed'[r][attempt[r]] = errors[r]
    /\ \A k \in 0 .. 1 : k # attempt[r] => fed'[r][k] = fed[r][k]
    /\ errors' = errors

LEMMA CallCounts ==
    ASSUME AuthInv, NEW r \in Requests, NEW outcome \in Auth!Outcomes, Auth!Call(r, outcome)
    PROVE  /\ CallLeft(r, outcome)
           /\ attempt' \in [Requests -> 0 .. 1] =>
                 ((\A q \in Requests \ {r} : attempt'[q] = attempt[q]) => Counted(r))
  <1>1. /\ Auth!Came(r, outcome) /\ errors' = errors
        /\ fed' = [fed EXCEPT ![r][attempt[r]] = errors[r]]
    BY DEF Auth!Call, Auth!Given
  <1>2. AuthType /\ outcome \in Auth!Results
    BY DEF AuthInv, Auth!Results
  <1>3. /\ result' \in [Requests -> [0 .. 1 -> Auth!Results \cup {None}]]
        /\ \A q \in Requests \ {r} : result'[q] = result[q]
        /\ result'[r][attempt[r]] = outcome
        /\ \A k \in 0 .. 1 : k # attempt[r] => result'[r][k] = result[r][k]
    BY <1>1, <1>2, CameDoes
  <1>4. /\ fed \in [Requests -> [0 .. 1 -> BOOLEAN]] /\ errors \in [Requests -> BOOLEAN]
        /\ attempt[r] \in 0 .. 1
    BY <1>2 DEF AuthType
  <1>5. /\ fed' \in [Requests -> [0 .. 1 -> BOOLEAN]]
        /\ \A q \in Requests \ {r} : fed'[q] = fed[q]
        /\ fed'[r][attempt[r]] = errors[r]
        /\ \A k \in 0 .. 1 : k # attempt[r] => fed'[r][k] = fed[r][k]
    BY <1>1, <1>4
  <1> QED BY <1>1, <1>3, <1>4, <1>5 DEF CallLeft, Counted

LEMMA CallRetried ==
    ASSUME AuthInv, NEW r \in Requests, NEW outcome, CallLeft(r, outcome), pc[r] = "call",
           attempt'[r] = attempt[r] \/ (attempt'[r] = 1 /\ outcome \in Auth!Retryable)
    PROVE  Retried(r)'
  <1>1. Progress(r) /\ Retried(r) /\ attempt[r] \in 0 .. 1
    BY DEF AuthInv, AuthType, Story
  <1>2. CASE attempt[r] = 0
    BY <1>1, <1>2 DEF Retried, CallLeft
  <1>3. CASE attempt[r] = 1
    BY <1>1, <1>3 DEF Retried, CallLeft, Progress
  <1> QED BY <1>1, <1>2, <1>3

LEMMA AuthCall ==
    ASSUME AuthInv, NEW r \in Requests, NEW outcome \in Auth!Outcomes, Auth!Call(r, outcome)
    PROVE  AuthInv'
  <1>1. pc[r] = "call" /\ drafts' = drafts
    BY DEF Auth!Call
  <1>2. AuthType /\ Progress(r) /\ Retried(r) /\ attempt[r] \in 0 .. 1
    BY DEF AuthInv, AuthType, Story
  <1>3. Written(record[r].traces, attempt[r], 0) /\ result[r][attempt[r]] = None
    BY <1>1, <1>2 DEF Progress
  <1>4. CallLeft(r, outcome)
    BY CallCounts
  <1>5. "retry" \in Auth!Tools /\ "interpret" \in Auth!Tools
    BY DEF Auth!Tools
  <1>6. attempt' = attempt => Counted(r)
    BY <1>2, CallCounts DEF AuthType
  <1>7. CASE outcome \in Auth!Retryable /\ attempt[r] = 0
    <2>1. /\ Auth!Persist(r, Auth!Traced(r, "PLANNING", "retry", 0), "PLANNING")
          /\ Auth!Goto(r, "call") /\ attempt' = [attempt EXCEPT ![r] = 1]
      <3>1. /\ Auth!Persist(r, Auth!Traced(r, "PLANNING", "retry", attempt[r]),
                            IF attempt[r] = 0 THEN "PLANNING" ELSE Auth!Ending(outcome))
            /\ Auth!TryAgain(r)
        BY <1>7 DEF Auth!Call, Auth!Trace, Auth!Retryable, Auth!Raised
      <3> QED BY <1>7, <3>1 DEF Auth!TryAgain
    <2>2. /\ attempt' \in [Requests -> 0 .. 1] /\ attempt'[r] = 1
          /\ \A q \in Requests \ {r} : attempt'[q] = attempt[q]
      BY <1>2, <2>1 DEF AuthType
    <2>3. Counted(r) /\ Retried(r)'
      BY <1>1, <1>4, <1>7, <2>2, CallCounts, CallRetried
    <2>4. StepLeft(r, "call", "PLANNING", "retry", 0)
      BY <1>1, <1>5, <2>1, <2>3, TraceStep
    <2>5. Written(record'[r].traces, 1, 0)
      <3>1. 0 \in 0 .. 4 /\ Written(record[r].traces, 0, 0)
        BY <1>3, <1>7
      <3> QED BY <2>4, <3>1, SecondAttempt DEF StepLeft
    <2>6. /\ result'[r][0] = outcome /\ outcome # "invalid" /\ ~errors'[r]
          /\ result'[r][1] = None
      BY <1>2, <1>4, <1>7 DEF CallLeft, Retried, Auth!Retryable
    <2>7. Progress(r)'
      BY <2>2, <2>4, <2>5, <2>6 DEF Progress, StepLeft
    <2> QED BY <2>3, <2>4, <2>7, StoryKept DEF Story, StepLeft
  <1>8. CASE outcome \in Auth!Retryable /\ attempt[r] = 1
    <2>1. /\ Auth!Persist(r, Auth!Traced(r, "PLANNING", "retry", 1), Auth!Ending(outcome))
          /\ Auth!Goto(r, "finish") /\ attempt' = attempt
      <3>1. /\ Auth!Persist(r, Auth!Traced(r, "PLANNING", "retry", attempt[r]),
                            IF attempt[r] = 0 THEN "PLANNING" ELSE Auth!Ending(outcome))
            /\ Auth!TryAgain(r)
        BY <1>8 DEF Auth!Call, Auth!Trace, Auth!Retryable, Auth!Raised
      <3> QED BY <1>8, <3>1 DEF Auth!TryAgain
    <2>2. Counted(r) /\ Retried(r)'
      BY <1>1, <1>4, <1>6, <2>1, CallRetried
    <2>3. StepLeft(r, "finish", Auth!Ending(outcome), "retry", 1)
      BY <1>1, <1>5, <2>1, <2>2, TraceStep
    <2>4. Progress(r)'
      BY <1>4, <1>8, <2>1, <2>3, EndingExplains DEF Progress, Explained, StepLeft, CallLeft
    <2> QED BY <2>2, <2>3, <2>4, StoryKept DEF Story, StepLeft
  <1>9. CASE outcome \in Auth!Raised
    <2>1. Auth!Stop(r, Auth!Ending(outcome)) /\ attempt' = attempt
      BY <1>9 DEF Auth!Call, Auth!Raised, Auth!Retryable
    <2>2. Counted(r) /\ Retried(r)'
      BY <1>1, <1>4, <1>6, <2>1, CallRetried
    <2>3. /\ AuthType' /\ Kept(r) /\ Drafted(r)'
          /\ pc'[r] = "finish" /\ record'[r].state = Auth!Ending(outcome)
      BY <1>1, <2>1, <2>2, StopStep
    <2>4. outcome \notin Auth!Retryable
      BY <1>9 DEF Auth!Raised, Auth!Retryable
    <2>5. Progress(r)'
      BY <1>4, <1>9, <2>1, <2>3, <2>4, EndingExplains DEF Progress, Explained, CallLeft
    <2> QED BY <2>2, <2>3, <2>5, StoryKept DEF Story
  <1>10. CASE outcome \in {"badConfig", "clarify", "unsupported"}
    <2>1. /\ Auth!Persist(r, Auth!Traced(r, "PLANNING", "interpret", attempt[r]),
                          Auth!Ending(outcome))
          /\ Auth!Goto(r, "finish") /\ attempt' = attempt
      BY <1>10 DEF Auth!Call, Auth!Trace, Auth!Raised, Auth!Retryable
    <2>2. Counted(r) /\ Retried(r)'
      BY <1>1, <1>4, <1>6, <2>1, CallRetried
    <2>3. StepLeft(r, "finish", Auth!Ending(outcome), "interpret", attempt[r])
      BY <1>1, <1>2, <1>5, <2>1, <2>2, TraceStep
    <2>4. outcome \notin Auth!Retryable
      BY <1>10 DEF Auth!Retryable
    <2>5. Progress(r)'
      BY <1>4, <1>10, <2>1, <2>3, <2>4, EndingExplains
         DEF Progress, Explained, StepLeft, CallLeft
    <2> QED BY <2>2, <2>3, <2>5, StoryKept DEF Story, StepLeft
  <1>11. CASE outcome = "draft"
    <2>1. /\ Auth!Persist(r, Auth!Traced(r, "PLANNING", "interpret", attempt[r]), "VALIDATING")
          /\ Auth!Goto(r, "check") /\ attempt' = attempt
      BY <1>11 DEF Auth!Call, Auth!Trace, Auth!Raised, Auth!Retryable
    <2>2. Counted(r) /\ Retried(r)'
      BY <1>1, <1>4, <1>6, <2>1, CallRetried
    <2>3. StepLeft(r, "check", "VALIDATING", "interpret", attempt[r])
      BY <1>1, <1>2, <1>5, <2>1, <2>2, TraceStep
    <2>4. Written(record'[r].traces, attempt[r], 1)
      <3>1. Auth!Evidence[0 + 1] = "interpret" /\ 0 \in 0 .. 3
        BY DEF Auth!Evidence
      <3>2. Written(Append(record[r].traces,
                           [tool |-> Auth!Evidence[0 + 1], attempt |-> attempt[r]]),
                    attempt[r], 0 + 1)
        BY <1>2, <1>3, <2>3, <3>1, NextEvidence DEF StepLeft
      <3> QED BY <2>3, <3>1, <3>2 DEF StepLeft
    <2>5. Progress(r)'
      BY <1>4, <1>11, <2>1, <2>3, <2>4 DEF Progress, StepLeft, CallLeft
    <2> QED BY <2>2, <2>3, <2>5, StoryKept DEF Story, StepLeft
  <1> QED BY <1>2, <1>7, <1>8, <1>9, <1>10, <1>11 DEF Auth!Outcomes

\* What a check leaves of the count of its request.
LEMMA CheckCounts ==
    ASSUME AuthInv, NEW r \in Requests, NEW what \in Auth!Results, Auth!Came(r, what),
           fed' = fed, errors' \in [Requests -> BOOLEAN], attempt' \in [Requests -> 0 .. 1],
           \A q \in Requests \ {r} : attempt'[q] = attempt[q] /\ errors'[q] = errors[q]
    PROVE  /\ Counted(r) /\ result'[r][attempt[r]] = what
           /\ \A k \in 0 .. 1 : k # attempt[r] => result'[r][k] = result[r][k]
  <1>1. AuthType
    BY DEF AuthInv
  <1>2. /\ result' \in [Requests -> [0 .. 1 -> Auth!Results \cup {None}]]
        /\ \A q \in Requests \ {r} : result'[q] = result[q]
        /\ result'[r][attempt[r]] = what
        /\ \A k \in 0 .. 1 : k # attempt[r] => result'[r][k] = result[r][k]
    BY <1>1, CameDoes
  <1> QED BY <1>1, <1>2 DEF Counted, AuthType

LEMMA AuthCheck ==
    ASSUME AuthInv, NEW r \in Requests, Auth!Check(r)
    PROVE  AuthInv'
  <1>1. pc[r] = "check" /\ drafts' = drafts /\ fed' = fed
    BY DEF Auth!Check
  <1>2. AuthType /\ Progress(r) /\ Retried(r) /\ attempt[r] \in 0 .. 1
    BY DEF AuthInv, AuthType, Story
  <1>3. Written(record[r].traces, attempt[r], 1) /\ result[r][attempt[r]] = "draft"
    BY <1>1, <1>2 DEF Progress
  <1>4. "validate" \in Auth!Tools
    BY DEF Auth!Tools
  <1>5. {"invalid", "draft", "noMatch"} \subseteq Auth!Results
    BY DEF Auth!Results, Auth!Outcomes
  <1>6. attempt \in [Requests -> 0 .. 1] /\ errors \in [Requests -> BOOLEAN]
    BY <1>2 DEF AuthType
  <1>7. ASSUME Auth!Came(r, "invalid"),
               Auth!Trace(r, "VALIDATING", "validate", Auth!Ending("invalid")),
               errors' = [errors EXCEPT ![r] = TRUE], Auth!TryAgain(r)
        PROVE  AuthInv'
    <2>1. Auth!Persist(r, Auth!Traced(r, "VALIDATING", "validate", attempt[r]),
                       Auth!Ending("invalid"))
      BY <1>7 DEF Auth!Trace
    <2>2. CASE attempt[r] = 0
      <3>1. Auth!Goto(r, "call") /\ attempt' = [attempt EXCEPT ![r] = 1]
        BY <1>7, <2>2 DEF Auth!TryAgain
      <3>2. /\ attempt' \in [Requests -> 0 .. 1] /\ attempt'[r] = 1
            /\ errors' \in [Requests -> BOOLEAN] /\ errors'[r] = TRUE
            /\ \A q \in Requests \ {r} : attempt'[q] = attempt[q] /\ errors'[q] = errors[q]
        BY <1>6, <1>7, <3>1
      <3>3. Counted(r) /\ result'[r][0] = "invalid" /\ result'[r][1] = result[r][1]
        <4>1. "invalid" \in Auth!Results
          BY <1>5
        <4>2. /\ Counted(r) /\ result'[r][attempt[r]] = "invalid"
              /\ \A k \in 0 .. 1 : k # attempt[r] => result'[r][k] = result[r][k]
          BY <1>1, <1>7, <3>2, <4>1, CheckCounts
        <4> QED BY <2>2, <4>2
      <3>4. StepLeft(r, "call", Auth!Ending("invalid"), "validate", attempt[r])
        BY <1>1, <1>2, <1>4, <2>1, <3>1, <3>3, TraceStep
      <3>5. Written(record'[r].traces, 1, 0)
        <4>1. 1 \in 0 .. 4 /\ Written(record[r].traces, 0, 1)
          BY <1>3, <2>2
        <4> QED BY <2>2, <3>4, <4>1, SecondAttempt DEF StepLeft
      <3>6. result[r][1] = None
        BY <1>2, <2>2 DEF Retried
      <3>7. Retried(r)'
        BY <1>1, <1>2, <3>2, <3>3, <3>6 DEF Retried
      <3>8. Progress(r)'
        BY <3>2, <3>3, <3>4, <3>5, <3>6 DEF Progress, StepLeft
      <3> QED BY <3>4, <3>7, <3>8, StoryKept DEF Story, StepLeft
    <2>3. CASE attempt[r] = 1
      <3>1. Auth!Goto(r, "finish") /\ attempt' = attempt
        BY <1>7, <2>3 DEF Auth!TryAgain
      <3>2. /\ errors' \in [Requests -> BOOLEAN] /\ attempt' \in [Requests -> 0 .. 1]
            /\ \A q \in Requests \ {r} : attempt'[q] = attempt[q] /\ errors'[q] = errors[q]
        BY <1>6, <1>7, <3>1
      <3>3. Counted(r) /\ result'[r][1] = "invalid" /\ result'[r][0] = result[r][0]
        <4>1. "invalid" \in Auth!Results
          BY <1>5
        <4>2. /\ Counted(r) /\ result'[r][attempt[r]] = "invalid"
              /\ \A k \in 0 .. 1 : k # attempt[r] => result'[r][k] = result[r][k]
          BY <1>1, <1>7, <3>2, <4>1, CheckCounts
        <4> QED BY <2>3, <4>2
      <3>4. StepLeft(r, "finish", Auth!Ending("invalid"), "validate", attempt[r])
        BY <1>1, <1>2, <1>4, <2>1, <3>1, <3>3, TraceStep
      <3>5. Retried(r)'
        BY <1>1, <1>2, <1>3, <2>3, <3>1, <3>3, NoneIsNoResult DEF Retried
      <3>6. Progress(r)'
        BY <2>3, <3>1, <3>3, <3>4, EndingExplains DEF Progress, Explained, StepLeft
      <3> QED BY <3>4, <3>5, <3>6, StoryKept DEF Story, StepLeft
    <2> QED BY <1>2, <2>2, <2>3
  <1>8. ASSUME NEW what \in {"draft", "noMatch"}, Auth!Came(r, what),
               Auth!Trace(r, "VALIDATING", "validate", "PREVIEWING"),
               Auth!Goto(r, "preview"), UNCHANGED <<attempt, errors>>
        PROVE  AuthInv'
    <2>1. Auth!Persist(r, Auth!Traced(r, "VALIDATING", "validate", attempt[r]), "PREVIEWING")
      BY <1>8 DEF Auth!Trace
    <2>2. /\ Counted(r) /\ result'[r][attempt[r]] = what
          /\ \A k \in 0 .. 1 : k # attempt[r] => result'[r][k] = result[r][k]
      BY <1>1, <1>5, <1>6, <1>8, CheckCounts
    <2>3. StepLeft(r, "preview", "PREVIEWING", "validate", attempt[r])
      BY <1>1, <1>2, <1>4, <1>8, <2>1, <2>2, TraceStep
    <2>4. Written(record'[r].traces, attempt[r], 2)
      <3>1. Auth!Evidence[1 + 1] = "validate" /\ 1 \in 0 .. 3
        BY DEF Auth!Evidence
      <3>2. Written(Append(record[r].traces,
                           [tool |-> Auth!Evidence[1 + 1], attempt |-> attempt[r]]),
                    attempt[r], 1 + 1)
        BY <1>2, <1>3, <2>3, <3>1, NextEvidence DEF StepLeft
      <3> QED BY <2>3, <3>1, <3>2 DEF StepLeft
    <2>5. Retried(r)'
      <3>1. CASE attempt[r] = 0
        BY <1>1, <1>2, <1>8, <2>2, <3>1 DEF Retried
      <3>2. CASE attempt[r] = 1
        BY <1>1, <1>2, <1>3, <1>8, <2>2, <3>2, NoneIsNoResult DEF Retried
      <3> QED BY <1>2, <3>1, <3>2
    <2>6. Progress(r)'
      BY <1>8, <2>2, <2>3, <2>4 DEF Progress, StepLeft
    <2> QED BY <2>3, <2>5, <2>6, StoryKept DEF Story, StepLeft
  <1> QED BY <1>7, <1>8 DEF Auth!Check

LEMMA AuthPreview ==
    ASSUME AuthInv, NEW r \in Requests, Auth!Preview(r)
    PROVE  AuthInv'
  <1>1. /\ pc[r] = "preview" /\ UNCHANGED <<drafts, attempt, errors, result, fed>>
        /\ Auth!Persist(r, Auth!Traced(r, "PREVIEWING", "preview", attempt[r]), "PREVIEWING")
        /\ Auth!Goto(r, "exclusions")
    BY DEF Auth!Preview, Auth!Trace
  <1>2. Progress(r) /\ Retried(r) /\ attempt[r] \in 0 .. 1
    BY DEF AuthInv, AuthType, Story
  <1>3. /\ Written(record[r].traces, attempt[r], 2)
        /\ result[r][attempt[r]] \in {"draft", "noMatch"}
    BY <1>1, <1>2 DEF Progress
  <1>4. Counted(r)
    BY <1>1, NothingCounted
  <1>5. "preview" \in Auth!Tools
    BY DEF Auth!Tools
  <1>6. StepLeft(r, "exclusions", "PREVIEWING", "preview", attempt[r])
    BY <1>1, <1>2, <1>4, <1>5, TraceStep
  <1>7. Written(record'[r].traces, attempt[r], 3)
    <2>1. Auth!Evidence[2 + 1] = "preview" /\ 2 \in 0 .. 3
      BY DEF Auth!Evidence
    <2>2. Written(Append(record[r].traces,
                         [tool |-> Auth!Evidence[2 + 1], attempt |-> attempt[r]]),
                  attempt[r], 2 + 1)
      BY <1>2, <1>3, <1>6, <2>1, NextEvidence DEF StepLeft
    <2> QED BY <1>6, <2>1, <2>2 DEF StepLeft
  <1>8. Retried(r)'
    BY <1>1, <1>2 DEF Retried
  <1>9. Progress(r)'
    BY <1>1, <1>3, <1>6, <1>7 DEF Progress, StepLeft
  <1> QED BY <1>6, <1>8, <1>9, StoryKept DEF Story, StepLeft

LEMMA AuthExclusions ==
    ASSUME AuthInv, NEW r \in Requests, Auth!Exclusions(r)
    PROVE  AuthInv'
  <1>1. pc[r] = "exclusions" /\ UNCHANGED <<drafts, attempt, errors, result, fed>>
    BY DEF Auth!Exclusions
  <1>2. Progress(r) /\ Retried(r) /\ attempt[r] \in 0 .. 1
    BY DEF AuthInv, AuthType, Story
  <1>3. /\ Written(record[r].traces, attempt[r], 3)
        /\ result[r][attempt[r]] \in {"draft", "noMatch"}
    BY <1>1, <1>2 DEF Progress
  <1>4. Counted(r)
    BY <1>1, NothingCounted
  <1>5. "exclusions" \in Auth!Tools
    BY DEF Auth!Tools
  <1>6. Retried(r)'
    BY <1>1, <1>2 DEF Retried
  <1>7. CASE result[r][attempt[r]] = "noMatch"
    <2>1. /\ Auth!Persist(r, Auth!Traced(r, "PREVIEWING", "exclusions", attempt[r]), "NO_MATCH")
          /\ Auth!Goto(r, "finish")
      BY <1>7 DEF Auth!Exclusions, Auth!Trace
    <2>2. StepLeft(r, "finish", "NO_MATCH", "exclusions", attempt[r])
      BY <1>1, <1>2, <1>4, <1>5, <2>1, TraceStep
    <2>3. /\ "NO_MATCH" \in DOMAIN Auth!Reasons /\ "noMatch" \in Auth!Reasons["NO_MATCH"]
          /\ "noMatch" \notin Auth!Retryable
      BY DEF Auth!Reasons, Auth!Retryable
    <2>4. Progress(r)'
      BY <1>1, <1>7, <2>2, <2>3 DEF Progress, Explained, StepLeft
    <2> QED BY <1>6, <2>2, <2>4, StoryKept DEF Story, StepLeft
  <1>8. CASE result[r][attempt[r]] = "draft"
    <2>1. /\ Auth!Persist(r, Auth!Traced(r, "PREVIEWING", "exclusions", attempt[r]),
                          "PREVIEWING")
          /\ Auth!Goto(r, "create")
      BY <1>8 DEF Auth!Exclusions, Auth!Trace
    <2>2. StepLeft(r, "create", "PREVIEWING", "exclusions", attempt[r])
      BY <1>1, <1>2, <1>4, <1>5, <2>1, TraceStep
    <2>3. Written(record'[r].traces, attempt[r], 4)
      <3>1. Auth!Evidence[3 + 1] = "exclusions" /\ 3 \in 0 .. 3
        BY DEF Auth!Evidence
      <3>2. Written(Append(record[r].traces,
                           [tool |-> Auth!Evidence[3 + 1], attempt |-> attempt[r]]),
                    attempt[r], 3 + 1)
        BY <1>2, <1>3, <2>2, <3>1, NextEvidence DEF StepLeft
      <3> QED BY <2>2, <3>1, <3>2 DEF StepLeft
    <2>4. Progress(r)'
      BY <1>1, <1>8, <2>2, <2>3 DEF Progress, StepLeft
    <2> QED BY <1>6, <2>2, <2>4, StoryKept DEF Story, StepLeft
  <1> QED BY <1>3, <1>7, <1>8

LEMMA AuthCreate ==
    ASSUME AuthInv, NEW r \in Requests, Auth!Create(r)
    PROVE  AuthInv'
  <1> DEFINE a == attempt[r]
             row == [state |-> "DRAFT_READY", draft |-> <<r, a>>, traces |-> record[r].traces]
  <1>1. /\ pc[r] = "create" /\ stored' = stored /\ UNCHANGED <<attempt, errors, fed>>
        /\ drafts' = [drafts EXCEPT ![<<r, a>>] = "DRAFT"]
        /\ record' = [record EXCEPT ![r] = [[record[r] EXCEPT !.state = "DRAFT_READY"]
                                              EXCEPT !.draft = <<r, a>>]]
        /\ Auth!Came(r, "drafted") /\ Auth!Goto(r, "finish")
    BY DEF Auth!Create
  <1>2. AuthType /\ Progress(r) /\ Retried(r) /\ a \in 0 .. 1
    BY DEF AuthInv, AuthType, Story
  <1>3. Written(record[r].traces, a, 4) /\ result[r][a] = "draft"
    BY <1>1, <1>2 DEF Progress
  <1>4. "drafted" \in Auth!Results
    BY DEF Auth!Results
  <1>5. /\ Counted(r) /\ result'[r][a] = "drafted"
        /\ \A k \in 0 .. 1 : k # a => result'[r][k] = result[r][k]
    <2>1. errors' \in [Requests -> BOOLEAN] /\ attempt' \in [Requests -> 0 .. 1]
      BY <1>1, <1>2 DEF AuthType
    <2> QED BY <1>1, <1>4, <2>1, CheckCounts
  <1>6. /\ pc' = [q \in Requests |-> pc'[q]] /\ pc'[r] = "finish"
        /\ \A q \in Requests \ {r} : pc'[q] = pc[q]
    BY <1>1, <1>2, GotoDoes
  <1>7. IsRecord(record[r])
    BY <1>2 DEF AuthType
  <1>8. record' = [record EXCEPT ![r] = row]
    <2> DEFINE old == record[r]
               ready == [old EXCEPT !.state = "DRAFT_READY"]
               draft == <<r, a>>
    <2>1. old = [state |-> old.state, draft |-> old.draft, traces |-> old.traces]
      BY <1>7 DEF IsRecord
    <2> HIDE DEF draft, old
    <2>2. ready = [state |-> "DRAFT_READY", draft |-> old.draft, traces |-> old.traces]
      BY <2>1
    <2> HIDE DEF ready
    <2>3. [ready EXCEPT !.draft = draft]
             = [state |-> "DRAFT_READY", draft |-> draft, traces |-> old.traces]
      BY <2>2
    <2> QED BY <1>1, <2>3 DEF ready, old, draft
  <1>9. IsRecord(row) /\ row.state = "DRAFT_READY" /\ row.draft = <<r, a>>
        /\ row.traces = record[r].traces
    BY <1>7 DEF IsRecord
  <1> HIDE DEF row
  <1>10. /\ record' = [q \in Requests |-> record'[q]] /\ record'[r] = row
         /\ \A q \in Requests \ {r} : record'[q] = record[q]
    BY <1>2, <1>8 DEF AuthType
  <1>11. <<r, a>> \in Auth!Drafts /\ \A q \in Requests, k \in 0 .. 1 : <<q, k>> \in Auth!Drafts
    BY <1>2 DEF Auth!Drafts, Auth!Attempts
  <1>12. /\ drafts' \in [Auth!Drafts -> {None, "DRAFT", "ACTIVE"}]
         /\ drafts'[<<r, a>>] = "DRAFT"
         /\ \A q \in Requests, k \in 0 .. 1 :
               <<q, k>> # <<r, a>> => drafts'[<<q, k>>] = drafts[<<q, k>>]
    BY <1>1, <1>2, <1>11 DEF AuthType
  <1>13. AuthType'
    <2>1. \A q \in Requests : IsRecord(record[q]) /\ (stored[q] # None => IsRecord(stored[q]))
      BY <1>2 DEF AuthType
    <2>2. \A q \in Requests :
             IsRecord(record'[q]) /\ (stored'[q] # None => IsRecord(stored'[q]))
      BY <1>1, <1>9, <1>10, <2>1
    <2>3. stored' = [q \in Requests |-> stored'[q]]
      BY <1>1, <1>2 DEF AuthType
    <2> QED BY <1>5, <1>6, <1>10, <1>12, <2>2, <2>3 DEF AuthType, Counted
  <1>14. Kept(r)
    <2>1. \A q \in Requests \ {r} : \A k \in 0 .. 1 : drafts'[<<q, k>>] = drafts[<<q, k>>]
      BY <1>12
    <2> QED BY <1>1, <1>5, <1>6, <1>10, <2>1 DEF Kept, Counted
  <1>15. /\ \A k \in 0 .. 1 : drafts[<<r, k>>] = None
         /\ stored[r] # None => stored[r].draft = None
    BY <1>1, LiveUndrafted
  <1>16. Drafted(r)'
    <2>1. "DRAFT" # None
      BY NoneAssumption
    <2>2. \A k \in 0 .. 1 : drafts'[<<r, k>>] # None => k = a
      BY <1>12, <1>15
    <2>3. Written(record'[r].traces, attempt'[r], 4)
      BY <1>1, <1>3, <1>9, <1>10
    <2> QED BY <1>1, <1>5, <1>6, <1>9, <1>10, <1>12, <1>15, <2>1, <2>2, <2>3 DEF Drafted
  <1>17. Retried(r)'
    <2>1. CASE a = 0
      BY <1>1, <1>2, <1>5, <2>1 DEF Retried
    <2>2. CASE a = 1
      BY <1>1, <1>2, <1>3, <1>5, <2>2, NoneIsNoResult DEF Retried
    <2> QED BY <1>2, <2>1, <2>2
  <1>18. Progress(r)'
    <2>1. /\ "DRAFT_READY" \in DOMAIN Auth!Reasons /\ "drafted" \in Auth!Reasons["DRAFT_READY"]
          /\ "drafted" \notin Auth!Retryable
      BY DEF Auth!Reasons, Auth!Retryable
    <2> QED BY <1>1, <1>5, <1>6, <1>9, <1>10, <2>1 DEF Progress, Explained
  <1> QED BY <1>13, <1>14, <1>16, <1>17, <1>18, StoryKept DEF Story

LEMMA AuthFinish ==
    ASSUME AuthInv, NEW r \in Requests, Auth!Finish(r)
    PROVE  AuthInv'
  <1>1. /\ pc[r] = "finish" /\ UNCHANGED <<drafts, attempt, errors, result, fed>>
        /\ stored' = [stored EXCEPT ![r] = record[r]]
        /\ record' = [record EXCEPT ![r] = [record[r] EXCEPT !.state = record[r].state]]
        /\ Auth!Goto(r, "done")
    BY DEF Auth!Finish, Auth!Persist
  <1>2. AuthType /\ Progress(r) /\ Retried(r) /\ Drafted(r)
    BY DEF AuthInv, Story
  <1>3. /\ pc' = [q \in Requests |-> pc'[q]] /\ pc'[r] = "done"
        /\ \A q \in Requests \ {r} : pc'[q] = pc[q]
    BY <1>1, <1>2, GotoDoes
  <1>4. IsRecord(record[r])
    BY <1>2 DEF AuthType
  <1>5. [record[r] EXCEPT !.state = record[r].state] = record[r]
    BY <1>4 DEF IsRecord
  <1>6. /\ record' = record /\ stored' = [q \in Requests |-> stored'[q]]
        /\ stored'[r] = record[r] /\ \A q \in Requests \ {r} : stored'[q] = stored[q]
    BY <1>1, <1>2, <1>5 DEF AuthType
  <1>7. AuthType'
    <2>1. \A q \in Requests : IsRecord(record[q]) /\ (stored[q] # None => IsRecord(stored[q]))
      BY <1>2 DEF AuthType
    <2>2. \A q \in Requests :
             IsRecord(record'[q]) /\ (stored'[q] # None => IsRecord(stored'[q]))
      BY <1>6, <2>1
    <2>3. record' = [q \in Requests |-> record'[q]]
      BY <1>2, <1>6 DEF AuthType
    <2> QED BY <1>1, <1>2, <1>3, <1>6, <2>2, <2>3 DEF AuthType
  <1>8. Kept(r)
    BY <1>1, <1>3, <1>6 DEF Kept
  <1>9. Retried(r)'
    BY <1>1, <1>2 DEF Retried
  <1>10. Progress(r)'
    BY <1>1, <1>2, <1>3, <1>6 DEF Progress, Explained
  <1>11. Drafted(r)'
    BY <1>1, <1>2, <1>3, <1>6 DEF Drafted
  <1> QED BY <1>7, <1>8, <1>9, <1>10, <1>11, StoryKept DEF Story

LEMMA AuthActivate ==
    ASSUME AuthInv, NEW draft \in Auth!Drafts, Auth!Activate(draft)
    PROVE  AuthInv'
  <1>1. /\ drafts[draft] = "DRAFT" /\ drafts' = [drafts EXCEPT ![draft] = "ACTIVE"]
        /\ stored' = [r \in Requests |->
                        IF stored[r] # None /\ stored[r].draft = draft
                        THEN [stored[r] EXCEPT !.state = "ACTIVATED"] ELSE stored[r]]
        /\ UNCHANGED <<record, pc, attempt, errors, result, fed>>
    BY DEF Auth!Activate
  <1>2. AuthType
    BY DEF AuthInv
  <1>3. /\ drafts' \in [Auth!Drafts -> {None, "DRAFT", "ACTIVE"}]
        /\ \A d \in Auth!Drafts : drafts'[d] # None <=> drafts[d] # None
    <2>1. "DRAFT" # None /\ "ACTIVE" # None
      BY NoneAssumption
    <2>2. drafts \in [Auth!Drafts -> {None, "DRAFT", "ACTIVE"}]
      BY <1>2 DEF AuthType
    <2> QED BY <1>1, <2>1, <2>2
  <1>4. \A r \in Requests, k \in 0 .. 1 :
           <<r, k>> \in Auth!Drafts /\ (drafts'[<<r, k>>] # None <=> drafts[<<r, k>>] # None)
    BY <1>3 DEF Auth!Drafts, Auth!Attempts
  <1>5. ASSUME NEW r \in Requests
        PROVE  \/ stored'[r] = stored[r] /\ (stored[r] = None \/ stored[r].draft # draft)
               \/ /\ stored[r] # None /\ stored[r].draft = draft
                  /\ stored'[r] = [state |-> "ACTIVATED", draft |-> draft,
                                   traces |-> stored[r].traces]
                  /\ stored[r].traces \in Seq([tool : Auth!Tools, attempt : 0 .. 1])
    <2>1. CASE stored[r] # None /\ stored[r].draft = draft
      <3>1. IsRecord(stored[r])
        BY <1>2, <2>1 DEF AuthType
      <3>2. stored'[r] = [stored[r] EXCEPT !.state = "ACTIVATED"]
        BY <1>1, <2>1
      <3> QED BY <2>1, <3>1, <3>2 DEF IsRecord
    <2>2. CASE ~(stored[r] # None /\ stored[r].draft = draft)
      BY <1>1, <2>2
    <2> QED BY <2>1, <2>2
  <1>6. ASSUME NEW r \in Requests
        PROVE  stored'[r] # None => IsRecord(stored'[r])
    <2>1. CASE stored'[r] = stored[r]
      BY <1>2, <2>1 DEF AuthType
    <2>2. CASE /\ stored'[r] = [state |-> "ACTIVATED", draft |-> draft,
                                traces |-> stored[r].traces]
               /\ stored[r].traces \in Seq([tool : Auth!Tools, attempt : 0 .. 1])
      BY <2>2 DEF IsRecord
    <2> QED BY <1>5, <2>1, <2>2
  <1>7. AuthType'
    <2>1. stored' = [r \in Requests |-> stored'[r]]
      BY <1>1
    <2>2. \A r \in Requests : IsRecord(record'[r])
      BY <1>1, <1>2 DEF AuthType
    <2> QED BY <1>1, <1>2, <1>3, <1>6, <2>1, <2>2 DEF AuthType
  <1>8. ASSUME NEW r \in Requests PROVE Story(r)'
    <2>1. Progress(r) /\ Retried(r) /\ Drafted(r) /\ attempt[r] \in 0 .. 1
      BY <1>2 DEF AuthInv, AuthType, Story
    <2>2. Retried(r)'
      BY <1>1, <2>1 DEF Retried
    <2>3. CASE stored'[r] = stored[r]
      <3>1. Progress(r)'
        BY <1>1, <2>1, <2>3 DEF Progress, Explained
      <3>2. Drafted(r)'
        BY <1>1, <1>4, <2>1, <2>3 DEF Drafted
      <3> QED BY <2>2, <3>1, <3>2 DEF Story
    <2>4. CASE /\ stored[r] # None /\ stored[r].draft = draft
               /\ stored'[r] = [state |-> "ACTIVATED", draft |-> draft,
                                traces |-> stored[r].traces]
      <3>1. draft # None
        BY NoneAssumption
      <3>2. /\ pc[r] = "done" /\ stored[r].draft = record[r].draft
            /\ record[r].draft = <<r, attempt[r]>> /\ drafts[<<r, attempt[r]>>] # None
            /\ stored[r].traces = record[r].traces
        BY <2>1, <2>4, <3>1 DEF Drafted
      <3>3. result[r][attempt[r]] = "drafted"
        BY <2>1, <3>2 DEF Drafted
      <3>4. /\ stored'[r].state = "ACTIVATED" /\ stored'[r].draft = stored[r].draft
            /\ stored'[r].traces = stored[r].traces
        BY <2>4
      <3>5. /\ "ACTIVATED" \in DOMAIN Auth!Reasons /\ "drafted" \in Auth!Reasons["ACTIVATED"]
            /\ "drafted" \notin Auth!Retryable
        BY DEF Auth!Reasons, Auth!Retryable
      <3>6. Progress(r)'
        BY <1>1, <3>2, <3>3, <3>4, <3>5 DEF Progress, Explained
      <3>7. Drafted(r)'
        BY <1>1, <1>4, <2>1, <3>2, <3>4 DEF Drafted
      <3> QED BY <2>2, <3>6, <3>7 DEF Story
    <2> QED BY <1>5, <2>3, <2>4
  <1> QED BY <1>7, <1>8 DEF AuthInv

LEMMA AuthCrash ==
    ASSUME AuthInv, NEW r \in Requests, Auth!Crash(r)
    PROVE  AuthInv'
  <1>1. /\ pc[r] \notin {"idle", "done", "dead"} /\ Auth!Goto(r, "dead")
        /\ UNCHANGED <<stored, drafts, record, attempt, errors, result, fed>>
    BY DEF Auth!Crash
  <1>2. AuthType /\ Retried(r) /\ Drafted(r)
    BY DEF AuthInv, Story
  <1>3. /\ pc' = [q \in Requests |-> pc'[q]] /\ pc'[r] = "dead"
        /\ \A q \in Requests \ {r} : pc'[q] = pc[q]
    BY <1>1, <1>2, GotoDoes
  <1>4. AuthType'
    <2>1. \A q \in Requests : IsRecord(record[q]) /\ (stored[q] # None => IsRecord(stored[q]))
      BY <1>2 DEF AuthType
    <2>2. \A q \in Requests :
             IsRecord(record'[q]) /\ (stored'[q] # None => IsRecord(stored'[q]))
      BY <1>1, <2>1
    <2>3. /\ record' = [q \in Requests |-> record'[q]]
          /\ stored' = [q \in Requests |-> stored'[q]]
      BY <1>1, <1>2 DEF AuthType
    <2> QED BY <1>1, <1>2, <1>3, <2>2, <2>3 DEF AuthType
  <1>5. Kept(r)
    BY <1>1, <1>3 DEF Kept
  <1>6. Progress(r)' /\ Retried(r)'
    BY <1>1, <1>2, <1>3 DEF Progress, Retried
  <1>7. Drafted(r)'
    BY <1>1, <1>2, <1>3 DEF Drafted
  <1> QED BY <1>4, <1>5, <1>6, <1>7, StoryKept DEF Story

LEMMA AuthStart ==
    ASSUME Auth!Init
    PROVE  AuthInv
  <1>1. /\ stored = [r \in Requests |-> None] /\ drafts = [d \in Auth!Drafts |-> None]
        /\ record = [r \in Requests |-> Auth!New] /\ pc = [r \in Requests |-> "idle"]
        /\ attempt = [r \in Requests |-> 0] /\ errors = [r \in Requests |-> FALSE]
        /\ result = [r \in Requests |-> [k \in 0 .. 1 |-> None]]
        /\ fed = [r \in Requests |-> [k \in 0 .. 1 |-> FALSE]]
    BY DEF Auth!Init, Auth!Attempts
  <1>2. /\ Auth!New = [state |-> "RECEIVED", draft |-> None, traces |-> <<>>]
        /\ Auth!New.draft = None /\ Auth!New.traces = <<>>
    BY DEF Auth!New
  <1>3. <<>> \in Seq([tool : Auth!Tools, attempt : 0 .. 1])
    OBVIOUS
  <1>4. IsRecord(Auth!New)
    BY <1>2, <1>3 DEF IsRecord
  <1>5. AuthType
    BY <1>1, <1>4 DEF AuthType
  <1>6. Written(<<>>, 0, 0)
    BY DEF Written
  <1>7. \A r \in Requests, k \in 0 .. 1 : drafts[<<r, k>>] = None
    BY <1>1 DEF Auth!Drafts, Auth!Attempts
  <1>8. ASSUME NEW r \in Requests PROVE Story(r)
    <2>1. /\ stored[r] = None /\ record[r] = Auth!New /\ pc[r] = "idle" /\ attempt[r] = 0
          /\ errors[r] = FALSE /\ result[r][0] = None /\ result[r][1] = None
          /\ fed[r][0] = FALSE
      BY <1>1
    <2>2. Progress(r)
      BY <1>2, <1>6, <2>1 DEF Progress
    <2>3. Retried(r)
      BY <2>1 DEF Retried
    <2>4. Drafted(r)
      BY <1>2, <1>7, <2>1 DEF Drafted
    <2> QED BY <2>2, <2>3, <2>4 DEF Story
  <1> QED BY <1>5, <1>8 DEF AuthInv

LEMMA AuthStep ==
    ASSUME AuthInv, Auth!Next
    PROVE  AuthInv'
  BY AuthReceive, AuthDiscover, AuthCall, AuthCheck, AuthPreview, AuthExclusions,
     AuthCreate, AuthFinish, AuthActivate, AuthCrash
     DEF Auth!Next, Auth!AuthorStep

LEMMA AuthUnchanged ==
    ASSUME AuthInv, UNCHANGED authoring
    PROVE  AuthInv'
  <1>1. UNCHANGED <<stored, drafts, record, pc, attempt, errors, result, fed>>
    BY DEF authoring
  <1>2. AuthType'
    BY <1>1 DEF AuthInv, AuthType
  <1>3. ASSUME NEW r \in Requests PROVE Story(r)'
    <2>1. Progress(r) /\ Retried(r) /\ Drafted(r)
      BY DEF AuthInv, Story
    <2> QED BY <1>1, <2>1 DEF Story, Progress, Explained, Retried, Drafted
  <1> QED BY <1>2, <1>3 DEF AuthInv

LEMMA StoriesAreTrue ==
    ASSUME AuthInv
    PROVE  RequestTruthful
  <1>1. \A r \in Requests : Progress(r) /\ Retried(r) /\ Drafted(r) /\ attempt[r] \in 0 .. 1
    BY DEF AuthInv, AuthType, Story
  <1>2. Auth!StopExplained
    BY <1>1 DEF Auth!StopExplained, Auth!Settled, Progress, Explained
  <1>3. Auth!RetryJustified
    BY <1>1 DEF Auth!RetryJustified, Retried
  <1>4. Auth!OneKnownDraft
    <2> SUFFICES ASSUME NEW r \in Requests, NEW k \in 0 .. 1, drafts[<<r, k>>] # None
                 PROVE  /\ result[r][k] = "drafted"
                        /\ \A j \in 0 .. 1 \ {k} : drafts[<<r, j>>] = None
                        /\ record[r].draft = <<r, k>>
                        /\ pc[r] = "done" => stored[r].draft = <<r, k>>
      BY DEF Auth!OneKnownDraft, Auth!Attempts
    <2>1. Drafted(r)
      BY <1>1
    <2>2. k = attempt[r] /\ result[r][k] = "drafted" /\ record[r].draft = <<r, k>>
      BY <2>1 DEF Drafted
    <2>3. ASSUME NEW j \in 0 .. 1, drafts[<<r, j>>] # None PROVE j = k
      BY <2>1, <2>2, <2>3 DEF Drafted
    <2>4. pc[r] = "done" => stored[r].draft = record[r].draft
      BY <2>1 DEF Drafted
    <2> QED BY <2>2, <2>3, <2>4
  <1>5. Auth!DraftEvidenced
    <2> SUFFICES ASSUME NEW r \in Requests, stored[r] # None, stored[r].draft # None
                 PROVE  LET k == stored[r].draft[2]
                            traces == stored[r].traces
                            before == Len(traces) - 4
                        IN  /\ drafts[stored[r].draft] # None
                            /\ before >= 0
                            /\ \A i \in 1 .. 4 :
                                  traces[before + i] = [tool |-> Auth!Evidence[i], attempt |-> k]
                            /\ \A i \in 1 .. before :
                                  traces[i].attempt = k => traces[i].tool = "discover"
      BY DEF Auth!DraftEvidenced
    <2>1. /\ pc[r] = "done" /\ stored[r].traces = record[r].traces
          /\ stored[r].draft = record[r].draft /\ record[r].draft = <<r, attempt[r]>>
          /\ drafts[<<r, attempt[r]>>] # None /\ Written(record[r].traces, attempt[r], 4)
      BY <1>1 DEF Drafted
    <2>2. stored[r].draft[2] = attempt[r] /\ Written(stored[r].traces, attempt[r], 4)
      BY <2>1
    <2>3. Len(stored[r].traces) \in Nat
      <3>1. IsRecord(stored[r])
        BY DEF AuthInv, AuthType
      <3> QED BY <3>1 DEF IsRecord
    <2>4. drafts[stored[r].draft] # None
      BY <2>1
    <2>5. Len(stored[r].traces) - 4 >= 0
      BY <2>2, <2>3 DEF Written
    <2>6. ASSUME NEW i \in 1 .. 4
          PROVE  stored[r].traces[Len(stored[r].traces) - 4 + i]
                    = [tool |-> Auth!Evidence[i], attempt |-> attempt[r]]
      BY <2>2 DEF Written
    <2>7. ASSUME NEW i \in 1 .. Len(stored[r].traces) - 4
          PROVE  stored[r].traces[i].attempt = attempt[r]
                    => stored[r].traces[i].tool = "discover"
      BY <2>2 DEF Written
    <2>8. stored[r].draft[2] = attempt[r]
      BY <2>2
    <2> QED BY <2>4, <2>5, <2>6, <2>7, <2>8
  <1> QED BY <1>2, <1>3, <1>4, <1>5 DEF RequestTruthful

\* RequestTruthful, for any number of requests and crashes, with activations
\* between any two of their transactions: what the row of an authoring request
\* tells is so (ai.py:104-195).
THEOREM RequestIsTruthful == Spec => []RequestTruthful
  <1>1. Init => AuthInv
    BY AuthStart DEF Init
  <1>2. ASSUME AuthInv, [Next]_vars PROVE AuthInv'
    <2>1. UNCHANGED authoring \/ Auth!Next
      BY <1>2 DEF Next, vars, Setup, Start, Inventory, Author, Screen
    <2> QED BY <1>2, <2>1, AuthStep, AuthUnchanged
  <1>3. AuthInv => RequestTruthful
    BY StoriesAreTrue
  <1> QED BY <1>1, <1>2, <1>3, PTL DEF Spec
==============================================================================
