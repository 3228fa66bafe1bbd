------------------------------- MODULE Registry ------------------------------
(***************************************************************************)
(* The ontology registry (ontology.py): the equipment a rule configuration *)
(* targets is resolved along the relations of an inventory that imports    *)
(* (seed.import_inventory) let grow.  A person reviews the preview of a    *)
(* version; activation (rules.activate) recomputes it.                     *)
(*                                                                         *)
(* A graph is loaded with one query for the entities and a second one for  *)
(* the edges; on PostgreSQL an import may commit between them.             *)
(***************************************************************************)
EXTENDS Naturals, FiniteSets

CONSTANTS
    Payloads,  \* imports [source, entities, edges] from files
    Registers, \* packs of registers [spaces, equipment, points]
    Configs,   \* configurations of rules
    None

Relations == {"hasPart", "hasPoint", "hasLocation", "feeds", "measuresSpace"}

VARIABLES
    graph,   \* [entities, edges], committed; an edge is <<source, relation, target>>
    config,  \* the configuration of the version
    status,  \* "DRAFT" or "ACTIVE"
    shown,   \* the preview the reviewer has seen last, or None
    active,  \* the preview of the activation, or None
    reader,  \* the graph a reader saw with its first query, or None
    purpose  \* what it reads for, "review" or "activate"

vars == <<graph, config, status, shown, active, reader, purpose>>

-------------------------------------------------------------------------------
(* OntologyGraph. *)

Ids(entities) == {e.id : e \in entities}

Related(g, source, relation) ==
    {e \in g.entities : <<source, relation, e.id>> \in g.edges}

OfKind(entities, kind) == {e \in entities : e.kind = kind}

Parents(g, target, kind) ==
    {e \in OfKind(g.entities, kind) : <<e.id, "hasPart", target>> \in g.edges}

Zones(g, equipment) == OfKind(Related(g, equipment, "feeds"), "HVAC_Zone")
Rooms(g, zone) == OfKind(Related(g, zone, "hasPart"), "Room")

\* What a fault of the equipment may affect.
Spaces(g, equipment) ==
    [zones |-> Ids(Zones(g, equipment)),
     rooms |-> UNION {Ids(Rooms(g, z.id)) : z \in Zones(g, equipment)},
     installation |-> Ids(Related(g, equipment, "hasLocation"))]

\* Variant: a selector that is empty selects nothing.
SelectsListed(selector, id) == id \in selector

Selects(selector, id) == selector = {} \/ id \in selector

\* Variant: every room of the zone must be in the scope.
SpaceInScopeAll(g, target, zone) ==
    \A r \in Rooms(g, zone.id) :
        target.use \in {zone.use, r.use} /\ Selects(target.rooms, r.id)

SpaceInScope(g, target, zone) ==
    \E r \in Rooms(g, zone.id) :
        target.use \in {zone.use, r.use} /\ Selects(target.rooms, r.id)

\* The ways from the equipment to a building in the scope.
Paths(g, target, equipment) ==
    {p \in {[building |-> b, floor |-> f, zone |-> z] :
                b \in OfKind(g.entities, "Building"),
                f \in OfKind(g.entities, "Floor"), z \in Zones(g, equipment)} :
        /\ p.floor \in Parents(g, p.zone.id, "Floor")
        /\ p.building \in Parents(g, p.floor.id, "Building")
        /\ p.building.property = target.property
        /\ Selects(target.buildings, p.building.id)
        /\ Selects(target.floors, p.floor.id)
        /\ Selects(target.zones, p.zone.id)
        /\ SpaceInScope(g, target, p.zone)}

Classes(c) == {c.operating, c.left, c.right}
PointsOf(g, equipment, class) == OfKind(Related(g, equipment, "hasPoint"), class)

Missing(g, c, equipment) ==
    {class \in Classes(c) : Cardinality(PointsOf(g, equipment, class)) # 1}

UnitMismatch(g, c, equipment) ==
    \E class \in {c.left, c.right} :
        \E p \in PointsOf(g, equipment, class) : p.unit # c.unit

\* Why the equipment is left out, or "match"; the first reason counts.
Verdict(g, c, equipment) ==
    LET paths == Paths(g, c.target, equipment)
    IN  IF paths = {} THEN "outside"
        ELSE IF Missing(g, c, equipment) # {} THEN "points"
        ELSE IF equipment \in c.target.excluded THEN "explicit"
        ELSE IF Cardinality({p.building : p \in paths}) # 1 THEN "ownership"
        ELSE IF UnitMismatch(g, c, equipment) THEN "unit"
        ELSE "match"

\* A match carries its paths, the rooms on them, its points, the override of
\* its building and what it serves.
Match(g, c, equipment) ==
    LET paths == Paths(g, c.target, equipment)
        owner == (CHOOSE p \in paths : TRUE).building.id
    IN  [equipment |-> equipment,
         paths |-> {<<p.building.id, p.floor.id, p.zone.id,
                      Ids(Rooms(g, p.zone.id))>> : p \in paths},
         points |-> [class \in Classes(c) |-> Ids(PointsOf(g, equipment, class))],
         override |-> IF owner \in DOMAIN c.overrides THEN c.overrides[owner] ELSE None,
         affected |-> Spaces(g, equipment)]

\* The digest of a preview is compared as the preview itself.
Preview(g, c) ==
    LET candidates == Ids(OfKind(g.entities, c.target.equipmentType))
        verdict == [eq \in candidates |-> Verdict(g, c, eq)]
        matched == {eq \in candidates : verdict[eq] = "match"}
    IN  [matches |-> {Match(g, c, eq) : eq \in matched},
         exclusions |-> {<<eq, verdict[eq], IF verdict[eq] = "points"
                                            THEN Missing(g, c, eq) ELSE {}>> :
                             eq \in candidates \ matched}]

\* The identities a configuration names exist, its classes too, and are apart.
Valid(g, c) ==
    LET known(kind) == Ids(OfKind(g.entities, kind))
    IN  /\ c.target.buildings \cup DOMAIN c.overrides \subseteq known("Building")
        /\ c.target.floors \subseteq known("Floor")
        /\ c.target.zones \subseteq known("HVAC_Zone")
        /\ c.target.rooms \subseteq known("Room")
        /\ c.target.excluded \subseteq known("AHU")
        /\ Classes(c) \subseteq {e.kind : e \in g.entities}
        /\ c.operating = "Run_Status"
        /\ c.left # c.right

-------------------------------------------------------------------------------
(* What files, packs and configurations are like. *)

\* Entities say where the import comes from.
WellFormedPayloads ==
    \A payload \in Payloads :
        /\ IsFiniteSet(payload.entities)
        /\ \A e \in payload.entities : e.source = payload.source

Identified(rows) == \A row, other \in rows : row.id = other.id => row = other

\* Identities are unique, and references lead to rows of the pack or are blank.
WellFormedRegisters ==
    \A r \in Registers :
        LET spaces == Ids(r.spaces)
            equipment == Ids(r.equipment)
            points == Ids(r.points)
            known == spaces \cup equipment \cup points \cup {None}
        IN  /\ r.spaces # {}
            /\ IsFiniteSet(r.spaces) /\ IsFiniteSet(r.equipment) /\ IsFiniteSet(r.points)
            /\ Identified(r.spaces) /\ Identified(r.equipment) /\ Identified(r.points)
            /\ spaces \cap equipment = {} /\ spaces \cap points = {}
            /\ equipment \cap points = {}
            /\ \A row \in r.spaces : row.parent \in known
            /\ \A row \in r.equipment : {row.installed, row.served, row.measured} \subseteq known
            /\ \A row \in r.points : row.equipment \in equipment

Selectors == {"buildings", "floors", "zones", "rooms"}

\* RuleConfig and its target.
WellFormedConfigs ==
    \A c \in Configs :
        /\ DOMAIN c = {"target", "operating", "left", "right", "unit", "overrides"}
        /\ c = [x \in DOMAIN c |-> c[x]]
        /\ DOMAIN c.target =
              Selectors \cup {"excluded", "property", "use", "equipmentType"}
        /\ c.target = [x \in DOMAIN c.target |-> c.target[x]]

-------------------------------------------------------------------------------
(* Imports. *)

\* Variant: entities that are there are taken as they come.
UnchangedNot(payload) == TRUE

Unchanged(payload) ==
    \A e \in payload.entities, old \in graph.entities : e.id = old.id => e = old

\* Variant: a reference that is left blank is a relation, too.
RelationAnyway(source, relation, target) == {<<source, relation, target>>}

\* A reference that is left blank is no relation.
Relation(source, relation, target) ==
    IF target = None THEN {} ELSE {<<source, relation, target>>}

\* What starter_pack.inventory makes of the registers of a pack.
Inventory(r) ==
    LET entity(row, property, use, unit) ==
            [id |-> row.id, kind |-> row.kind, property |-> property, use |-> use,
             unit |-> unit, source |-> "candidate-starter-pack"]
    IN  [source |-> "candidate-starter-pack",
         entities |-> {entity(row, row.property, row.use, None) : row \in r.spaces}
                 \cup {entity(row, None, None, None) : row \in r.equipment}
                 \cup {entity(row, None, None, row.unit) : row \in r.points},
         edges |-> UNION (
            {Relation(row.parent, "hasPart", row.id) :
                row \in {space \in r.spaces : space.parent # None}}
            \cup {Relation(row.id, "hasLocation", row.installed) : row \in r.equipment}
            \cup {Relation(row.id, "feeds", row.served) : row \in r.equipment}
            \cup {Relation(row.id, "measuresSpace", row.measured) : row \in r.equipment}
            \cup {Relation(row.equipment, "hasPoint", row.id) : row \in r.points})]

\* Anything that is not accepted raises, and the transaction is rolled back.
Accepted(payload) ==
    /\ \A e, other \in payload.entities : e.id = other.id => e = other
    /\ \A edge \in payload.edges :
          {edge[1], edge[3]} \subseteq Ids(payload.entities) /\ edge[2] \in Relations
    /\ graph.entities # {} => payload.source \in {e.source : e \in graph.entities}
    /\ Unchanged(payload)

Grown(payload) ==
    [entities |-> graph.entities \cup payload.entities,
     edges |-> graph.edges \cup payload.edges]

Import(payload) ==
    /\ Accepted(payload)
    /\ graph' = Grown(payload)
    /\ UNCHANGED <<config, status, shown, active, reader, purpose>>

-------------------------------------------------------------------------------
(* Review and activation. *)

Init ==
    /\ graph = [entities |-> {}, edges |-> {}]
    /\ config \in Configs
    /\ status = "DRAFT"
    /\ shown = None /\ active = None
    /\ reader = None /\ purpose = "review"

\* The first query of load_registry: the entities.
Read(why) ==
    /\ reader = None
    /\ status = "DRAFT"
    /\ why = "activate" => shown # None
    /\ reader' = graph
    /\ purpose' = why
    /\ UNCHANGED <<graph, config, status, shown, active>>

\* Variant: the edges are read first.
LoadedEdgesFirst(then) == [entities |-> graph.entities, edges |-> then.edges]

\* What the second query makes of it.
Loaded(then) == [entities |-> then.entities, edges |-> graph.edges]

Review ==
    /\ reader # None /\ purpose = "review"
    /\ shown' = Preview(Loaded(reader), config)
    /\ reader' = None
    /\ UNCHANGED <<graph, config, status, active, purpose>>

\* Variant: the reviewed digest is not compared.
ConfirmedAnyway(preview) == TRUE

Confirmed(preview) == shown = preview

\* Activation ends in the version in service, or refuses.
Activate ==
    LET preview == Preview(Loaded(reader), config)
        agreed == /\ Valid(Loaded(reader), config)
                  /\ Confirmed(preview)
                  /\ preview.matches # {}
    IN  /\ reader # None /\ purpose = "activate"
        /\ status' = IF agreed THEN "ACTIVE" ELSE status
        /\ active' = IF agreed THEN preview ELSE active
        /\ reader' = None
        /\ UNCHANGED <<graph, config, shown, purpose>>

Next ==
    \/ \E payload \in Payloads \cup {Inventory(r) : r \in Registers} : Import(payload)
    \/ \E why \in {"review", "activate"} : Read(why)
    \/ (reader # None /\ (Review \/ Activate))

Spec == Init /\ [][Next]_vars

-------------------------------------------------------------------------------
(* Properties. *)

\* The inventory stays in order whatever is imported: an identity means one
\* entity, every edge leads from one to another, and synthetic and supplied
\* inventory are never mixed (seed.py:79-108).
InventoryInOrder ==
    /\ \A e, other \in graph.entities : e.id = other.id => e = other
    /\ \A edge \in graph.edges : {edge[1], edge[3]} \subseteq Ids(graph.entities)
    /\ Cardinality({e.source : e \in graph.entities}) <= 1

\* A register of the pack with the blanks it has can be imported into an empty
\* inventory, and again after whatever was imported since: starting a container
\* twice does no harm (starter_pack.py:33-35; seed.py:95-100; cli.py:78).
PackImports ==
    \A r \in Registers :
        graph.entities = {} \/ Inventory(r).entities \subseteq graph.entities =>
            Accepted(Inventory(r))

\* Everything a preview says but which equipment lacks points holds in an
\* inventory: these match along the same paths, those are left out for the same
\* reasons.
Holds(preview, g) ==
    /\ preview.matches \subseteq Preview(g, config).matches
    /\ {x \in preview.exclusions : x[2] # "points"} \subseteq Preview(g, config).exclusions

\* A version enters service with the preview its reviewer saw, and what it shows
\* holds in the inventory that was committed when its activation began, though
\* both were read with two queries each: what an import shows in part between
\* them is never confirmed.  Of points a preview only counts how many classes
\* are not met once: two such previews may agree across an inventory where they
\* all were (rules.py:68-77; ontology.py:53-117; docs/afdd.md:13).
ActivatedWhole ==
    [][status' # status => active' = shown /\ Holds(shown, reader)]_vars

\* Since the first query, each edge was attached to an entity that is new, too.
OnlyAttached(then) ==
    \A edge \in graph.edges \ then.edges : ~({edge[1], edge[3]} \subseteq Ids(then.entities))

\* An import that attaches new entities between the two queries of a reader does
\* not show half: the reader sees the inventory as it was before
\* (persistence/ontology.py:7-8, ontology.py:24-36).
TornReadHarmless ==
    reader # None /\ OnlyAttached(reader) =>
        Preview(Loaded(reader), config) = Preview(reader, config)

\* A configuration that is the other with more selectors filled in.
Narrows(narrow, c) ==
    /\ \A f \in Selectors : c.target[f] \in {{}, narrow.target[f]}
    /\ narrow = [c EXCEPT !.target = narrow.target]
    /\ [narrow.target EXCEPT !.buildings = {}, !.floors = {}, !.zones = {}, !.rooms = {}] =
       [c.target EXCEPT !.buildings = {}, !.floors = {}, !.zones = {}, !.rooms = {}]

Verdicts(g, c) ==
    [eq \in Ids(OfKind(g.entities, c.target.equipmentType)) |-> Verdict(g, c, eq)]

\* Filling in a selector adds no equipment, but for what several buildings owned
\* before (ontology.py:68-117).
NarrowingOnlyDisambiguates ==
    \A c, narrow \in Configs : Narrows(narrow, c) =>
        \A eq \in DOMAIN Verdicts(graph, c) :
            Verdict(graph, narrow, eq) = "match" =>
                Verdict(graph, c, eq) \in {"match", "ownership"}

\* An import never takes equipment out of a rule's scope: a match stays one, or
\* what was imported made it ambiguous (ontology.py:53-141).
GrowthOnlyAmbiguates ==
    [][\A c \in Configs : \A eq \in DOMAIN Verdicts(graph, c) :
          Verdict(graph, c, eq) = "match" =>
              Verdict(graph', c, eq) \in {"match", "points", "ownership"}]_graph

\* "ontology drift that silently changes target sets ... The design addresses
\* them with ... explicit ontology paths plus previewed exclusions"
\* (docs/understanding-checkpoint.md:59): drain monitors what was previewed.
MonitoredAsReviewed ==
    status = "ACTIVE" => Preview(graph, config) = active
===============================================================================
