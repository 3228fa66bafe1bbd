----------------------------- MODULE RegistryProofs ----------------------------
(***************************************************************************)
(* Theorems about Registry, for any inventories, imports, packs and        *)
(* configurations: what growth and narrowing do to the equipment a rule    *)
(* targets, and that an inventory stays in order.                          *)
(***************************************************************************)
EXTENDS Registry, FiniteSetTheorems, TLAPS

-------------------------------------------------------------------------------
(* Growth. *)

Grows(g, h) == g.entities \subseteq h.entities /\ g.edges \subseteq h.edges

LEMMA RelatedGrows ==
    ASSUME NEW g, NEW h, Grows(g, h), NEW source, NEW relation, NEW kind
    PROVE  /\ Related(g, source, relation) \subseteq Related(h, source, relation)
           /\ OfKind(Related(g, source, relation), kind)
                \subseteq OfKind(Related(h, source, relation), kind)
           /\ Parents(g, source, kind) \subseteq Parents(h, source, kind)
  BY DEF Grows, Related, OfKind, Parents

LEMMA PathsGrow ==
    ASSUME NEW g, NEW h, Grows(g, h), NEW target, NEW equipment
    PROVE  Paths(g, target, equipment) \subseteq Paths(h, target, equipment)
  <1> SUFFICES ASSUME NEW p \in Paths(g, target, equipment)
               PROVE  p \in Paths(h, target, equipment)
    OBVIOUS
  <1>1. /\ p \in {[building |-> b, floor |-> f, zone |-> z] :
                     b \in OfKind(g.entities, "Building"),
                     f \in OfKind(g.entities, "Floor"), z \in Zones(g, equipment)}
        /\ p.floor \in Parents(g, p.zone.id, "Floor")
        /\ p.building \in Parents(g, p.floor.id, "Building")
        /\ p.building.property = target.property
        /\ Selects(target.buildings, p.building.id)
        /\ Selects(target.floors, p.floor.id)
        /\ Selects(target.zones, p.zone.id)
        /\ SpaceInScope(g, target, p.zone)
    BY DEF Paths
  <1>2. p \in {[building |-> b, floor |-> f, zone |-> z] :
                  b \in OfKind(h.entities, "Building"),
                  f \in OfKind(h.entities, "Floor"), z \in Zones(h, equipment)}
    <2>1. /\ OfKind(g.entities, "Building") \subseteq OfKind(h.entities, "Building")
          /\ OfKind(g.entities, "Floor") \subseteq OfKind(h.entities, "Floor")
      BY DEF Grows, OfKind
    <2>2. Zones(g, equipment) \subseteq Zones(h, equipment)
      BY RelatedGrows DEF Zones
    <2> QED BY <1>1, <2>1, <2>2
  <1>3. /\ p.floor \in Parents(h, p.zone.id, "Floor")
        /\ p.building \in Parents(h, p.floor.id, "Building")
    BY <1>1, RelatedGrows
  <1>4. SpaceInScope(h, target, p.zone)
    <2>1. Rooms(g, p.zone.id) \subseteq Rooms(h, p.zone.id)
      BY RelatedGrows DEF Rooms
    <2> QED BY <1>1, <2>1 DEF SpaceInScope
  <1> QED BY <1>1, <1>2, <1>3, <1>4 DEF Paths

\* What a verdict says.
LEMMA VerdictIs ==
    ASSUME NEW g, NEW c, NEW eq
    PROVE  /\ Verdict(g, c, eq) = "match" <=>
                /\ Paths(g, c.target, eq) # {}
                /\ Missing(g, c, eq) = {}
                /\ eq \notin c.target.excluded
                /\ Cardinality({p.building : p \in Paths(g, c.target, eq)}) = 1
                /\ ~UnitMismatch(g, c, eq)
           /\ /\ Paths(g, c.target, eq) # {}
              /\ eq \notin c.target.excluded
              /\ ~UnitMismatch(g, c, eq) \/ Missing(g, c, eq) # {}
              => Verdict(g, c, eq) \in {"match", "points", "ownership"}
           /\ Verdict(g, c, eq) = "points" => Missing(g, c, eq) # {}
  BY DEF Verdict

\* One point of a class before, one after: the same.
LEMMA PointStays ==
    ASSUME NEW g, NEW h, Grows(g, h), IsFiniteSet(h.entities), NEW eq, NEW class,
           Cardinality(PointsOf(g, eq, class)) = 1, Cardinality(PointsOf(h, eq, class)) = 1
    PROVE  PointsOf(g, eq, class) = PointsOf(h, eq, class)
  <1>1. PointsOf(g, eq, class) \subseteq PointsOf(h, eq, class)
    BY RelatedGrows DEF PointsOf
  <1>2. PointsOf(h, eq, class) \in SUBSET h.entities
    BY DEF PointsOf, OfKind, Related
  <1>3. IsFiniteSet(PointsOf(h, eq, class))
    BY <1>2, FS_Subset
  <1> QED BY <1>1, <1>3, FS_Subset

\* An inventory that grows leaves a match, or makes it ambiguous.
LEMMA MatchGrows ==
    ASSUME NEW g, NEW h, Grows(g, h), IsFiniteSet(h.entities), NEW c, NEW eq,
           Verdict(g, c, eq) = "match"
    PROVE  Verdict(h, c, eq) \in {"match", "points", "ownership"}
  <1>1. /\ Paths(g, c.target, eq) # {} /\ Missing(g, c, eq) = {}
        /\ eq \notin c.target.excluded /\ ~UnitMismatch(g, c, eq)
    BY VerdictIs
  <1>2. Paths(h, c.target, eq) # {}
    BY <1>1, PathsGrow
  <1>3. ASSUME Missing(h, c, eq) = {} PROVE ~UnitMismatch(h, c, eq)
    <2>1. \A class \in Classes(c) : PointsOf(g, eq, class) = PointsOf(h, eq, class)
      BY <1>1, <1>3, PointStays DEF Missing
    <2>2. {c.left, c.right} \subseteq Classes(c)
      BY DEF Classes
    <2> QED BY <1>1, <2>1, <2>2 DEF UnitMismatch
  <1> QED BY <1>1, <1>2, <1>3, VerdictIs

-------------------------------------------------------------------------------
(* What lies between two inventories. *)

\* h is a step of the growth of g into k.
Between(g, h, k) ==
    /\ Grows(g, h) /\ Grows(h, k)
    /\ IsFiniteSet(k.entities) /\ Identified(k.entities)

Owners(g, c, eq) == {p.building : p \in Paths(g, c.target, eq)}

LEMMA OwnersGrow ==
    ASSUME NEW g, NEW h, Grows(g, h), IsFiniteSet(h.entities), NEW c, NEW eq,
           Paths(g, c.target, eq) # {}
    PROVE  /\ Cardinality(Owners(h, c, eq)) = 1 => Cardinality(Owners(g, c, eq)) = 1
           /\ IsFiniteSet(Owners(h, c, eq)) /\ Owners(g, c, eq) \subseteq Owners(h, c, eq)
  <1>1. Owners(g, c, eq) \subseteq Owners(h, c, eq) /\ Owners(g, c, eq) # {}
    BY PathsGrow DEF Owners
  <1>2. Owners(h, c, eq) \in SUBSET h.entities
    BY DEF Owners, Paths, OfKind
  <1>3. IsFiniteSet(Owners(h, c, eq))
    BY <1>2, FS_Subset
  <1>4. /\ IsFiniteSet(Owners(g, c, eq))
        /\ Cardinality(Owners(g, c, eq)) <= Cardinality(Owners(h, c, eq))
    BY <1>1, <1>3, FS_Subset
  <1>5. Cardinality(Owners(g, c, eq)) \in Nat /\ Cardinality(Owners(g, c, eq)) # 0
    BY <1>1, <1>4, FS_CardinalityType, FS_EmptySet
  <1> QED BY <1>1, <1>3, <1>4, <1>5

\* With one point of a class before and after there is that one in between.
LEMMA PointsBetween ==
    ASSUME NEW g, NEW h, NEW k, Between(g, h, k), NEW c, NEW eq,
           Missing(g, c, eq) = {}, Missing(k, c, eq) = {}
    PROVE  /\ \A class \in Classes(c) : /\ PointsOf(h, eq, class) = PointsOf(g, eq, class)
                                        /\ PointsOf(k, eq, class) = PointsOf(g, eq, class)
           /\ Missing(h, c, eq) = {}
           /\ UnitMismatch(h, c, eq) <=> UnitMismatch(g, c, eq)
  <1>1. Grows(g, k)
    BY DEF Between, Grows
  <1>2. ASSUME NEW class \in Classes(c)
        PROVE  /\ PointsOf(h, eq, class) = PointsOf(g, eq, class)
               /\ PointsOf(k, eq, class) = PointsOf(g, eq, class)
    <2>1. Cardinality(PointsOf(g, eq, class)) = 1 /\ Cardinality(PointsOf(k, eq, class)) = 1
      BY DEF Missing
    <2>2. PointsOf(g, eq, class) = PointsOf(k, eq, class)
      BY <1>1, <2>1, PointStays DEF Between
    <2>3. /\ PointsOf(g, eq, class) \subseteq PointsOf(h, eq, class)
          /\ PointsOf(h, eq, class) \subseteq PointsOf(k, eq, class)
      BY RelatedGrows DEF PointsOf, Between
    <2> QED BY <2>2, <2>3
  <1>3. {c.left, c.right} \subseteq Classes(c)
    BY DEF Classes
  <1> QED BY <1>2, <1>3 DEF Missing, UnitMismatch

\* A verdict that is the same before and after, but for the lack of points, is
\* the verdict in between.
LEMMA VerdictBetween ==
    ASSUME NEW g, NEW h, NEW k, Between(g, h, k), NEW c, NEW eq,
           Verdict(g, c, eq) = Verdict(k, c, eq), Verdict(g, c, eq) # "points"
    PROVE  Verdict(h, c, eq) = Verdict(g, c, eq)
  <1>1. /\ Paths(g, c.target, eq) \subseteq Paths(h, c.target, eq)
        /\ Paths(h, c.target, eq) \subseteq Paths(k, c.target, eq)
    BY PathsGrow DEF Between
  <1>2. CASE Paths(g, c.target, eq) = {}
    <2>1. Paths(k, c.target, eq) = {}
      BY <1>2 DEF Verdict
    <2> QED BY <1>1, <1>2, <2>1 DEF Verdict
  <1>3. CASE Paths(g, c.target, eq) # {}
    <2>1. /\ Paths(h, c.target, eq) # {} /\ Paths(k, c.target, eq) # {}
          /\ Missing(g, c, eq) = {} /\ Missing(k, c, eq) = {}
      BY <1>1, <1>3 DEF Verdict
    <2>2. Missing(h, c, eq) = {} /\ (UnitMismatch(h, c, eq) <=> UnitMismatch(g, c, eq))
      BY <2>1, PointsBetween
    <2>3. IsFiniteSet(h.entities)
      BY FS_Subset DEF Between, Grows
    <2>4. /\ Cardinality(Owners(h, c, eq)) = 1 => Cardinality(Owners(g, c, eq)) = 1
          /\ Cardinality(Owners(k, c, eq)) = 1 => Cardinality(Owners(h, c, eq)) = 1
      BY <1>3, <2>1, <2>3, OwnersGrow DEF Between
    <2>5. \A f \in {g, h, k} :
             Cardinality({p.building : p \in Paths(f, c.target, eq)})
                 = Cardinality(Owners(f, c, eq))
      BY DEF Owners
    <2>6. \A f \in {g, h, k} : Verdict(f, c, eq) =
             IF eq \in c.target.excluded THEN "explicit"
             ELSE IF Cardinality(Owners(f, c, eq)) # 1 THEN "ownership"
             ELSE IF UnitMismatch(f, c, eq) THEN "unit" ELSE "match"
      BY <1>3, <2>1, <2>2, <2>5 DEF Verdict
    <2> QED BY <2>2, <2>4, <2>6
  <1> QED BY <1>2, <1>3

LEMMA PathsBetween ==
    ASSUME NEW g, NEW h, NEW k, Between(g, h, k), NEW c, NEW eq,
           Match(g, c, eq) = Match(k, c, eq)
    PROVE  /\ Paths(h, c.target, eq) = Paths(g, c.target, eq)
           /\ Paths(k, c.target, eq) = Paths(g, c.target, eq)
           /\ \A p \in Paths(g, c.target, eq) :
                 /\ Ids(Rooms(h, p.zone.id)) = Ids(Rooms(g, p.zone.id))
                 /\ Ids(Rooms(k, p.zone.id)) = Ids(Rooms(g, p.zone.id))
  <1> DEFINE row(f, p) == <<p.building.id, p.floor.id, p.zone.id, Ids(Rooms(f, p.zone.id))>>
             all(f) == Paths(f, c.target, eq)
  <1>1. {row(g, p) : p \in all(g)} = {row(k, p) : p \in all(k)}
    BY DEF Match
  <1>2. all(g) \subseteq all(h) /\ all(h) \subseteq all(k)
    BY PathsGrow DEF Between
  <1>3. \A p \in all(k) : /\ p = [building |-> p.building, floor |-> p.floor, zone |-> p.zone]
                          /\ {p.building, p.floor, p.zone} \subseteq k.entities
    <2>1. \A p \in all(k) :
             \E b \in OfKind(k.entities, "Building"), f \in OfKind(k.entities, "Floor"),
                z \in Zones(k, eq) : p = [building |-> b, floor |-> f, zone |-> z]
      BY DEF Paths
    <2>2. /\ OfKind(k.entities, "Building") \subseteq k.entities
          /\ OfKind(k.entities, "Floor") \subseteq k.entities
          /\ Zones(k, eq) \subseteq k.entities
      BY DEF OfKind, Zones, Related
    <2> HIDE DEF all
    <2> QED BY <2>1, <2>2
  <1>4. ASSUME NEW p \in all(k), NEW q \in all(k),
               p.building.id = q.building.id, p.floor.id = q.floor.id, p.zone.id = q.zone.id
        PROVE  p = q
    BY <1>3, <1>4 DEF Between, Identified
  <1>5. \A f, p : row(f, p)[1] = p.building.id /\ row(f, p)[2] = p.floor.id
                  /\ row(f, p)[3] = p.zone.id /\ row(f, p)[4] = Ids(Rooms(f, p.zone.id))
    OBVIOUS
  <1> HIDE DEF row, all
  <1>6. \A p \in all(k) : p \in all(g) /\ row(g, p) = row(k, p)
    <2> SUFFICES ASSUME NEW p \in all(k) PROVE p \in all(g) /\ row(g, p) = row(k, p)
      OBVIOUS
    <2>1. PICK q \in all(g) : row(g, q) = row(k, p)
      BY <1>1
    <2>2. q \in all(k) /\ q = p
      BY <1>2, <1>4, <1>5, <2>1
    <2> QED BY <2>1, <2>2
  <1>7. all(h) = all(g) /\ all(k) = all(g)
    BY <1>2, <1>6
  <1>8. ASSUME NEW p \in all(g)
        PROVE  /\ Ids(Rooms(h, p.zone.id)) = Ids(Rooms(g, p.zone.id))
               /\ Ids(Rooms(k, p.zone.id)) = Ids(Rooms(g, p.zone.id))
    <2>1. Ids(Rooms(g, p.zone.id)) = Ids(Rooms(k, p.zone.id))
      BY <1>5, <1>6, <1>7
    <2>2. /\ Ids(Rooms(g, p.zone.id)) \subseteq Ids(Rooms(h, p.zone.id))
          /\ Ids(Rooms(h, p.zone.id)) \subseteq Ids(Rooms(k, p.zone.id))
      BY RelatedGrows DEF Between, Rooms, Ids
    <2> QED BY <2>1, <2>2
  <1> QED BY <1>7, <1>8 DEF all

LEMMA SpacesGrow ==
    ASSUME NEW g, NEW h, Grows(g, h), NEW eq
    PROVE  /\ Spaces(g, eq).zones \subseteq Spaces(h, eq).zones
           /\ Spaces(g, eq).rooms \subseteq Spaces(h, eq).rooms
           /\ Spaces(g, eq).installation \subseteq Spaces(h, eq).installation
  <1>1. Zones(g, eq) \subseteq Zones(h, eq)
    BY RelatedGrows DEF Zones
  <1>2. \A z : Ids(Rooms(g, z)) \subseteq Ids(Rooms(h, z))
    BY RelatedGrows DEF Rooms, Ids
  <1>3. Ids(Related(g, eq, "hasLocation")) \subseteq Ids(Related(h, eq, "hasLocation"))
    BY RelatedGrows DEF Ids
  <1>4. UNION {Ids(Rooms(g, z.id)) : z \in Zones(g, eq)}
          \subseteq UNION {Ids(Rooms(h, z.id)) : z \in Zones(h, eq)}
    BY <1>1, <1>2
  <1> QED BY <1>1, <1>3, <1>4 DEF Spaces, Ids

\* A match that is the same before and after is the match in between.
LEMMA MatchBetween ==
    ASSUME NEW g, NEW h, NEW k, Between(g, h, k), NEW c, NEW eq,
           Missing(g, c, eq) = {}, Missing(k, c, eq) = {},
           Match(g, c, eq) = Match(k, c, eq)
    PROVE  Match(h, c, eq) = Match(g, c, eq)
  <1> DEFINE paths(f) == {<<p.building.id, p.floor.id, p.zone.id,
                             Ids(Rooms(f, p.zone.id))>> : p \in Paths(f, c.target, eq)}
             points(f) == [class \in Classes(c) |-> Ids(PointsOf(f, eq, class))]
             owner(f) == (CHOOSE p \in Paths(f, c.target, eq) : TRUE).building.id
             override(f) == IF owner(f) \in DOMAIN c.overrides
                            THEN c.overrides[owner(f)] ELSE None
             match(f) == [equipment |-> eq, paths |-> paths(f), points |-> points(f),
                          override |-> override(f), affected |-> Spaces(f, eq)]
  <1>1. /\ Match(g, c, eq) = match(g) /\ Match(h, c, eq) = match(h)
        /\ Match(k, c, eq) = match(k)
    BY DEF Match
  <1>2. Paths(h, c.target, eq) = Paths(g, c.target, eq)
    BY PathsBetween
  <1>3. override(h) = override(g)
    BY <1>2
  <1>4. paths(h) = paths(g)
    BY <1>2, PathsBetween
  <1>5. points(h) = points(g)
    BY PointsBetween
  <1>6. Spaces(g, eq) = Spaces(k, eq)
    <2> HIDE DEF paths, points, override
    <2>1. match(g).affected = match(k).affected
      BY <1>1
    <2> QED BY <2>1
  <1>7. Spaces(h, eq) = Spaces(g, eq)
    <2>1. /\ Spaces(g, eq).zones = Spaces(h, eq).zones
          /\ Spaces(g, eq).rooms = Spaces(h, eq).rooms
          /\ Spaces(g, eq).installation = Spaces(h, eq).installation
      <3>1. /\ Spaces(g, eq).zones \subseteq Spaces(h, eq).zones
            /\ Spaces(g, eq).rooms \subseteq Spaces(h, eq).rooms
            /\ Spaces(g, eq).installation \subseteq Spaces(h, eq).installation
        BY SpacesGrow DEF Between
      <3>2. /\ Spaces(h, eq).zones \subseteq Spaces(k, eq).zones
            /\ Spaces(h, eq).rooms \subseteq Spaces(k, eq).rooms
            /\ Spaces(h, eq).installation \subseteq Spaces(k, eq).installation
        BY SpacesGrow DEF Between
      <3> QED BY <1>6, <3>1, <3>2
    <2>2. \A f : Spaces(f, eq) = [zones |-> Spaces(f, eq).zones, rooms |-> Spaces(f, eq).rooms,
                                  installation |-> Spaces(f, eq).installation]
      BY DEF Spaces
    <2>3. Spaces(h, eq) = [zones |-> Spaces(h, eq).zones, rooms |-> Spaces(h, eq).rooms,
                           installation |-> Spaces(h, eq).installation]
      BY <2>2
    <2>4. Spaces(g, eq) = [zones |-> Spaces(g, eq).zones, rooms |-> Spaces(g, eq).rooms,
                           installation |-> Spaces(g, eq).installation]
      BY <2>2
    <2> QED BY <2>1, <2>3, <2>4
  <1> HIDE DEF paths, points, override
  <1> QED BY <1>1, <1>3, <1>4, <1>5, <1>7

\* What a preview says.
LEMMA PreviewIs ==
    ASSUME NEW g, NEW c
    PROVE  /\ \A m : m \in Preview(g, c).matches <=>
                 \E eq \in Ids(OfKind(g.entities, c.target.equipmentType)) :
                    Verdict(g, c, eq) = "match" /\ m = Match(g, c, eq)
           /\ \A x : x \in Preview(g, c).exclusions <=>
                 \E eq \in Ids(OfKind(g.entities, c.target.equipmentType)) :
                    /\ Verdict(g, c, eq) # "match"
                    /\ x = <<eq, Verdict(g, c, eq), IF Verdict(g, c, eq) = "points"
                                                    THEN Missing(g, c, eq) ELSE {}>>
  BY DEF Preview

\* Two inventories that give the same preview: what it says, but which equipment
\* lacks points, holds in any that lies between them.
LEMMA PreviewBetween ==
    ASSUME NEW g, NEW h, NEW k, Between(g, h, k), NEW c, Preview(g, c) = Preview(k, c)
    PROVE  /\ Preview(g, c).matches \subseteq Preview(h, c).matches
           /\ {x \in Preview(g, c).exclusions : x[2] # "points"}
                \subseteq Preview(h, c).exclusions
  <1> DEFINE candidates(f) == Ids(OfKind(f.entities, c.target.equipmentType))
  <1>1. candidates(g) \subseteq candidates(h)
    BY DEF Between, Grows, Ids, OfKind
  <1>2. ASSUME NEW m \in Preview(g, c).matches PROVE m \in Preview(h, c).matches
    <2>1. PICK eq \in candidates(g) : Verdict(g, c, eq) = "match" /\ m = Match(g, c, eq)
      BY <1>2, PreviewIs
    <2>2. PICK other \in candidates(k) : Verdict(k, c, other) = "match" /\ m = Match(k, c, other)
      BY <1>2, PreviewIs
    <2>3. other = eq
      <3>1. Match(g, c, eq).equipment = eq /\ Match(k, c, other).equipment = other
        BY DEF Match
      <3> QED BY <2>1, <2>2, <3>1
    <2>4. Verdict(h, c, eq) = "match"
      BY <2>1, <2>2, <2>3, VerdictBetween
    <2>5. Missing(g, c, eq) = {} /\ Missing(k, c, eq) = {}
      BY <2>1, <2>2, <2>3, VerdictIs
    <2>6. Match(g, c, eq) = Match(k, c, eq)
      BY <2>1, <2>2, <2>3
    <2>7. Match(h, c, eq) = m
      BY <2>1, <2>5, <2>6, MatchBetween
    <2> QED BY <1>1, <2>4, <2>7, PreviewIs
  <1>3. ASSUME NEW x \in Preview(g, c).exclusions, x[2] # "points"
        PROVE  x \in Preview(h, c).exclusions
    <2>1. PICK eq \in candidates(g) :
             /\ Verdict(g, c, eq) # "match"
             /\ x = <<eq, Verdict(g, c, eq), IF Verdict(g, c, eq) = "points"
                                             THEN Missing(g, c, eq) ELSE {}>>
      BY <1>3, PreviewIs
    <2>2. PICK other \in candidates(k) :
             x = <<other, Verdict(k, c, other), IF Verdict(k, c, other) = "points"
                                                THEN Missing(k, c, other) ELSE {}>>
      BY <1>3, PreviewIs
    <2>3. other = eq /\ Verdict(k, c, eq) = Verdict(g, c, eq)
      BY <2>1, <2>2
    <2>4. Verdict(g, c, eq) # "points" /\ x = <<eq, Verdict(g, c, eq), {}>>
      BY <1>3, <2>1
    <2>5. Verdict(h, c, eq) = Verdict(g, c, eq)
      BY <2>3, <2>4, VerdictBetween
    <2> QED BY <1>1, <2>1, <2>4, <2>5, PreviewIs
  <1> QED BY <1>2, <1>3

-------------------------------------------------------------------------------
(* Edges that are attached. *)

\* h has the entities of g, and beyond its edges only some that lead to others.
Attached(g, h) ==
    /\ h.entities = g.entities /\ g.edges \subseteq h.edges
    /\ \A edge \in h.edges \ g.edges : ~({edge[1], edge[3]} \subseteq Ids(g.entities))

LEMMA RelatedSame ==
    ASSUME NEW g, NEW h, Attached(g, h), NEW id \in Ids(g.entities), NEW relation, NEW kind
    PROVE  /\ Related(g, id, relation) = Related(h, id, relation)
           /\ OfKind(g.entities, kind) = OfKind(h.entities, kind)
           /\ Parents(g, id, kind) = Parents(h, id, kind)
  <1>1. \A e \in g.entities : \A r :
          /\ <<id, r, e.id>> \in g.edges <=> <<id, r, e.id>> \in h.edges
          /\ <<e.id, r, id>> \in g.edges <=> <<e.id, r, id>> \in h.edges
    <2> SUFFICES ASSUME NEW e \in g.entities, NEW r
                 PROVE  /\ <<id, r, e.id>> \in h.edges => <<id, r, e.id>> \in g.edges
                        /\ <<e.id, r, id>> \in h.edges => <<e.id, r, id>> \in g.edges
      BY DEF Attached
    <2>1. e.id \in Ids(g.entities)
      BY DEF Ids
    <2> QED BY <2>1 DEF Attached
  <1>2. Related(g, id, relation) = Related(h, id, relation)
    BY <1>1 DEF Attached, Related
  <1>3. OfKind(g.entities, kind) = OfKind(h.entities, kind)
    BY DEF Attached
  <1>4. Parents(g, id, kind) = Parents(h, id, kind)
    BY <1>1, <1>3 DEF Parents, OfKind
  <1> QED BY <1>2, <1>3, <1>4

LEMMA EntityKnown ==
    ASSUME NEW g, NEW id, NEW relation, NEW kind
    PROVE  /\ \A e \in g.entities : e.id \in Ids(g.entities)
           /\ OfKind(Related(g, id, relation), kind) \subseteq g.entities
           /\ OfKind(g.entities, kind) \subseteq g.entities
           /\ Parents(g, id, kind) \subseteq g.entities
  BY DEF Ids, OfKind, Related, Parents

LEMMA PathsSame ==
    ASSUME NEW g, NEW h, Attached(g, h), NEW target, NEW eq \in Ids(g.entities)
    PROVE  Paths(g, target, eq) = Paths(h, target, eq)
  <1>1. Zones(g, eq) = Zones(h, eq) /\ Zones(g, eq) \subseteq g.entities
    BY RelatedSame, EntityKnown DEF Zones
  <1>2. OfKind(g.entities, "Floor") = OfKind(h.entities, "Floor")
        /\ OfKind(g.entities, "Building") = OfKind(h.entities, "Building")
    BY RelatedSame
  <1>3. \A z \in g.entities : /\ Parents(g, z.id, "Floor") = Parents(h, z.id, "Floor")
                              /\ Parents(g, z.id, "Building") = Parents(h, z.id, "Building")
                              /\ Rooms(g, z.id) = Rooms(h, z.id)
    BY RelatedSame, EntityKnown DEF Rooms
  <1>4. \A z \in g.entities : SpaceInScope(g, target, z) <=> SpaceInScope(h, target, z)
    BY <1>3 DEF SpaceInScope
  <1> DEFINE all == {[building |-> b, floor |-> f, zone |-> z] :
                        b \in OfKind(g.entities, "Building"),
                        f \in OfKind(g.entities, "Floor"), z \in Zones(g, eq)}
  <1>5. \A p \in all : p.zone \in g.entities /\ p.floor \in g.entities
    BY <1>1, EntityKnown
  <1>6. Paths(g, target, eq) = {p \in all :
            /\ p.floor \in Parents(g, p.zone.id, "Floor")
            /\ p.building \in Parents(g, p.floor.id, "Building")
            /\ p.building.property = target.property
            /\ Selects(target.buildings, p.building.id)
            /\ Selects(target.floors, p.floor.id)
            /\ Selects(target.zones, p.zone.id)
            /\ SpaceInScope(g, target, p.zone)}
    BY DEF Paths
  <1>7. Paths(h, target, eq) = {p \in all :
            /\ p.floor \in Parents(h, p.zone.id, "Floor")
            /\ p.building \in Parents(h, p.floor.id, "Building")
            /\ p.building.property = target.property
            /\ Selects(target.buildings, p.building.id)
            /\ Selects(target.floors, p.floor.id)
            /\ Selects(target.zones, p.zone.id)
            /\ SpaceInScope(h, target, p.zone)}
    BY <1>1, <1>2 DEF Paths
  <1> HIDE DEF all
  <1> QED BY <1>3, <1>4, <1>5, <1>6, <1>7

LEMMA VerdictSame ==
    ASSUME NEW g, NEW h, Attached(g, h), NEW c, NEW eq \in Ids(g.entities)
    PROVE  /\ Verdict(g, c, eq) = Verdict(h, c, eq)
           /\ Missing(g, c, eq) = Missing(h, c, eq)
           /\ Match(g, c, eq) = Match(h, c, eq)
  <1>1. \A class : PointsOf(g, eq, class) = PointsOf(h, eq, class)
    BY RelatedSame DEF PointsOf
  <1>2. Missing(g, c, eq) = Missing(h, c, eq)
        /\ (UnitMismatch(g, c, eq) <=> UnitMismatch(h, c, eq))
    BY <1>1 DEF Missing, UnitMismatch
  <1>3. Paths(g, c.target, eq) = Paths(h, c.target, eq)
    BY PathsSame
  <1>4. Verdict(g, c, eq) = Verdict(h, c, eq)
    BY <1>2, <1>3 DEF Verdict
  <1>5. Zones(g, eq) = Zones(h, eq) /\ Zones(g, eq) \subseteq g.entities
    BY RelatedSame, EntityKnown DEF Zones
  <1>6. \A z \in g.entities : Rooms(g, z.id) = Rooms(h, z.id)
    BY RelatedSame, EntityKnown DEF Rooms
  <1>7. Spaces(g, eq) = Spaces(h, eq)
    <2>1. {Ids(Rooms(g, z.id)) : z \in Zones(g, eq)} = {Ids(Rooms(h, z.id)) : z \in Zones(h, eq)}
      BY <1>5, <1>6
    <2>2. Related(g, eq, "hasLocation") = Related(h, eq, "hasLocation")
      BY RelatedSame
    <2> QED BY <1>5, <2>1, <2>2 DEF Spaces
  <1>8. Match(g, c, eq) = Match(h, c, eq)
    <2>1. {<<p.building.id, p.floor.id, p.zone.id, Ids(Rooms(g, p.zone.id))>> :
              p \in Paths(g, c.target, eq)}
            = {<<p.building.id, p.floor.id, p.zone.id, Ids(Rooms(h, p.zone.id))>> :
                  p \in Paths(h, c.target, eq)}
      <3>1. \A p \in Paths(g, c.target, eq) : p.zone \in g.entities
        BY <1>5 DEF Paths
      <3>2. \A p \in Paths(g, c.target, eq) : Rooms(g, p.zone.id) = Rooms(h, p.zone.id)
        BY <1>6, <3>1
      <3> QED BY <1>3, <3>2
    <2>2. [class \in Classes(c) |-> Ids(PointsOf(g, eq, class))]
            = [class \in Classes(c) |-> Ids(PointsOf(h, eq, class))]
      BY <1>1
    <2> DEFINE paths(k) == {<<p.building.id, p.floor.id, p.zone.id,
                               Ids(Rooms(k, p.zone.id))>> : p \in Paths(k, c.target, eq)}
               points(k) == [class \in Classes(c) |-> Ids(PointsOf(k, eq, class))]
               owner(k) == (CHOOSE p \in Paths(k, c.target, eq) : TRUE).building.id
               override(k) == IF owner(k) \in DOMAIN c.overrides
                              THEN c.overrides[owner(k)] ELSE None
               match(k) == [equipment |-> eq, paths |-> paths(k), points |-> points(k),
                            override |-> override(k), affected |-> Spaces(k, eq)]
    <2>3. Match(g, c, eq) = match(g) /\ Match(h, c, eq) = match(h)
      BY DEF Match
    <2>4. override(g) = override(h)
      BY <1>3
    <2>5. paths(g) = paths(h) /\ points(g) = points(h)
      BY <2>1, <2>2
    <2> HIDE DEF paths, points, override
    <2> QED BY <1>7, <2>3, <2>4, <2>5
  <1> QED BY <1>2, <1>4, <1>8

\* Edges that lead to entities nobody reads yet show nothing.
LEMMA PreviewSame ==
    ASSUME NEW g, NEW h, Attached(g, h), NEW c
    PROVE  Preview(g, c) = Preview(h, c)
  <1> DEFINE candidates == Ids(OfKind(g.entities, c.target.equipmentType))
             verdict(k) == [eq \in candidates |-> Verdict(k, c, eq)]
             matched(k) == {eq \in candidates : verdict(k)[eq] = "match"}
             matches(k) == {Match(k, c, eq) : eq \in matched(k)}
             exclusions(k) == {<<eq, verdict(k)[eq], IF verdict(k)[eq] = "points"
                                                     THEN Missing(k, c, eq) ELSE {}>> :
                                  eq \in candidates \ matched(k)}
  <1>1. candidates \subseteq Ids(g.entities) /\ h.entities = g.entities
    BY DEF Ids, OfKind, Attached
  <1>2. \A eq \in candidates : /\ Verdict(g, c, eq) = Verdict(h, c, eq)
                               /\ Missing(g, c, eq) = Missing(h, c, eq)
                               /\ Match(g, c, eq) = Match(h, c, eq)
    BY <1>1, VerdictSame
  <1>3. Preview(g, c) = [matches |-> matches(g), exclusions |-> exclusions(g)]
    BY DEF Preview
  <1>4. Preview(h, c) = [matches |-> matches(h), exclusions |-> exclusions(h)]
    BY <1>1 DEF Preview
  <1> HIDE DEF candidates
  <1>5. verdict(g) = verdict(h)
    BY <1>2
  <1> HIDE DEF verdict
  <1>6. matches(g) = matches(h)
    BY <1>2, <1>5
  <1>7. exclusions(g) = exclusions(h)
    BY <1>2, <1>5
  <1> QED BY <1>3, <1>4, <1>6, <1>7

-------------------------------------------------------------------------------
(* Selectors. *)

LEMMA NarrowConfig ==
    ASSUME WellFormedConfigs, NEW c \in Configs, NEW narrow \in Configs, Narrows(narrow, c)
    PROVE  /\ narrow.operating = c.operating /\ narrow.left = c.left
           /\ narrow.right = c.right /\ narrow.unit = c.unit
           /\ narrow.target.excluded = c.target.excluded
           /\ narrow.target.property = c.target.property
           /\ narrow.target.use = c.target.use
           /\ \A f \in Selectors : c.target[f] \in {{}, narrow.target[f]}
  <1>1. narrow = [c EXCEPT !.target = narrow.target]
    BY DEF Narrows
  <1>2. /\ narrow.operating = c.operating /\ narrow.left = c.left
        /\ narrow.right = c.right /\ narrow.unit = c.unit
    BY <1>1 DEF WellFormedConfigs
  <1>3. [narrow.target EXCEPT !.buildings = {}, !.floors = {}, !.zones = {}, !.rooms = {}] =
        [c.target EXCEPT !.buildings = {}, !.floors = {}, !.zones = {}, !.rooms = {}]
    BY DEF Narrows
  <1>4. \A f \in {"excluded", "property", "use"} :
          /\ f \in DOMAIN narrow.target /\ f \in DOMAIN c.target
          /\ f \notin {"buildings", "floors", "zones", "rooms"}
    BY DEF WellFormedConfigs
  <1>5. \A f \in {"excluded", "property", "use"} : narrow.target[f] = c.target[f]
    BY <1>3, <1>4
  <1>6. /\ narrow.target.excluded = c.target.excluded
        /\ narrow.target.property = c.target.property /\ narrow.target.use = c.target.use
    BY <1>5
  <1> QED BY <1>2, <1>6 DEF Narrows

LEMMA NarrowSelects ==
    ASSUME NEW wide, NEW narrow, wide \in {{}, narrow}, NEW id, Selects(narrow, id)
    PROVE  Selects(wide, id)
  BY DEF Selects

LEMMA NarrowPaths ==
    ASSUME NEW target, NEW narrow, narrow.property = target.property,
           narrow.use = target.use,
           target.buildings \in {{}, narrow.buildings}, target.floors \in {{}, narrow.floors},
           target.zones \in {{}, narrow.zones}, target.rooms \in {{}, narrow.rooms},
           NEW g, NEW eq
    PROVE  Paths(g, narrow, eq) \subseteq Paths(g, target, eq)
  <1>1. \A zone : SpaceInScope(g, narrow, zone) => SpaceInScope(g, target, zone)
    BY NarrowSelects DEF SpaceInScope
  <1>2. \A id : /\ Selects(narrow.buildings, id) => Selects(target.buildings, id)
                /\ Selects(narrow.floors, id) => Selects(target.floors, id)
                /\ Selects(narrow.zones, id) => Selects(target.zones, id)
    BY NarrowSelects
  <1> QED BY <1>1, <1>2 DEF Paths

LEMMA NarrowMatches ==
    ASSUME WellFormedConfigs, NEW c \in Configs, NEW narrow \in Configs, Narrows(narrow, c),
           NEW g, NEW eq, Verdict(g, narrow, eq) = "match"
    PROVE  Verdict(g, c, eq) \in {"match", "ownership"}
  <1>1. /\ narrow.operating = c.operating /\ narrow.left = c.left
        /\ narrow.right = c.right /\ narrow.unit = c.unit
        /\ narrow.target.excluded = c.target.excluded
    BY NarrowConfig
  <1>2. /\ Paths(g, narrow.target, eq) # {} /\ Missing(g, narrow, eq) = {}
        /\ eq \notin narrow.target.excluded /\ ~UnitMismatch(g, narrow, eq)
    BY VerdictIs
  <1>3. Paths(g, narrow.target, eq) \subseteq Paths(g, c.target, eq)
    <2>1. /\ narrow.target.property = c.target.property /\ narrow.target.use = c.target.use
          /\ \A f \in Selectors : c.target[f] \in {{}, narrow.target[f]}
      BY NarrowConfig
    <2>2. /\ c.target.buildings \in {{}, narrow.target.buildings}
          /\ c.target.floors \in {{}, narrow.target.floors}
          /\ c.target.zones \in {{}, narrow.target.zones}
          /\ c.target.rooms \in {{}, narrow.target.rooms}
      BY <2>1 DEF Selectors
    <2> QED BY <2>1, <2>2, NarrowPaths
  <1>4. Missing(g, c, eq) = Missing(g, narrow, eq)
        /\ (UnitMismatch(g, c, eq) <=> UnitMismatch(g, narrow, eq))
    BY <1>1 DEF Missing, UnitMismatch, Classes
  <1>5. Verdict(g, c, eq) # "points"
    BY <1>2, <1>4, VerdictIs
  <1> QED BY <1>1, <1>2, <1>3, <1>4, <1>5, VerdictIs

-------------------------------------------------------------------------------
(* Imports. *)

Imports == Payloads \cup {Inventory(r) : r \in Registers}

\* The pieces an inventory of a pack is made of.
FromRow(row, property, use, unit) ==
    [id |-> row.id, kind |-> row.kind, property |-> property, use |-> use, unit |-> unit,
     source |-> "candidate-starter-pack"]

OfSpaces(r) == {FromRow(row, row.property, row.use, None) : row \in r.spaces}
OfEquipment(r) == {FromRow(row, None, None, None) : row \in r.equipment}
OfPoints(r) == {FromRow(row, None, None, row.unit) : row \in r.points}

LEMMA InventoryParts ==
    ASSUME NEW r
    PROVE  /\ Inventory(r).entities = OfSpaces(r) \cup OfEquipment(r) \cup OfPoints(r)
           /\ Inventory(r).source = "candidate-starter-pack"
           /\ Ids(OfSpaces(r)) = Ids(r.spaces)
           /\ Ids(OfEquipment(r)) = Ids(r.equipment)
           /\ Ids(OfPoints(r)) = Ids(r.points)
           /\ Ids(Inventory(r).entities) = Ids(r.spaces) \cup Ids(r.equipment) \cup Ids(r.points)
           /\ \A e \in Inventory(r).entities : e.source = "candidate-starter-pack"
  <1>1. /\ Inventory(r).entities = OfSpaces(r) \cup OfEquipment(r) \cup OfPoints(r)
        /\ Inventory(r).source = "candidate-starter-pack"
    BY DEF Inventory, OfSpaces, OfEquipment, OfPoints, FromRow
  <1>2. \A row, property, use, unit :
           /\ FromRow(row, property, use, unit).id = row.id
           /\ FromRow(row, property, use, unit).source = "candidate-starter-pack"
    BY DEF FromRow
  <1>3. /\ Ids(OfSpaces(r)) = Ids(r.spaces)
        /\ Ids(OfEquipment(r)) = Ids(r.equipment)
        /\ Ids(OfPoints(r)) = Ids(r.points)
    BY <1>2 DEF Ids, OfSpaces, OfEquipment, OfPoints
  <1>4. \A e \in OfSpaces(r) \cup OfEquipment(r) \cup OfPoints(r) :
           e.source = "candidate-starter-pack"
    BY <1>2 DEF OfSpaces, OfEquipment, OfPoints
  <1>5. \A S, T : Ids(S \cup T) = Ids(S) \cup Ids(T)
    BY DEF Ids
  <1>6. Ids(OfSpaces(r) \cup OfEquipment(r) \cup OfPoints(r))
          = (Ids(OfSpaces(r)) \cup Ids(OfEquipment(r))) \cup Ids(OfPoints(r))
    <2>1. Ids((OfSpaces(r) \cup OfEquipment(r)) \cup OfPoints(r))
            = Ids(OfSpaces(r) \cup OfEquipment(r)) \cup Ids(OfPoints(r))
      BY <1>5
    <2>2. Ids(OfSpaces(r) \cup OfEquipment(r)) = Ids(OfSpaces(r)) \cup Ids(OfEquipment(r))
      BY <1>5
    <2> QED BY <2>1, <2>2
  <1>7. Ids(Inventory(r).entities) = Ids(r.spaces) \cup Ids(r.equipment) \cup Ids(r.points)
    BY <1>1, <1>3, <1>6
  <1>8. \A e \in Inventory(r).entities : e.source = "candidate-starter-pack"
    BY <1>1, <1>4
  <1> QED BY <1>1, <1>3, <1>7, <1>8

LEMMA InventoryFinite ==
    ASSUME WellFormedRegisters, NEW r \in Registers
    PROVE  IsFiniteSet(Inventory(r).entities)
  <1>1. IsFiniteSet(r.spaces) /\ IsFiniteSet(r.equipment) /\ IsFiniteSet(r.points)
    BY DEF WellFormedRegisters
  <1>2. IsFiniteSet(OfSpaces(r))
    <2> DEFINE f == [row \in r.spaces |-> FromRow(row, row.property, row.use, None)]
    <2>1. f \in Surjection(r.spaces, OfSpaces(r))
      BY DEF Surjection, OfSpaces
    <2> QED BY <1>1, <2>1, FS_Surjection
  <1>3. IsFiniteSet(OfEquipment(r))
    <2> DEFINE f == [row \in r.equipment |-> FromRow(row, None, None, None)]
    <2>1. f \in Surjection(r.equipment, OfEquipment(r))
      BY DEF Surjection, OfEquipment
    <2> QED BY <1>1, <2>1, FS_Surjection
  <1>4. IsFiniteSet(OfPoints(r))
    <2> DEFINE f == [row \in r.points |-> FromRow(row, None, None, row.unit)]
    <2>1. f \in Surjection(r.points, OfPoints(r))
      BY DEF Surjection, OfPoints
    <2> QED BY <1>1, <2>1, FS_Surjection
  <1>5. IsFiniteSet(OfSpaces(r) \cup OfEquipment(r))
    BY <1>2, <1>3, FS_Union, Zenon
  <1>6. IsFiniteSet((OfSpaces(r) \cup OfEquipment(r)) \cup OfPoints(r))
    BY <1>4, <1>5, FS_Union, Zenon
  <1>7. Inventory(r).entities = (OfSpaces(r) \cup OfEquipment(r)) \cup OfPoints(r)
    BY InventoryParts
  <1> QED BY <1>6, <1>7

\* Whatever is imported says where it comes from, and is finite.
LEMMA ImportsWellFormed ==
    ASSUME WellFormedPayloads, WellFormedRegisters, NEW payload \in Imports
    PROVE  IsFiniteSet(payload.entities) /\ \A e \in payload.entities : e.source = payload.source
  <1>1. CASE payload \in Payloads
    BY <1>1 DEF WellFormedPayloads
  <1>2. CASE payload \in {Inventory(r) : r \in Registers}
    BY <1>2, InventoryParts, InventoryFinite
  <1> QED BY <1>1, <1>2 DEF Imports

\* An identity of a pack means one row.
LEMMA PackIdentified ==
    ASSUME WellFormedRegisters, NEW r \in Registers
    PROVE  \A e, other \in Inventory(r).entities : e.id = other.id => e = other
  <1>1. /\ Identified(OfSpaces(r)) /\ Identified(OfEquipment(r)) /\ Identified(OfPoints(r))
    BY DEF WellFormedRegisters, Identified, OfSpaces, OfEquipment, OfPoints, FromRow
  <1>2. /\ Ids(r.spaces) \cap Ids(r.equipment) = {} /\ Ids(r.spaces) \cap Ids(r.points) = {}
        /\ Ids(r.equipment) \cap Ids(r.points) = {}
    BY DEF WellFormedRegisters
  <1>3. /\ \A e \in OfSpaces(r) : e.id \in Ids(r.spaces)
        /\ \A e \in OfEquipment(r) : e.id \in Ids(r.equipment)
        /\ \A e \in OfPoints(r) : e.id \in Ids(r.points)
    BY InventoryParts DEF Ids
  <1> QED BY <1>1, <1>2, <1>3, InventoryParts DEF Identified

\* The references of a pack that are not blank lead to rows of it.
LEMMA PackConnected ==
    ASSUME WellFormedRegisters, NEW r \in Registers
    PROVE  \A edge \in Inventory(r).edges :
              {edge[1], edge[3]} \subseteq Ids(Inventory(r).entities) /\ edge[2] \in Relations
  <1> DEFINE ids == Ids(r.spaces) \cup Ids(r.equipment) \cup Ids(r.points)
  <1>1. /\ \A row \in r.spaces : row.id \in ids
        /\ \A row \in r.equipment : row.id \in ids
        /\ \A row \in r.points : row.id \in ids
    BY DEF Ids
  <1>2. /\ \A row \in r.spaces : row.parent \in ids \cup {None}
        /\ \A row \in r.equipment : {row.installed, row.served, row.measured} \subseteq ids \cup {None}
        /\ \A row \in r.points : row.equipment \in ids
    BY DEF WellFormedRegisters
  <1> HIDE DEF ids
  <1> SUFFICES ASSUME NEW edge \in Inventory(r).edges
               PROVE  edge[1] \in ids /\ edge[3] \in ids /\ edge[2] \in Relations
    BY InventoryParts DEF ids
  <1>3. \/ \E row \in r.spaces : /\ row.parent # None
                                 /\ edge \in Relation(row.parent, "hasPart", row.id)
        \/ \E row \in r.equipment : \/ edge \in Relation(row.id, "hasLocation", row.installed)
                                    \/ edge \in Relation(row.id, "feeds", row.served)
                                    \/ edge \in Relation(row.id, "measuresSpace", row.measured)
        \/ \E row \in r.points : edge \in Relation(row.equipment, "hasPoint", row.id)
    BY DEF Inventory
  <1>4. ASSUME NEW source, NEW relation \in Relations, NEW target,
               edge \in Relation(source, relation, target),
               source \in ids, target \in ids \cup {None}
        PROVE  edge[1] \in ids /\ edge[3] \in ids /\ edge[2] \in Relations
    BY <1>4 DEF Relation
  <1>5. {"hasPart", "hasPoint", "hasLocation", "feeds", "measuresSpace"} \subseteq Relations
    BY DEF Relations
  <1> QED BY <1>1, <1>2, <1>3, <1>4, <1>5

-------------------------------------------------------------------------------
(* The inductive invariant. *)

\* InventoryInOrder without its count: all entities come from one source.
InOrder(g) ==
    /\ IsFiniteSet(g.entities)
    /\ \A e, other \in g.entities : e.id = other.id => e = other
    /\ \A edge \in g.edges : {edge[1], edge[3]} \subseteq Ids(g.entities)
    /\ \A e, other \in g.entities : e.source = other.source

\* The preview the reviewer has seen is one of what, since, the inventory g grew from.
SeenBefore(g) == \E seen : shown = Preview(seen, config) /\ Grows(seen, g)

\* What a reader has seen stays in the inventory, and what a reviewer has seen is
\* there when the activation begins to read: the activation finds the inventory
\* it starts from between what was reviewed and what it reads itself.
IInv ==
    /\ InOrder(graph)
    /\ reader # None => Grows(reader, graph)
    /\ shown # None => SeenBefore(graph)
    /\ reader # None /\ purpose = "activate" => SeenBefore(reader)

LEMMA InOrderCounts ==
    ASSUME InOrder(graph)
    PROVE  InventoryInOrder
  <1> DEFINE sources == {e.source : e \in graph.entities}
  <1>1. sources = {} \/ \E x : sources = {x}
    BY DEF InOrder
  <1> HIDE DEF sources
  <1>2. Cardinality(sources) <= 1
    <2>1. Cardinality({}) = 0 /\ \A x : Cardinality({x}) = 1
      BY FS_EmptySet, FS_Singleton
    <2> QED BY <1>1, <2>1
  <1> USE DEF sources
  <1> QED BY <1>2 DEF InOrder, InventoryInOrder

LEMMA GrownInOrder ==
    ASSUME WellFormedPayloads, WellFormedRegisters, NEW payload \in Imports,
           InOrder(graph), Accepted(payload)
    PROVE  InOrder(Grown(payload)) /\ Grows(graph, Grown(payload))
  <1> DEFINE g == Grown(payload)
  <1>1. IsFiniteSet(payload.entities) /\ \A e \in payload.entities : e.source = payload.source
    BY ImportsWellFormed
  <1>2. /\ g.entities = graph.entities \cup payload.entities
        /\ g.edges = graph.edges \cup payload.edges
    BY DEF Grown
  <1> HIDE DEF g
  <1>3. IsFiniteSet(g.entities)
    <2>1. IsFiniteSet(graph.entities)
      BY DEF InOrder
    <2>2. IsFiniteSet(graph.entities \cup payload.entities)
      BY <1>1, <2>1, FS_Union
    <2> QED BY <1>2, <2>2
  <1>4. \A e, other \in g.entities : e.id = other.id => e = other
    BY <1>2 DEF InOrder, Accepted, Unchanged
  <1>5. \A edge \in g.edges : {edge[1], edge[3]} \subseteq Ids(g.entities)
    BY <1>2 DEF InOrder, Accepted, Ids
  <1>6. \A e, other \in g.entities : e.source = other.source
    BY <1>1, <1>2 DEF InOrder, Accepted
  <1> QED BY <1>2, <1>3, <1>4, <1>5, <1>6 DEF InOrder, Grows, g

LEMMA Invariance ==
    ASSUME WellFormedPayloads, WellFormedRegisters, IInv, [Next]_vars
    PROVE  IInv'
  <1>1. ASSUME NEW payload \in Payloads \cup {Inventory(r) : r \in Registers}, Import(payload)
        PROVE  IInv'
    <2>1. InOrder(Grown(payload)) /\ Grows(graph, Grown(payload))
      BY <1>1, GrownInOrder DEF IInv, Import, Imports
    <2>2. graph' = Grown(payload) /\ UNCHANGED <<config, shown, reader, purpose>>
      BY <1>1 DEF Import
    <2>3. ASSUME shown # None PROVE SeenBefore(graph)'
      <3>1. PICK seen : shown = Preview(seen, config) /\ Grows(seen, graph)
        BY <2>3 DEF IInv, SeenBefore
      <3>2. Grows(seen, Grown(payload))
        BY <2>1, <3>1 DEF Grows
      <3> QED BY <2>2, <3>1, <3>2 DEF SeenBefore
    <2>4. InOrder(graph)' /\ (reader # None => Grows(reader, graph))'
      BY <2>1, <2>2 DEF IInv, Grows
    <2>5. (reader # None /\ purpose = "activate" => SeenBefore(reader))'
      BY <2>2 DEF IInv, SeenBefore
    <2> QED BY <2>2, <2>3, <2>4, <2>5 DEF IInv
  <1>2. ASSUME NEW why, Read(why) PROVE IInv'
    <2>1. /\ reader' = graph /\ purpose' = why /\ (why = "activate" => shown # None)
          /\ UNCHANGED <<graph, config, shown>>
      BY <1>2 DEF Read
    <2>2. SeenBefore(graph)' <=> SeenBefore(graph)
      BY <2>1 DEF SeenBefore
    <2>3. SeenBefore(reader)' <=> SeenBefore(graph)
      BY <2>1 DEF SeenBefore
    <2> QED BY <2>1, <2>2, <2>3 DEF IInv, Grows
  <1>3. ASSUME reader # None, Review PROVE IInv'
    <2>1. /\ shown' = Preview(Loaded(reader), config) /\ reader' = None
          /\ UNCHANGED <<graph, config>>
      BY <1>3 DEF Review
    <2>2. Grows(Loaded(reader), graph)
      BY <1>3 DEF IInv, Grows, Loaded
    <2>3. SeenBefore(graph)'
      BY <2>1, <2>2 DEF SeenBefore
    <2> QED BY <2>1, <2>3 DEF IInv
  <1>4. ASSUME Activate PROVE IInv'
    <2>1. reader' = None /\ UNCHANGED <<graph, config, shown>>
      BY <1>4 DEF Activate
    <2> QED BY <2>1 DEF IInv, SeenBefore
  <1>5. CASE UNCHANGED vars
    BY <1>5 DEF IInv, SeenBefore, vars
  <1> QED BY <1>1, <1>2, <1>3, <1>4, <1>5 DEF Next

\* The inventory is in order, what a reader saw of it is still there, and what a
\* reviewer saw is there for the activation, in every state that imports and
\* activations reach (seed.py:79-114; ontology.py:24-36; rules.py:68-77).
THEOREM InductiveInvariant ==
    ASSUME WellFormedPayloads, WellFormedRegisters
    PROVE  Spec => []IInv
  <1>1. Init => IInv
    BY FS_EmptySet DEF Init, IInv, InOrder, Ids
  <1>2. IInv /\ [Next]_vars => IInv'
    BY Invariance
  <1> QED BY <1>1, <1>2, PTL DEF Spec

\* InventoryInOrder, for any files and packs: whatever is imported in whatever
\* order, an identity means one entity, every edge leads from one to another, and
\* inventories of two sources are never mixed (seed.py:79-108).
THEOREM InventoryStaysInOrder ==
    ASSUME WellFormedPayloads, WellFormedRegisters
    PROVE  Spec => []InventoryInOrder
  <1>1. IInv => InventoryInOrder
    BY InOrderCounts DEF IInv
  <1> QED BY <1>1, InductiveInvariant, PTL

\* PackImports, for any packs: an import of a pack into an empty inventory, or
\* over itself, is never refused (starter_pack.py:33-35; seed.py:95-100).
THEOREM PacksAlwaysImport ==
    ASSUME WellFormedPayloads, WellFormedRegisters
    PROVE  Spec => []PackImports
  <1>1. ASSUME IInv, NEW r \in Registers,
               graph.entities = {} \/ Inventory(r).entities \subseteq graph.entities
        PROVE  Accepted(Inventory(r))
    <2>1. \A e, other \in Inventory(r).entities : e.id = other.id => e = other
      BY PackIdentified
    <2>2. \A edge \in Inventory(r).edges :
             {edge[1], edge[3]} \subseteq Ids(Inventory(r).entities) /\ edge[2] \in Relations
      BY PackConnected
    <2>3. graph.entities # {} => Inventory(r).source \in {e.source : e \in graph.entities}
      <3>1. PICK row \in r.spaces : TRUE
        BY DEF WellFormedRegisters
      <3>2. FromRow(row, row.property, row.use, None) \in Inventory(r).entities
        BY InventoryParts DEF OfSpaces
      <3> QED BY <1>1, <3>2, InventoryParts
    <2>4. Unchanged(Inventory(r))
      BY <1>1 DEF Unchanged, IInv, InOrder
    <2> QED BY <2>1, <2>2, <2>3, <2>4 DEF Accepted
  <1>2. IInv => PackImports
    BY <1>1 DEF PackImports
  <1> QED BY <1>2, InductiveInvariant, PTL

\* TornReadHarmless, for any inventories and configurations: an import that only
\* attaches new entities between the two queries of a reader shows nothing of
\* itself (persistence/ontology.py:7-8).
THEOREM TornReadsHarmless ==
    ASSUME WellFormedPayloads, WellFormedRegisters
    PROVE  Spec => []TornReadHarmless
  <1>1. ASSUME IInv, reader # None, OnlyAttached(reader)
        PROVE  Preview(Loaded(reader), config) = Preview(reader, config)
    <2>1. Attached(reader, Loaded(reader))
      BY <1>1 DEF IInv, Grows, OnlyAttached, Attached, Loaded
    <2> QED BY <2>1, PreviewSame
  <1>2. IInv => TornReadHarmless
    BY <1>1 DEF TornReadHarmless
  <1> QED BY <1>2, InductiveInvariant, PTL

\* NarrowingOnlyDisambiguates, for any inventory and configurations: a selector
\* that is filled in adds no equipment but what several buildings owned
\* (ontology.py:68-117).
THEOREM NarrowingDisambiguates ==
    ASSUME WellFormedConfigs
    PROVE  Spec => []NarrowingOnlyDisambiguates
  <1>1. NarrowingOnlyDisambiguates
    BY NarrowMatches DEF NarrowingOnlyDisambiguates
  <1> QED BY <1>1, PTL

\* GrowthOnlyAmbiguates, for any imports and configurations: equipment that a rule
\* targets is never taken out of its scope by an import (ontology.py:53-141).
THEOREM GrowthAmbiguates ==
    ASSUME WellFormedPayloads, WellFormedRegisters
    PROVE  Spec => GrowthOnlyAmbiguates
  <1> DEFINE Step == \A c \in Configs : \A eq \in DOMAIN Verdicts(graph, c) :
                        Verdict(graph, c, eq) = "match" =>
                            Verdict(graph', c, eq) \in {"match", "points", "ownership"}
  <1>1. ASSUME IInv, IInv', [Next]_vars PROVE [Step]_graph
    <2>1. ASSUME NEW payload \in Payloads \cup {Inventory(r) : r \in Registers}, Import(payload)
          PROVE  Step
      <3>1. Grows(graph, graph')
        <4>1. payload \in Imports /\ InOrder(graph) /\ Accepted(payload)
          BY <1>1, <2>1 DEF IInv, Import, Imports
        <4>2. Grows(graph, Grown(payload))
          BY <4>1, GrownInOrder
        <4> QED BY <2>1, <4>2 DEF Import
      <3>2. IsFiniteSet(graph'.entities)
        BY <1>1 DEF IInv, InOrder
      <3> QED BY <3>1, <3>2, MatchGrows
    <2>2. ASSUME graph' # graph
          PROVE  \E payload \in Payloads \cup {Inventory(r) : r \in Registers} : Import(payload)
      BY <1>1, <2>2 DEF Next, vars, Read, Review, Activate
    <2> QED BY <2>1, <2>2
  <1>2. IInv /\ IInv' /\ [Next]_vars => [Step]_graph
    BY <1>1
  <1> QED BY <1>2, InductiveInvariant, PTL DEF Spec, GrowthOnlyAmbiguates

\* ActivatedWhole, for any imports and configurations: what a version enters
\* service with was reviewed, and holds, but for the lack of points, in the
\* inventory as it was committed when its activation began, whatever is imported
\* between the queries of the review and of the activation (rules.py:68-77).
THEOREM ActivationIsWhole ==
    ASSUME WellFormedPayloads, WellFormedRegisters
    PROVE  Spec => ActivatedWhole
  <1>1. ASSUME IInv, [Next]_vars, status' # status
        PROVE  active' = shown /\ Holds(shown, reader)
    <2>1. reader # None /\ Activate
      BY <1>1 DEF Next, vars, Import, Read, Review
    <2>2. /\ active' = shown /\ shown = Preview(Loaded(reader), config)
          /\ purpose = "activate"
      BY <1>1, <2>1 DEF Activate, Confirmed
    <2>3. PICK seen : shown = Preview(seen, config) /\ Grows(seen, reader)
      BY <1>1, <2>1, <2>2 DEF IInv, SeenBefore
    <2>4. Between(seen, reader, Loaded(reader))
      <3>1. Grows(reader, graph) /\ InOrder(graph)
        BY <1>1, <2>1 DEF IInv
      <3>2. Grows(reader, Loaded(reader))
        BY <3>1 DEF Grows, Loaded
      <3>3. IsFiniteSet(Loaded(reader).entities) /\ Identified(Loaded(reader).entities)
        BY <3>1, FS_Subset DEF Grows, InOrder, Loaded, Identified
      <3> QED BY <2>3, <3>2, <3>3 DEF Between
    <2>5. Holds(shown, reader)
      BY <2>2, <2>3, <2>4, PreviewBetween DEF Holds
    <2> QED BY <2>2, <2>5
  <1>2. IInv /\ [Next]_vars =>
            [status' # status => active' = shown /\ Holds(shown, reader)]_vars
    BY <1>1
  <1> QED BY <1>2, InductiveInvariant, PTL DEF Spec, ActivatedWhole
==============================================================================
