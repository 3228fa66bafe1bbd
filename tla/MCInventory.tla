------------------------------ MODULE MCInventory ----------------------------
(* A small inventory, what may be imported into it, and four configurations. *)
CONSTANT None

Entity(id, kind) ==
    [id |-> id, kind |-> kind, property |-> None, use |-> None,
     unit |-> None, source |-> "candidate-starter-pack"]

Building(id) == [Entity(id, "Building") EXCEPT !.property = "office"]
Room(id, use) == [Entity(id, "Room") EXCEPT !.use = use]
Measure(id, kind) == [Entity(id, kind) EXCEPT !.unit = "C"]

Payload(entities, edges) ==
    [source |-> "candidate-starter-pack", entities |-> entities, edges |-> edges]

Space(id, kind, property, use, parent) ==
    [id |-> id, kind |-> kind, property |-> property, use |-> use, parent |-> parent]
PointRow(id, kind, unit) == [id |-> id, kind |-> kind, unit |-> unit, equipment |-> "a"]

\* An office building with an air handling unit that serves nothing yet.
Base ==
    [spaces |-> {Space("b1", "Building", "office", None, None),
                 Space("f1", "Floor", None, None, "b1"),
                 Space("z1", "HVAC_Zone", None, None, "f1"),
                 Space("r1", "Room", None, "tenant", "z1")},
     equipment |-> {[id |-> "a", kind |-> "AHU", installed |-> "r1",
                     served |-> None, measured |-> None]},
     points |-> {PointRow("run", "Run_Status", "bool"), PointRow("sat", "SAT", "C"),
                 PointRow("sp", "SP", "C")}]

B1 == Building("b1")
Z1 == Entity("z1", "HVAC_Zone")
Z2 == Entity("z2", "HVAC_Zone")
A == Entity("a", "AHU")

Feed == Payload({A, Z1}, {<<"a", "feeds", "z1">>})

\* It serves its zone and gets a second sensor, in one import.
FeedAndSensor ==
    Payload({A, Z1, Measure("sat2", "SAT")},
            {<<"a", "feeds", "z1">>, <<"a", "hasPoint", "sat2">>})

\* A second building, whose zone it serves, too.
Second ==
    Payload({Building("b2"), Entity("f2", "Floor"), Z2, Room("r2", "tenant"), A},
            {<<"b2", "hasPart", "f2">>, <<"f2", "hasPart", "z2">>,
             <<"z2", "hasPart", "r2">>, <<"a", "feeds", "z2">>})

Lobby == Payload({Z1, Room("r3", "lobby")}, {<<"z1", "hasPart", "r3">>})

\* Another unit in the plant room, with a setpoint in another unit.
Other ==
    Payload({Z1, Entity("a2", "AHU"), Room("plant", "plant"),
             Entity("run2", "Run_Status"), Measure("sat3", "SAT"),
             [Entity("sp3", "SP") EXCEPT !.unit = "F"]},
            {<<"a2", "feeds", "z1">>, <<"a2", "hasLocation", "plant">>,
             <<"a2", "hasPoint", "run2">>, <<"a2", "hasPoint", "sat3">>,
             <<"a2", "hasPoint", "sp3">>})

\* What is refused: a changed entity, an edge to nowhere, another source.
Changed == Payload({[B1 EXCEPT !.property = "retail"]}, {})
Dangling == Payload({A}, {<<"a", "feeds", "z9">>})
Synthetic ==
    [Payload({[Entity("demo", "Building") EXCEPT !.source = "synthetic"]}, {})
        EXCEPT !.source = "synthetic"]

Inventories ==
    {Feed, FeedAndSensor, Second, Lobby, Other, Changed, Dangling, Synthetic}

Bases == {Base}

Everywhere ==
    [buildings |-> {}, floors |-> {}, zones |-> {}, rooms |-> {}, excluded |-> {},
     property |-> "office", use |-> "tenant", equipmentType |-> "AHU"]

Config(target) ==
    [target |-> target, operating |-> "Run_Status", left |-> "SAT", right |-> "SP",
     unit |-> "C", overrides |-> [b \in {"b1"} |-> 4]]

Reviewed ==
    {Config(Everywhere),
     Config([Everywhere EXCEPT !.buildings = {"b1"}, !.floors = {"f1"},
                               !.zones = {"z1"}, !.rooms = {"r1"}]),
     Config([Everywhere EXCEPT !.rooms = {"r2"}, !.zones = {"z2"}]),
     Config([Everywhere EXCEPT !.excluded = {"a2"}])}
==============================================================================
