------------------------------ MODULE Deployment -----------------------------
(***************************************************************************)
(* The portal from its first start (docker-compose.yml): commands of the   *)
(* operator and the container "init" bring the database to the head        *)
(* revision (module Schema); then the API serves the ontology registry     *)
(* (Registry), rule authoring (Authoring) and the dashboard (Review).      *)
(*                                                                         *)
(* Each of the three has its own view of the rules and writes nothing the  *)
(* others read here, so that a behaviour follows one of them.              *)
(***************************************************************************)
EXTENDS Naturals

CONSTANTS
    Commands, MaxCrashes,         \* Schema, and the crashes of Authoring
    Payloads, Registers, Configs, \* Registry
    Requests,                     \* Authoring
    Versions, Saved, Screens,     \* Review; Screens are its configurations
    None

VARIABLES
    serving,                   \* what is followed, "nothing" before the start
    store, migration, aborted, \* Schema
    graph, config, status, shown, active, reader, purpose,
    stored, drafts, record, pc, attempt, errors, result, fed, crashes,
    versions, snapshot, requests, selected, editor, preview, confirmed, ticked,
    aiResult, op

schema == <<store, migration, aborted>>
registry == <<graph, config, status, shown, active, reader, purpose>>
authoring == <<stored, drafts, record, pc, attempt, errors, result, fed, crashes>>
dashboard == <<versions, snapshot, requests, selected, editor, preview,
               confirmed, ticked, aiResult, op>>
vars == <<serving, schema, registry, authoring, dashboard>>

Db == INSTANCE Schema WITH pc <- migration, crashes <- aborted
Reg == INSTANCE Registry
Auth == INSTANCE Authoring WITH versions <- drafts
Dash == INSTANCE Review WITH Configs <- Screens

ASSUME PayloadsAssumption == Reg!WellFormedPayloads
ASSUME RegistersAssumption == Reg!WellFormedRegisters
ASSUME ConfigsAssumption == Reg!WellFormedConfigs
ASSUME NoneAssumption == None \notin Auth!Results \cup Auth!Drafts \cup {"DRAFT", "ACTIVE"}

Init ==
    /\ serving = "nothing"
    /\ Db!Init /\ Reg!Init /\ Auth!Init /\ Dash!Init

\* Before the start.
Setup(step) ==
    /\ serving = "nothing"
    /\ step
    /\ UNCHANGED <<serving, registry, authoring, dashboard>>

\* The API starts when no command is under way, on the head revision only.  The
\* configuration under review matters to the registry alone.
Start(service) ==
    /\ serving = "nothing" /\ migration = "idle"
    /\ store.revision = Db!Head
    /\ service # "registry" => config = CHOOSE c \in Configs : TRUE
    /\ serving' = service
    /\ aborted' = 0  \* bounds the crashes before the start
    /\ UNCHANGED <<store, migration, registry, authoring, dashboard>>

Inventory(step) ==
    /\ serving = "registry"
    /\ step
    /\ UNCHANGED <<serving, schema, authoring, dashboard>>

Author(step) ==
    /\ serving = "authoring"
    /\ step
    /\ UNCHANGED <<serving, schema, registry, dashboard>>

Screen(step) ==
    /\ serving = "dashboard"
    /\ step
    /\ UNCHANGED <<serving, schema, registry, authoring>>

Next ==
    \/ Setup(Db!Next)
    \/ \E service \in {"registry", "authoring", "dashboard"} : Start(service)
    \/ Inventory(Reg!Next) \/ Author(Auth!Next) \/ Screen(Dash!Next)

Spec == Init /\ [][Next]_vars

\* The operator gives migrate until it succeeds and removes repeated history, on
\* which migrate fails; calls are answered or end in a timeout, and the processes
\* and the browser go on.
FairSpec ==
    /\ Spec
    /\ WF_vars(Setup(Db!Run)) /\ WF_vars(Setup(Db!Repair))
    /\ SF_vars(Setup(Db!Migrate))
    /\ \A r \in Requests : WF_vars(Author(Auth!AuthorStep(r)))
    /\ WF_vars(Screen(Dash!Serve \/ Dash!Respond \/ Dash!Refused))
    /\ WF_vars(Screen(\E r \in requests : Dash!Read(r) \/ Dash!Load(r)))

-------------------------------------------------------------------------------
(* Properties of the parts, in the deployment. *)

\* A recorded revision means the schema of that revision, and what was stamped
\* can be migrated, whatever the database was before and wherever commands were
\* cut off (schema.py:50-121; docs/architecture.md:66).
SchemaSound == Db!RevisionTruthful /\ Db!StampedIsUpgradable

\* Reset went down: a table of revisions without a revision.
WentDown == store.versioned /\ store.revision = 0

\* Migrate, given again after every crash, brings each database the program ever
\* made to the head, as the operator removes repeated history, on which it fails
\* (FairSpec); only a reset is not taken up by it (schema.py:103-121).
EventuallyHead == Db!Supported ~> store.revision = Db!Head \/ WentDown

\* Whatever is imported, in any order and between the queries of a reader: the
\* inventory stays in order, the pack can be imported again, a reader never sees
\* new equipment in part, and filling in a selector adds nothing
\* (seed.py:79-114; persistence/ontology.py:7-8; ontology.py:53-146).
RegistrySound ==
    /\ Reg!InventoryInOrder /\ Reg!PackImports
    /\ Reg!TornReadHarmless /\ Reg!NarrowingOnlyDisambiguates

\* A version enters service with the preview its reviewer saw, and what it shows,
\* but for the equipment that lacks points, holds in the inventory that was
\* committed when its activation began (rules.py:68-77; docs/afdd.md:13).
ActivatedWhole == Reg!ActivatedWhole

\* An import never takes equipment out of a rule's scope: a match stays one, or
\* what was imported made it ambiguous (ontology.py:53-141).
GrowthOnlyAmbiguates == Reg!GrowthOnlyAmbiguates

\* What the row of an authoring request tells is so, with activations and
\* crashes between any two of its transactions: its state is that of the last
\* attempt, its draft exists with all of its evidence and is the only one, and a
\* second attempt had a reason and the errors of the first (ai.py:104-195).
RequestTruthful ==
    /\ Auth!StopExplained /\ Auth!RetryJustified
    /\ Auth!DraftEvidenced /\ Auth!OneKnownDraft

\* The row of a request tells its end sooner or later, unless its process ends
\* (ai.py:135, :192-194).
EventuallyStops == Auth!EventuallyStops

\* However late previews come and rules change on the screen, a version that the
\* dashboard puts in service is the one that was on the screen, with the preview
\* of its own configuration, when the reviewer ticked the box
\* (RuleDetail.tsx:84-89, :127-176, :185-218; rules.py:76; docs/afdd.md:13).
ActivatedAsReviewed == Dash!ActivatedAsReviewed

\* The workspace never goes back to an older state of a version, although polls
\* and operations refresh it at the same time (useWorkspaceData.ts:41-95).
SnapshotForward == Dash!SnapshotForward

\* The dashboard does not stay busy, also when the refresh of an operation is
\* aborted by a poll or fails (useWorkspaceController.ts:40-54).
BusyEnds == Dash!BusyEnds
===============================================================================
