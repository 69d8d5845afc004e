------------------------------ MODULE Overlap -------------------------------
(***************************************************************************)
(* Requests that overlap as they like: on one tunnel, on one template      *)
(* file, on the files of scripts and helpers.  The three share no state;   *)
(* the initial state says which one a behaviour is about, and the others   *)
(* stay as they are.                                                       *)
(***************************************************************************)
EXTENDS WgTunnel, FiniteSets

CONSTANTS
  Slots,                                             \* request slots of the stores
  EntityDomains, Item, Full, MaxBlocks,              \* TemplateStore
  Script, Helpers, Slug, Keyed, KeyedFirst, Ui, Movable, MaxEntries \* MappingStore

VARIABLES
  focus,
  tFile, tStates, tReq, tEdited, \* TemplateStore
  mInclude, mHeld, mReq, mMade   \* MappingStore

Templates == INSTANCE TemplateStore WITH Reqs <- Slots, Domain <- EntityDomains,
  file <- tFile, states <- tStates, req <- tReq, edited <- tEdited

Mappings == INSTANCE MappingStore WITH Reqs <- Slots,
  include <- mInclude, held <- mHeld, req <- mReq, made <- mMade

\* ?domain= is a template domain; a full block of a POST has a domain key.
ASSUME ItemAssumption == \A i \in Item : i.dom \in EntityDomains
ASSUME FullAssumption == \A b \in Full : b \in Templates!Block /\ b.keys # {}

\* ALLOWED_DOMAINS: scripts are not helpers, and no domain is called an answer.
ASSUME HelpersAssumption ==
  /\ Script \notin Helpers /\ {"missing", "conflict"} \cap Helpers = {}
  /\ Keyed \subseteq Helpers /\ IsFiniteSet(Ui)

ASSUME BoundAssumption == {MaxBlocks, MaxEntries} \subseteq Nat

ASSUME MovableAssumption == Movable \subseteq {Script} \cup Helpers

-----------------------------------------------------------------------------

templVars == <<tFile, tStates, tReq, tEdited>>
mapVars   == <<mInclude, mHeld, mReq, mMade>>
allVars   == <<focus, vars, templVars, mapVars>>

\* At rest: what a component is while another one is looked at.
TunnelRests == Init /\ persist = NoConf
TemplRests  == /\ tFile = <<>> /\ tStates = {}
               /\ tReq = [r \in Slots |-> Templates!Idle] /\ tEdited = {}
MapRests    == /\ mInclude = [d \in Mappings!Domain |-> "none"] /\ mHeld = [c \in {} |-> "old"]
               /\ mReq = [r \in Slots |-> Mappings!Idle] /\ mMade = {}

OverlapInit ==
  /\ focus \in {"tunnel", "templates", "mappings"}
  /\ IF focus = "tunnel"    THEN Init           ELSE TunnelRests
  /\ IF focus = "templates" THEN Templates!Init ELSE TemplRests
  /\ IF focus = "mappings"  THEN Mappings!Init  ELSE MapRests

OverlapNext ==
  /\ UNCHANGED focus
  /\ \/ focus = "tunnel" /\ Next /\ UNCHANGED <<templVars, mapVars>>
     \/ focus = "templates" /\ Templates!Next /\ UNCHANGED <<vars, mapVars>>
     \/ focus = "mappings" /\ Mappings!SteadyNext /\ UNCHANGED <<vars, templVars>>

OverlapSpec == OverlapInit /\ [][OverlapNext]_allVars

-----------------------------------------------------------------------------
(* The stores' properties; WgTunnel's own are in its module *)

\* The stores keep their types; no template block outlives its last domain key;
\* GET, PUT and DELETE of helpers agree on what is there.
StoresAreSound ==
  /\ Templates!TypeOK /\ Templates!NoOrphanedBlock
  /\ Mappings!TypeOK /\ Mappings!ReadsAndWritesAgree

\* C-14, in the callers' terms: each request creates, changes or deletes what it
\* names and nothing else - the stores implement Catalog - only a body brings a
\* unique_id in twice, and nothing that stands under a key is spliced.
StoresAreCatalogs ==
  /\ Templates!TemplatesAreACatalog /\ Templates!UniqueUids
  /\ Mappings!EntriesAreACatalog /\ Mappings!KeyedUntouched

\* C-13: a template create takes down no entity but its own.
CreatesDarkenNobody == Templates!CreatesDarkenNobody

\* C-10: what was created is in a file HA reads.
CreatedIsRead == Mappings!CreatedIsRead
=============================================================================
