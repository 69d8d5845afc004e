----------------------------- MODULE Registries -----------------------------
(***************************************************************************)
(* GET /v1/related/entity, as far as Home Assistant's registries answer it *)
(* (Related has the automations).  r.configs[e] are the config entries     *)
(* entity e belongs to, r.device[e] its device, r.mentions[c] the known    *)
(* ids that occur in config entry c, r.nodes the sets of known entities    *)
(* under each collection of the resolved configuration.                    *)
(***************************************************************************)
EXTENDS Naturals, FiniteSets

CONSTANTS PairLimit \* entities of one collection that are still paired

GeneratedBy(r, c) == {e \in DOMAIN r.configs : c \in r.configs[e]}

\* Mutant of EntityRefs: what an entry created counts as what it refers to.
EntityRefsWithOwn(r, c) == r.mentions[c] \cap DOMAIN r.configs

\* config_entry_entity_refs and config_entry_device_refs.
EntityRefs(r, c) == (r.mentions[c] \cap DOMAIN r.configs) \ GeneratedBy(r, c)
DeviceRefs(r, c) == {e \in DOMAIN r.device : r.device[e] \in r.mentions[c]}

\* _yaml_entity_pairs: collections of many entities say nothing about a pair.
YamlPaired(r, e) == UNION {n \in r.nodes : e \in n /\ Cardinality(n) <= PairLimit}

\* related_to_entity, without the automations.
RelatedToEntity(r, entity) ==
  LET via(es, relationship, c) ==
        {[entity |-> e, relationship |-> relationship, detail |-> c] : e \in es \ {entity}}
      configs == DOMAIN r.mentions
  IN  UNION ({via(GeneratedBy(r, c), "config-entry-reference", c) :
                c \in {d \in configs : entity \in EntityRefs(r, d)}}
             \cup {via(EntityRefs(r, c), "referenced-entity", c) : c \in r.configs[entity]}
             \cup {via(DeviceRefs(r, c), "device-reference", c) : c \in r.configs[entity]}
             \cup {via(YamlPaired(r, entity), "yaml-reference", "configuration.yaml")})

-----------------------------------------------------------------------------
(* Properties of the registries *)

\* Asked from either end, a reference is reported: who is told that b refers to
\* it is who b is told it refers to, a pair in YAML is a pair both ways - and
\* what one entry created is nobody's reference to that entry.
RelationsAreMutual(r) ==
  \A a, b \in DOMAIN r.configs :
    LET says(x, y, relationship, c) ==
          [entity |-> y, relationship |-> relationship, detail |-> c] \in RelatedToEntity(r, x)
    IN  /\ \A c \in DOMAIN r.mentions :
             says(a, b, "config-entry-reference", c) <=> says(b, a, "referenced-entity", c)
        /\ says(a, b, "yaml-reference", "configuration.yaml")
             <=> says(b, a, "yaml-reference", "configuration.yaml")
        /\ \A c \in r.configs[a] \cap r.configs[b] : ~says(a, b, "referenced-entity", c)
=============================================================================
