--------------------------- MODULE TemplateStore ---------------------------
(***************************************************************************)
(* The template routes.  The file is a list of blocks; a block holds       *)
(* entities under one or more domain keys, and may carry triggers.  A      *)
(* caller names an entity by its unique_id, which nothing keeps unique but *)
(* the routes; Home Assistant accepts or refuses a whole block             *)
(* (INVARIANTS.md, C-13); the file is rewritten one block at a time.       *)
(***************************************************************************)
EXTENDS Naturals, SequencesExt

CONSTANTS
  Reqs,      \* request slots
  Domain,    \* _ENTITY_DOMAINS
  Item,      \* entity items: [uid, name, dom: ?domain=, ok: does HA's schema accept it]
  Full,      \* the full blocks a POST body may be
  MaxBlocks  \* bound: the longest list

Uids   == {i.uid : i \in Item}
Entity == [dom : Domain, item : Item]

\* keys: the domain keys of the block.  list: its entities, in the order
\* _extract_entities walks them.  A key may have none.
Block == {b \in [trig : BOOLEAN, keys : SUBSET Domain, list : Seq(Entity)] :
            \A i \in DOMAIN b.list : b.list[i].dom \in b.keys}

VARIABLES
  file,   \* the list in the template file
  states, \* GET /api/states: [dom, uid, name, live]; not live: a restored ghost
  req,    \* req[r]: the handler in slot r
  edited  \* observation: what PUT and DELETE touched since HA last read the file

vars == <<file, states, req, edited>>

State == [dom : Domain, uid : Uids, name : {i.name : i \in Item}, live : BOOLEAN]

Idle == [pc |-> "idle"]

Reloading(made) == [pc |-> "reloading", made |-> made]

\* Mutant of Polling: an answer waits for entities when none is left.
PollingNothing(made) == [pc |-> "polling", made |-> made]
Polling(made) == IF made = {} THEN Idle ELSE [pc |-> "polling", made |-> made]

Requests == {Idle} \cup [pc : {"reloading"}, made : SUBSET Entity]
              \cup [pc : {"polling"}, made : (SUBSET Entity) \ {{}}]

TypeOK ==
  /\ file \in Seq(Block)
  /\ states \in SUBSET State
  /\ req \in [Reqs -> Requests]
  /\ edited \in SUBSET (Domain \X Uids)

-----------------------------------------------------------------------------
(* Reading the list *)

EntitiesOf(b) == {b.list[i] : i \in DOMAIN b.list}
UidsOf(b)     == {e.item.uid : e \in EntitiesOf(b)}
IdsOf(b)      == {<<e.dom, e.item.uid>> : e \in EntitiesOf(b)}
Entries       == UNION {EntitiesOf(file[g]) : g \in DOMAIN file}
AllUids       == {e.item.uid : e \in Entries}

\* Where entities stand: <<block, place in its list>>.
Spots        == UNION {{g} \X DOMAIN file[g].list : g \in DOMAIN file}
EntityAt(s)  == file[s[1]].list[s[2]]
UidAt(s)     == EntityAt(s).item.uid
Before(s, t) == s[1] < t[1] \/ (s[1] = t[1] /\ s[2] < t[2])

\* What GET, PUT and DELETE take for uid: the first entity that has it.
First(uid, s) ==
  /\ UidAt(s) = uid
  /\ \A t \in Spots : UidAt(t) = uid => t = s \/ Before(s, t)

Twice(uid) == \E s, t \in Spots : s # t /\ UidAt(s) = uid /\ UidAt(t) = uid

TwiceIn(b) == {u \in Uids : \E i, j \in DOMAIN b.list :
                 i # j /\ b.list[i].item.uid = u /\ b.list[j].item.uid = u}

\* A block HA's schema refuses anywhere is dropped as a whole.
Accepted(b) == \A e \in EntitiesOf(b) : e.item.ok

Up(b) == IF Accepted(b)
         THEN {[dom |-> e.dom, uid |-> e.item.uid, name |-> e.item.name, live |-> TRUE]
                 : e \in EntitiesOf(b)}
         ELSE {}

IdOf(s) == <<s.dom, s.uid>>

\* HA (external) sets up one entity under each domain and unique_id; of several
\* it may be any.
ComesUp(up) ==
  LET all == UNION {Up(file[g]) : g \in DOMAIN file}
  IN  /\ up \in SUBSET all
      /\ {IdOf(s) : s \in up} = {IdOf(s) : s \in all}
      /\ \A s, t \in up : IdOf(s) = IdOf(t) => s = t

Bare(item) == [trig |-> FALSE, keys |-> {item.dom},
               list |-> <<[dom |-> item.dom, item |-> item]>>]

\* delete_template: the item goes, and its domain key when that is empty now.
Without(b, i) ==
  LET rest == RemoveAt(b.list, i)
  IN  [b EXCEPT !.list = rest,
                !.keys = IF \E k \in DOMAIN rest : rest[k].dom = b.list[i].dom
                         THEN @ ELSE @ \ {b.list[i].dom}]

Init ==
  /\ file \in UNION {[1 .. n -> Full] : n \in 0 .. MaxBlocks}
  /\ ComesUp(states)
  /\ req = [r \in Reqs |-> Idle]
  /\ edited = {}

Become(r, state) == req' = [req EXCEPT ![r] = state]

-----------------------------------------------------------------------------
(* The routes *)

\* Mutant of Put: the block is taken for the entity's.
PutFirstOfBlock(r, uid, item) ==
  /\ req[r] = Idle
  /\ Become(r, Reloading({}))
  /\ \E s \in Spots :
       /\ First(uid, s)
       /\ file' = [file EXCEPT ![s[1]].list[1].item = item]
       /\ edited' = edited \cup IdsOf(file[s[1]])
  /\ UNCHANGED states

\* put_template, dry_run=false: the body in the item's place, whatever unique_id
\* the body has.
Put(r, uid, item) ==
  /\ req[r] = Idle
  /\ Become(r, Reloading({}))
  /\ \E s \in Spots :
       /\ First(uid, s)
       /\ file' = [file EXCEPT ![s[1]].list[s[2]].item = item]
       /\ edited' = edited \cup IdsOf(file[s[1]])
  /\ UNCHANGED states

\* _create_block: every unique_id must be new to the file, not to the block; the
\* block goes in verbatim.
PostBlock(r, b) ==
  /\ req[r] = Idle
  /\ Become(r, Reloading(EntitiesOf(b)))
  /\ Len(file) < MaxBlocks
  /\ b.list # <<>> /\ UidsOf(b) \cap AllUids = {}
  /\ file' = Append(file, b)
  /\ UNCHANGED <<states, edited>>

\* Mutants of PostBare: the old create, into the first block of its domain;
\* ... and one that looks for duplicates in its own domain only.
Sharable(d) == {g \in DOMAIN file : ~file[g].trig /\ d \in file[g].keys}
PostBareShares(r, item) ==
  /\ req[r] = Idle
  /\ Become(r, Reloading({[dom |-> item.dom, item |-> item]}))
  /\ item.uid \notin AllUids
  /\ IF Sharable(item.dom) = {}
       THEN Len(file) < MaxBlocks /\ file' = Append(file, Bare(item))
       ELSE file' = [file EXCEPT ![CHOOSE g \in Sharable(item.dom) : TRUE].list
                                   = Append(@, [dom |-> item.dom, item |-> item])]
  /\ UNCHANGED <<states, edited>>
PostBareOwnDomain(r, item) ==
  /\ req[r] = Idle
  /\ Become(r, Reloading({[dom |-> item.dom, item |-> item]}))
  /\ Len(file) < MaxBlocks
  /\ \A g \in DOMAIN file : <<item.dom, item.uid>> \notin IdsOf(file[g])
  /\ file' = Append(file, Bare(item))
  /\ UNCHANGED <<states, edited>>

\* _create_bare_item: a block of its own, whatever is there already.
PostBare(r, item) ==
  /\ req[r] = Idle
  /\ Become(r, Reloading({[dom |-> item.dom, item |-> item]}))
  /\ Len(file) < MaxBlocks
  /\ item.uid \notin AllUids
  /\ file' = Append(file, Bare(item))
  /\ UNCHANGED <<states, edited>>

\* Mutants of Delete: the block stays for its triggers; the domain goes whole.
DeleteKeepsTriggers(r, uid) ==
  /\ req[r] = Idle
  /\ Become(r, Reloading({}))
  /\ \E s \in Spots :
       /\ First(uid, s)
       /\ LET g == s[1]
              left == Without(file[g], s[2])
          IN  /\ file' = IF left.keys = {} /\ ~left.trig
                         THEN RemoveAt(file, g) ELSE [file EXCEPT ![g] = left]
              /\ edited' = edited \cup IdsOf(file[g])
  /\ UNCHANGED states
DeleteDomain(r, uid) ==
  /\ req[r] = Idle
  /\ Become(r, Reloading({}))
  /\ \E s \in Spots :
       /\ First(uid, s)
       /\ LET g == s[1]
              left == [file[g] EXCEPT !.keys = @ \ {EntityAt(s).dom},
                                      !.list = SelectSeq(@, LAMBDA e : e.dom # EntityAt(s).dom)]
          IN  /\ file' = IF left.keys = {}
                         THEN RemoveAt(file, g) ELSE [file EXCEPT ![g] = left]
              /\ edited' = edited \cup IdsOf(file[g])
  /\ UNCHANGED states

\* delete_template: the item, its key when empty, the block when no key is left.
Delete(r, uid) ==
  /\ req[r] = Idle
  /\ Become(r, Reloading({}))
  /\ \E s \in Spots :
       /\ First(uid, s)
       /\ LET g == s[1]
              left == Without(file[g], s[2])
          IN  /\ file' = IF left.keys = {}
                         THEN RemoveAt(file, g) ELSE [file EXCEPT ![g] = left]
              /\ edited' = edited \cup IdsOf(file[g])
  /\ UNCHANGED states

\* 404 of a PUT or DELETE.
NotFound(r, uid) ==
  /\ req[r] = Idle
  /\ uid \notin AllUids
  /\ UNCHANGED vars

-----------------------------------------------------------------------------
(* The reload and the poll *)

\* HA reads the file (external): what was there and did not come up is a ghost.
HaReads ==
  \E up \in SUBSET UNION {Up(file[g]) : g \in DOMAIN file} :
    /\ ComesUp(up)
    /\ states' = up \cup {[s EXCEPT !.live = FALSE] :
                            s \in {s \in states : \A u \in up : IdOf(u) # IdOf(s)}}
    /\ edited' = {}

Reload(r) ==
  /\ req[r].pc = "reloading"
  /\ HaReads
  /\ Become(r, Polling(req[r].made))
  /\ UNCHANGED file

\* The call fails, whether HA read the file or not: nothing is polled.
ReloadFails(r) ==
  /\ req[r].pc = "reloading"
  /\ HaReads \/ UNCHANGED <<states, edited>>
  /\ Become(r, Idle)
  /\ UNCHANGED file

\* The states a poll takes for the entity it made: same domain, same name.
Matching(e) == {s \in states : s.dom = e.dom /\ s.name = e.item.name}

Seen(e) == \E s \in states : Matching(e) = {s} /\ s.live

\* "created": true for one entity; then the next one is polled.  (The code goes
\* by their order in the block.)
PollFinds(r, e) ==
  /\ req[r].pc = "polling" /\ e \in req[r].made
  /\ Seen(e)
  /\ Become(r, Polling(req[r].made \ {e}))
  /\ UNCHANGED <<file, states, edited>>

\* Not found, or no states from HA, in any of the attempts: "created": false.
\* (An attempt that another one follows changes nothing.)
PollGivesUp(r, e) ==
  /\ req[r].pc = "polling" /\ e \in req[r].made
  /\ Become(r, Polling(req[r].made \ {e}))
  /\ UNCHANGED <<file, states, edited>>

Arrive(r) ==
  \/ \E u \in Uids : Delete(r, u) \/ NotFound(r, u)
  \/ \E u \in Uids, i \in Item : Put(r, u, i)
  \/ \E b \in Full : PostBlock(r, b)
  \/ \E i \in Item : PostBare(r, i)

Proceed(r) ==
  \/ Reload(r) \/ ReloadFails(r)
  \/ req[r].pc = "polling" /\ \E e \in req[r].made : PollFinds(r, e) \/ PollGivesUp(r, e)

Next == \E r \in Reqs : Arrive(r) \/ Proceed(r)

Spec == Init /\ [][Next]_vars

-----------------------------------------------------------------------------
(* Properties *)

\* The entity a caller reaches under each unique_id.
Reached(uid) == {EntityAt(s) : s \in {s \in Spots : First(uid, s)}}
Shown        == [u \in AllUids |-> CHOOSE e \in Reached(u) : TRUE]

Callers == INSTANCE Catalog WITH catalog <- Shown

\* What each request is asked, under the unique_ids it names.
Asked ==
  \A r \in Reqs, u \in Uids, i \in Item, b \in Full :
    /\ PostBare(r, i)  => Callers!Create({i.uid}, {[dom |-> i.dom, item |-> i]})
    /\ PostBlock(r, b) => Callers!Create(UidsOf(b), EntitiesOf(b))
    /\ Put(r, u, i)    => IF i.uid = u THEN Callers!Update(u, [Shown[u] EXCEPT !.item = i])
                                       ELSE Callers!Only({u, i.uid})
    /\ Delete(r, u)    => IF Twice(u) THEN Callers!Only({u}) ELSE Callers!Delete(u)

\* INVARIANTS.md C-14, seen through unique_ids: a POST adds its own entities, a
\* PUT replaces the one it names and a DELETE takes that one away, however
\* blocks, keys and places shift underneath.  A PUT whose body brings another
\* unique_id, and a DELETE of one that stands twice, touch those two names only.
TemplatesAreACatalog == [][UNCHANGED vars \/ Asked]_vars

\* A unique_id names one entity, and a PUT or DELETE by it has one meaning, unless
\* a body brings it in again: one of a PUT to another entity, or a block that has
\* it twice.
UniqueUids ==
  [][\A u \in Uids : Twice(u)' =>
       \/ Twice(u)
       \/ \E r \in Reqs, v \in Uids \ {u}, i \in Item : Put(r, v, i) /\ i.uid = u
       \/ \E r \in Reqs, b \in Full : PostBlock(r, b) /\ u \in TwiceIn(b)]_vars

\* INVARIANTS.md C-13: a create "bounds the damage of a bad entry to that
\* entry": whatever runs goes dark only by a PUT or DELETE on its own block.
CreatesDarkenNobody ==
  [][\A s \in states : s.live /\ [s EXCEPT !.live = FALSE] \in states'
       => IdOf(s) \in edited]_vars

\* delete_template: "If no entity domains remain, drop the whole block -
\* including any orphaned trigger/action".
NoOrphanedBlock == \A g \in DOMAIN file : file[g].keys # {}

\* _verify_created_entities: "created" is about the entity this create declared.
CreatedIsOurs ==
  [][\A r \in Reqs, d \in Domain, i \in Item : PollFinds(r, [dom |-> d, item |-> i]) =>
       \E s \in states : s.live /\ s.dom = d /\ s.uid = i.uid]_vars
=============================================================================
