--------------------------- MODULE MappingStore ----------------------------
(***************************************************************************)
(* The script and helper routes.  A domain's entries are slugs in mappings; *)
(* where they are is decided by configuration.yaml, which the user may      *)
(* change: an !include names the file a create may extend, and a helper     *)
(* domain may also be written under a key (inline, or in a package), where  *)
(* entries can be read and must not be spliced.  Helpers made in Home       *)
(* Assistant's UI are in its storage and are nobody's to write.             *)
(*                                                                         *)
(* The reload every write ends with, and the poll after a create, change    *)
(* nothing here; AutomationStore and TemplateStore have them.               *)
(***************************************************************************)
EXTENDS Naturals, FiniteSets, Functions

CONSTANTS
  Reqs,      \* request slots
  Script,    \* the domain of the script routes
  Helpers,   \* ALLOWED_DOMAINS
  Slug,      \* entry ids
  Keyed,     \* the helper domains also configured under a key
  KeyedFirst, \* of those, the ones whose key comes before the !include
  Ui,        \* storage helpers, <<domain, slug>>, in Helpers or another domain
  Movable,   \* the domains whose !include the user edits
  MaxEntries \* bound: entries in all files

Domain == {Script} \cup Helpers
File   == {"main", "other"} \* main: the conventional file name
Body   == {"old", "new"}    \* what was there, and what requests bring

\* Where an entry may stand.
Cell == (Domain \X {"main"} \X Slug) \cup (Movable \X {"other"} \X Slug)
          \cup (Keyed \X {"keyed"} \X Slug)

VARIABLES
  include, \* include[d]: the file the domain's !include names, or "none"
  held,    \* the entries in the files: a function from cells to bodies
  req,     \* req[r]: the handler in slot r
  made     \* observation: created entries, not deleted since, include unmoved

vars == <<include, held, req, made>>

Idle           == [pc |-> "idle"]
Awaiting(d, f) == [pc |-> "body", dom |-> d, target |-> f]
Requests       == {Idle} \cup {Awaiting(d, f) : d \in Helpers, f \in File}

TypeOK ==
  /\ include \in [Domain -> File \cup {"none"}]
  /\ DOMAIN held \subseteq Cell
  /\ \A c \in DOMAIN held : held[c] \in Body
  /\ req \in [Reqs -> Requests]
  /\ made \subseteq Domain \X Slug

-----------------------------------------------------------------------------
(* Where entries are *)

\* What HA reads: the include, and what is written under a key.
Read(d) == ({include[d]} \ {"none"}) \cup (IF d \in Keyed THEN {"keyed"} ELSE {})

\* What the routes read (readable_domain_files; for scripts
\* wired_target_or_default): the same, or else the conventional file.
Searched(d) == IF Read(d) = {} THEN {"main"} ELSE Read(d)

\* The first of the places with the entry.  readable_domain_files goes by the
\* keys of configuration.yaml, then the packages: an inline key, labelled, may
\* stand on either side of the !include.
FirstWith(places, d, s) ==
  LET hits == {p \in places : <<d, p, s>> \in DOMAIN held}
  IN  CASE hits = {} -> "none"
        [] "keyed" \in hits /\ (hits = {"keyed"} \/ d \in KeyedFirst) -> "keyed"
        [] OTHER -> CHOOSE p \in hits : p # "keyed"

\* _helper_owner, and a script lookup.
Owner(d, s) == FirstWith(Searched(d), d, s)

Defines(d, s) == FirstWith(Read(d), d, s) # "none"

Owners(s) == {d \in Helpers : Owner(d, s) # "none"}

\* storage_matches, by collection id.
InUi(s, doms) == {u \in Ui : u[2] = s /\ u[1] \in doms}

AllDomains == Helpers \cup {u[1] : u \in Ui}

\* get_helper: the first YAML owner, else a storage helper that is the only one.
GetAnswer(s) ==
  LET ui == InUi(s, AllDomains)
  IN  IF Owners(s) # {} THEN "yaml"
      ELSE CASE ui = {}              -> "missing"
             [] Cardinality(ui) = 1  -> "storage"
             [] Cardinality(ui) > 1  -> "conflict"

\* Mutants of Locate: no word about storage; under a key is as good as in a file.
LocateYaml(s, doms) ==
  LET own == Owners(s) \cap doms
  IN  CASE own = {} -> "missing"
        [] Cardinality(own) > 1 \/ \E d \in own : Owner(d, s) = "keyed" -> "conflict"
        [] OTHER -> CHOOSE d \in own : TRUE
LocateKeyed(s, doms) ==
  LET own == Owners(s) \cap doms
  IN  CASE Cardinality(own) = 1  -> CHOOSE d \in own : TRUE
        [] own = {} /\ InUi(s, doms) = {} -> "missing"
        [] OTHER -> "conflict"

\* _locate_helper: with ?domain= the one domain, without it all of them.  The
\* domain to write in; or a 409: under a key, ambiguous, in storage; or a 404.
Locate(s, doms) ==
  LET own  == Owners(s) \cap doms
      sure == Cardinality(own) = 1 /\ \A d \in own : Owner(d, s) # "keyed"
  IN  IF sure THEN CHOOSE d \in own : TRUE
      ELSE IF own = {} /\ InUi(s, doms) = {} THEN "missing"
      ELSE "conflict"

\* The domains a PUT or DELETE looks in.
Scopes == {{d} : d \in Helpers} \cup {AllDomains}

Init ==
  /\ include \in [Domain -> File \cup {"none"}]
  /\ \A d \in Domain \ Movable : include[d] # "other"
  /\ \E cells \in SUBSET Cell :
       /\ Cardinality(cells) <= MaxEntries
       /\ held = [c \in cells |-> "old"]
  /\ req = [r \in Reqs |-> Idle]
  /\ made = {}

-----------------------------------------------------------------------------
(* The routes *)

Become(r, state) == req' = [req EXCEPT ![r] = state]

\* save_entry of one entry, the end of the handler.
Save(r, c) ==
  /\ Cardinality(DOMAIN held \cup {c}) <= MaxEntries
  /\ held' = [x \in DOMAIN held \cup {c} |-> IF x = c THEN "new" ELSE held[x]]
  /\ Become(r, Idle)
  /\ UNCHANGED include

Remove(c) ==
  /\ held' = Restrict(held, DOMAIN held \ {c})
  /\ UNCHANGED <<include, req>>

\* put_script, dry_run=false.
PutScript(r, s) ==
  /\ req[r] = Idle
  /\ Owner(Script, s) # "none"
  /\ Save(r, <<Script, Owner(Script, s), s>>)
  /\ UNCHANGED made

\* Mutant of PostScript: where a read looks is where a create writes.
PostScriptAnywhere(r, s) ==
  /\ req[r] = Idle
  /\ Owner(Script, s) = "none"
  /\ Save(r, <<Script, CHOOSE p \in Searched(Script) : TRUE, s>>)
  /\ made' = made \cup {<<Script, s>>}

\* post_script: the body first, then the proof that HA reads the file (C-10).
PostScript(r, s) ==
  /\ req[r] = Idle
  /\ include[Script] # "none"
  /\ <<Script, include[Script], s>> \notin DOMAIN held
  /\ Save(r, <<Script, include[Script], s>>)
  /\ made' = made \cup {<<Script, s>>}

\* delete_script.
DeleteScript(r, s) ==
  /\ req[r] = Idle
  /\ Owner(Script, s) # "none"
  /\ Remove(<<Script, Owner(Script, s), s>>)
  /\ made' = made \ {<<Script, s>>}

\* post_helper, up to the await for the body: HA reads this file.
PostHelperProves(r, d) ==
  /\ req[r] = Idle
  /\ include[d] # "none"
  /\ Become(r, Awaiting(d, include[d]))
  /\ UNCHANGED <<include, held, made>>

\* ... and after it: a slug that file holds is a 409.
PostHelper(r, s) ==
  /\ req[r].pc = "body"
  /\ <<req[r].dom, req[r].target, s>> \notin DOMAIN held
  /\ Save(r, <<req[r].dom, req[r].target, s>>)
  /\ made' = made \cup {<<req[r].dom, s>>}

\* The 409, a body that is no one-entry mapping, or a caller that hangs up.
PostHelperEnds(r) ==
  /\ req[r].pc = "body"
  /\ Become(r, Idle)
  /\ UNCHANGED <<include, held, made>>

\* put_helper: the body is awaited before anything is read.
PutHelper(r, s, doms) ==
  LET d == Locate(s, doms) IN
  /\ req[r] = Idle
  /\ d \in Helpers
  /\ Save(r, <<d, Owner(d, s), s>>)
  /\ UNCHANGED made

\* Mutant of DeleteHelper: the mapping is written back without the file's others.
DeleteHelperAll(r, s, doms) ==
  LET d == Locate(s, doms) IN
  /\ req[r] = Idle
  /\ d \in Helpers
  /\ held' = Restrict(held, {c \in DOMAIN held : c[1] # d \/ c[2] # Owner(d, s)})
  /\ made' = made \ {<<d, s>>}
  /\ UNCHANGED <<include, req>>

\* delete_helper.
DeleteHelper(r, s, doms) ==
  LET d == Locate(s, doms) IN
  /\ req[r] = Idle
  /\ d \in Helpers
  /\ Remove(<<d, Owner(d, s), s>>)
  /\ made' = made \ {<<d, s>>}

\* The user points a domain at another file, or at none.
Rewire(d, f) ==
  /\ include[d] # f
  /\ include' = [include EXCEPT ![d] = f]
  /\ made' = {e \in made : e[1] # d}
  /\ UNCHANGED <<held, req>>

Arrive(r) ==
  \/ \E s \in Slug : PutScript(r, s) \/ PostScript(r, s) \/ DeleteScript(r, s)
  \/ \E d \in Helpers : PostHelperProves(r, d)
  \/ \E s \in Slug, doms \in Scopes : PutHelper(r, s, doms) \/ DeleteHelper(r, s, doms)

Proceed(r) == (\E s \in Slug : PostHelper(r, s)) \/ PostHelperEnds(r)

Request == \E r \in Reqs : Arrive(r) \/ Proceed(r)

Next == Request \/ \E d \in Movable, f \in File \cup {"none"} : Rewire(d, f)

Spec == Init /\ [][Next]_vars

\* A user who leaves a helper domain alone while a create of it has its file and
\* waits for its body.
Awaited(d) == \E r \in Reqs : req[r].pc = "body" /\ req[r].dom = d

SteadyNext ==
  \/ Request
  \/ \E d \in Movable, f \in File \cup {"none"} : ~Awaited(d) /\ Rewire(d, f)

-----------------------------------------------------------------------------
(* Properties *)

\* INVARIANTS.md C-10: a create "must write to the file the include actually
\* names": what was answered "created" is in a file HA reads.
CreatedIsRead == \A e \in made : Defines(e[1], e[2])

\* The entries a caller can read, each under its domain and slug.
Shown == [e \in {e \in Domain \X Slug : Owner(e[1], e[2]) # "none"} |->
            held[<<e[1], Owner(e[1], e[2]), e[2]>>]]

Callers == INSTANCE Catalog WITH catalog <- Shown

Places(d, s) == {p \in Searched(d) : <<d, p, s>> \in DOMAIN held}

\* What each request is asked, under the keys it names.
Asked ==
  \A r \in Reqs, s \in Slug :
    /\ PutScript(r, s)    => Callers!Update(<<Script, s>>, "new")
    /\ PostScript(r, s)   => Callers!Create({<<Script, s>>}, {"new"})
    /\ DeleteScript(r, s) => Callers!Delete(<<Script, s>>)
    /\ \A d \in Helpers : PostHelper(r, s) /\ req[r].dom = d =>
         /\ Callers!Only({<<d, s>>})
         /\ include[d] = req[r].target => <<d, s>> \in DOMAIN Shown'
    /\ \A doms \in Scopes : LET d == Locate(s, doms) IN
         /\ PutHelper(r, s, doms)    => Callers!Update(<<d, s>>, "new")
         /\ DeleteHelper(r, s, doms) =>
              IF Cardinality(Places(d, s)) = 1 THEN Callers!Delete(<<d, s>>)
                                               ELSE Callers!Only({<<d, s>>})

\* Seen through the read routes, each request adds the entry it names, replaces
\* it or removes it.  A helper that is also under a key may come to light by a
\* delete, and one created in a file may stand behind it.
EntriesAreACatalog == [][UNCHANGED vars \/ Asked]_vars

\* _require_writable: what stands under a key is never spliced.
KeyedUntouched ==
  [][\A c \in DOMAIN held : c[2] = "keyed" => c \in DOMAIN held' /\ held'[c] = held[c]]_vars

\* _locate_helper: a helper GET resolves is never "not found" to PUT and DELETE.
ReadsAndWritesAgree ==
  \A s \in Slug : (GetAnswer(s) = "missing") <=> (Locate(s, AllDomains) = "missing")
=============================================================================
