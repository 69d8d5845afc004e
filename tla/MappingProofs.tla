---------------------------- MODULE MappingProofs ----------------------------
(***************************************************************************)
(* Proofs about the script and helper routes, as Overlap has them.         *)
(*                                                                         *)
(* Owner, the place an entry is read and written at, is a choice among the *)
(* places of its domain; what is known of that choice comes first.         *)
(***************************************************************************)
EXTENDS Overlap, FiniteSetTheorems, TLAPS

LEMMA SameFiniteSets ==
  /\ \A S : Mappings!IsFiniteSet(S) <=> IsFiniteSet(S)
  /\ \A S : Mappings!Cardinality(S) = Cardinality(S)
  BY DEF Mappings!IsFiniteSet, IsFiniteSet, Mappings!Cardinality, Cardinality

MapHits(places, d, s) == {p \in places : <<d, p, s>> \in DOMAIN mHeld}

(* The first place that has the entry is one that has it.                    *)
LEMMA FirstIsAHit ==
  ASSUME NEW places, "none" \notin places, NEW d, NEW s
  PROVE  LET p == Mappings!FirstWith(places, d, s)
             hits == MapHits(places, d, s)
         IN  /\ p = "none" <=> hits = {}
             /\ p # "none" => p \in hits
<1> DEFINE hits == MapHits(places, d, s)
           p == Mappings!FirstWith(places, d, s)
           keyed == "keyed" \in hits /\ (hits = {"keyed"} \/ d \in KeyedFirst)
<1>0. hits \subseteq places
  BY DEF MapHits
<1>1. CASE hits = {}
  <2>1. p = "none"
    BY <1>1 DEF Mappings!FirstWith, MapHits
  <2> QED
    BY <1>1, <2>1
<1>2. CASE keyed
  <2>1. p = "keyed"
    BY <1>2 DEF Mappings!FirstWith, MapHits
  <2> QED
    BY <1>2, <2>1
<1>3. CASE hits # {} /\ ~keyed
  <2>1. p = CHOOSE q \in hits : q # "keyed"
    BY <1>3 DEF Mappings!FirstWith, MapHits
  <2>2. \E q \in hits : q # "keyed"
    BY <1>3
  <2>3. p \in hits /\ p # "keyed"
    BY <2>1, <2>2
  <2> QED
    BY <1>0, <1>3, <2>3
<1> QED
  BY <1>1, <1>2, <1>3

(* Where the routes look for a domain, by the include and the key it has.    *)
LEMMA SearchedPlaces ==
  ASSUME Mappings!TypeOK, NEW d \in Mappings!Domain
  PROVE  /\ "none" \notin Mappings!Searched(d) /\ "none" \notin Mappings!Read(d)
         /\ Mappings!Read(d) \subseteq Mappings!Searched(d)
         /\ mInclude[d] # "none" => mInclude[d] \in Mappings!Read(d)
         /\ "keyed" \in Mappings!Searched(d) => d \in Keyed
         /\ Mappings!Searched(d) \subseteq {"main", "other", "keyed"}
         /\ \A p, q \in Mappings!Searched(d) : p # "keyed" /\ q # "keyed" => p = q
<1>1. mInclude[d] \in {"main", "other", "none"}
  BY DEF Mappings!TypeOK, Mappings!File
<1> QED
  BY <1>1 DEF Mappings!Searched, Mappings!Read

LEMMA OwnerStands ==
  ASSUME Mappings!TypeOK, NEW d \in Mappings!Domain, NEW s
  PROVE  LET p == Mappings!Owner(d, s)
         IN  /\ p = "none" <=> MapHits(Mappings!Searched(d), d, s) = {}
             /\ p # "none" => p \in Mappings!Searched(d) /\ <<d, p, s>> \in DOMAIN mHeld
<1>1. "none" \notin Mappings!Searched(d)
  BY SearchedPlaces
<1> QED
  BY <1>1, FirstIsAHit DEF Mappings!Owner, MapHits

(* A domain to write in is the one domain that has the entry, in a file.     *)
LEMMA LocateIsSure ==
  ASSUME NEW s, NEW doms, Mappings!Locate(s, doms) \in Helpers
  PROVE  LET d == Mappings!Locate(s, doms)
         IN  /\ Cardinality(Mappings!Owners(s) \cap doms) = 1
             /\ d \in Mappings!Owners(s) \cap doms
             /\ Mappings!Owner(d, s) # "keyed"
<1> DEFINE own == Mappings!Owners(s) \cap doms
           sure == Cardinality(own) = 1 /\ \A d \in own : Mappings!Owner(d, s) # "keyed"
<1>1. "missing" \notin Helpers /\ "conflict" \notin Helpers
  BY HelpersAssumption
<1>2. Mappings!Cardinality(own) = Cardinality(own)
  BY SameFiniteSets
<1>3. sure
  BY <1>1, <1>2 DEF Mappings!Locate
<1>4. Mappings!Locate(s, doms) = CHOOSE d \in own : TRUE
  BY <1>2, <1>3 DEF Mappings!Locate
<1>5. own # {}
  BY <1>3, FS_EmptySet
<1>6. Mappings!Locate(s, doms) \in own
  BY <1>4, <1>5
<1> QED
  BY <1>3, <1>6

LEMMA OwnersAreHelpers ==
  ASSUME NEW s
  PROVE  /\ Mappings!Owners(s) \subseteq Helpers
         /\ \A d \in Mappings!Owners(s) : Mappings!Owner(d, s) # "none"
         /\ Mappings!Owners(s) \cap Mappings!AllDomains = Mappings!Owners(s)
  BY DEF Mappings!Owners, Mappings!AllDomains

-----------------------------------------------------------------------------
(***************************************************************************)
(* The invariant: what waits for a body, or has been created and not been  *)
(* deleted, is about the file its domain's include names.                  *)
(***************************************************************************)

IncludesFixed == \A d \in Mappings!Domain \ Movable : mInclude[d] # "other"

TargetsStand ==
  \A r \in Slots : mReq[r].pc = "body" => mReq[r].target = mInclude[mReq[r].dom]

MadeStands ==
  \A d \in Mappings!Domain, s \in Slug : <<d, s>> \in mMade =>
    mInclude[d] # "none" /\ <<d, mInclude[d], s>> \in DOMAIN mHeld

MapInv == Mappings!TypeOK /\ IncludesFixed /\ TargetsStand /\ MadeStands

LEMMA MapInit == Mappings!Init => MapInv
<1> SUFFICES ASSUME Mappings!Init PROVE MapInv
  OBVIOUS
<1>1. PICK cells \in SUBSET Mappings!Cell : mHeld = [c \in cells |-> "old"]
  BY DEF Mappings!Init
<1>2. Mappings!TypeOK
  BY <1>1 DEF Mappings!Init, Mappings!TypeOK, Mappings!Requests, Mappings!Body
<1>3. TargetsStand /\ MadeStands /\ IncludesFixed
  BY DEF Mappings!Init, TargetsStand, MadeStands, IncludesFixed, Mappings!Idle
<1> QED
  BY <1>2, <1>3 DEF MapInv

(* Saving an entry where its domain may have one.                            *)
LEMMA SaveKeepsInv ==
  ASSUME MapInv, NEW r \in Slots, NEW d \in Mappings!Domain, NEW p, NEW s \in Slug,
         <<d, p, s>> \in Mappings!Cell,
         Mappings!Save(r, <<d, p, s>>),
         \/ mMade' = mMade
         \/ mMade' = mMade \cup {<<d, s>>} /\ p = mInclude[d] /\ p # "none"
  PROVE  MapInv'
<1> USE DEF MapInv
<1>1. /\ DOMAIN mHeld' = DOMAIN mHeld \cup {<<d, p, s>>}
      /\ \A c \in DOMAIN mHeld' : mHeld'[c] = IF c = <<d, p, s>> THEN "new" ELSE mHeld[c]
      /\ mReq' = [mReq EXCEPT ![r] = Mappings!Idle] /\ mInclude' = mInclude
  BY DEF Mappings!Save, Mappings!Become
<1>2. Mappings!TypeOK'
  BY <1>1 DEF Mappings!TypeOK, Mappings!Requests, Mappings!Body
<1>3. TargetsStand'
  BY <1>1 DEF Mappings!TypeOK, TargetsStand, Mappings!Idle
<1>4. MadeStands' /\ IncludesFixed'
  BY <1>1 DEF MadeStands, IncludesFixed
<1> QED
  BY <1>2, <1>3, <1>4

(* Removing the entry that is created and that made forgets.                 *)
LEMMA RemoveKeepsInv ==
  ASSUME MapInv, NEW d \in Mappings!Domain, NEW s \in Slug, NEW p,
         Mappings!Remove(<<d, p, s>>), mMade' = mMade \ {<<d, s>>}
  PROVE  MapInv'
<1> USE DEF MapInv
<1>1. /\ DOMAIN mHeld' = DOMAIN mHeld \ {<<d, p, s>>}
      /\ \A c \in DOMAIN mHeld' : mHeld'[c] = mHeld[c]
      /\ mReq' = mReq /\ mInclude' = mInclude
  BY DEF Mappings!Remove, Mappings!Restrict
<1>2. Mappings!TypeOK'
  BY <1>1 DEF Mappings!TypeOK
<1>3. MadeStands'
  BY <1>1 DEF MadeStands
<1>4. TargetsStand' /\ IncludesFixed'
  BY <1>1 DEF TargetsStand, IncludesFixed
<1> QED
  BY <1>2, <1>3, <1>4

(* A create writes into the file of the include, where an entry may stand.   *)
LEMMA IncludedCell ==
  ASSUME MapInv, NEW d \in Mappings!Domain, NEW s \in Slug, mInclude[d] # "none"
  PROVE  <<d, mInclude[d], s>> \in Mappings!Cell
<1>1. mInclude[d] \in {"main", "other"} /\ (mInclude[d] = "other" => d \in Movable)
  BY DEF MapInv, Mappings!TypeOK, Mappings!File, IncludesFixed
<1> QED
  BY <1>1 DEF Mappings!Cell

LEMMA ScriptKeepsInv ==
  ASSUME MapInv, NEW r \in Slots, NEW s \in Slug,
         \/ Mappings!PutScript(r, s) \/ Mappings!PostScript(r, s) \/ Mappings!DeleteScript(r, s)
  PROVE  MapInv'
<1>0. Mappings!TypeOK /\ Script \in Mappings!Domain
  BY DEF MapInv, Mappings!Domain
<1>1. CASE Mappings!PutScript(r, s)
  <2>1. <<Script, Mappings!Owner(Script, s), s>> \in Mappings!Cell
    BY <1>0, <1>1, OwnerStands DEF Mappings!PutScript, Mappings!TypeOK
  <2> QED
    BY <1>0, <1>1, <2>1, SaveKeepsInv DEF Mappings!PutScript
<1>2. CASE Mappings!PostScript(r, s)
  <2>1. <<Script, mInclude[Script], s>> \in Mappings!Cell
    BY <1>0, <1>2, IncludedCell DEF Mappings!PostScript
  <2> QED
    BY <1>0, <1>2, <2>1, SaveKeepsInv DEF Mappings!PostScript
<1>3. CASE Mappings!DeleteScript(r, s)
  BY <1>0, <1>3, RemoveKeepsInv DEF Mappings!DeleteScript
<1> QED
  BY <1>1, <1>2, <1>3

LEMMA PostHelperKeepsInv ==
  ASSUME MapInv, NEW r \in Slots,
         \/ \E d \in Helpers : Mappings!PostHelperProves(r, d)
         \/ \E s \in Slug : Mappings!PostHelper(r, s)
         \/ Mappings!PostHelperEnds(r)
  PROVE  MapInv'
<1>0. Mappings!TypeOK /\ Helpers \subseteq Mappings!Domain
  BY DEF MapInv, Mappings!Domain
<1>1. ASSUME NEW d \in Helpers, Mappings!PostHelperProves(r, d) PROVE MapInv'
  <2>1. /\ mReq' = [mReq EXCEPT ![r] = Mappings!Awaiting(d, mInclude[d])]
        /\ mInclude' = mInclude /\ mHeld' = mHeld /\ mMade' = mMade
    BY <1>1 DEF Mappings!PostHelperProves, Mappings!Become
  <2>2. mInclude[d] \in Mappings!File
    BY <1>0, <1>1 DEF Mappings!PostHelperProves, Mappings!TypeOK
  <2>3. Mappings!Awaiting(d, mInclude[d]) \in Mappings!Requests
    BY <2>2 DEF Mappings!Requests
  <2>4. Mappings!TypeOK'
    BY <1>0, <2>1, <2>3 DEF Mappings!TypeOK
  <2>5. TargetsStand'
    BY <1>0, <2>1 DEF MapInv, TargetsStand, Mappings!TypeOK, Mappings!Awaiting
  <2> QED
    BY <2>1, <2>4, <2>5 DEF MapInv, IncludesFixed, MadeStands
<1>2. ASSUME NEW s \in Slug, Mappings!PostHelper(r, s) PROVE MapInv'
  <2> DEFINE d == mReq[r].dom
  <2>1. mReq[r].pc = "body" /\ mReq[r] \in Mappings!Requests
    BY <1>0, <1>2 DEF Mappings!PostHelper, Mappings!TypeOK
  <2>2. d \in Helpers /\ mReq[r].target \in {"main", "other"}
    BY <2>1 DEF Mappings!Requests, Mappings!Idle, Mappings!Awaiting, Mappings!File
  <2>3. mReq[r].target = mInclude[d] /\ mInclude[d] # "none"
    BY <2>1, <2>2 DEF MapInv, TargetsStand
  <2>4. <<d, mInclude[d], s>> \in Mappings!Cell
    BY <1>0, <2>2, <2>3, IncludedCell
  <2>5. Mappings!Save(r, <<d, mInclude[d], s>>) /\ mMade' = mMade \cup {<<d, s>>}
    BY <1>2, <2>3 DEF Mappings!PostHelper
  <2> HIDE DEF d
  <2> QED
    BY <1>0, <2>2, <2>3, <2>4, <2>5, SaveKeepsInv
<1>3. CASE Mappings!PostHelperEnds(r)
  <2>1. /\ mReq' = [mReq EXCEPT ![r] = Mappings!Idle]
        /\ mInclude' = mInclude /\ mHeld' = mHeld /\ mMade' = mMade
    BY <1>3 DEF Mappings!PostHelperEnds, Mappings!Become
  <2>2. Mappings!TypeOK'
    BY <1>0, <2>1 DEF Mappings!TypeOK, Mappings!Requests
  <2>3. TargetsStand'
    BY <1>0, <2>1 DEF MapInv, TargetsStand, Mappings!TypeOK, Mappings!Idle
  <2> QED
    BY <2>1, <2>2, <2>3 DEF MapInv, IncludesFixed, MadeStands
<1> QED
  BY <1>1, <1>2, <1>3

LEMMA HelperKeepsInv ==
  ASSUME MapInv, NEW r \in Slots, NEW s \in Slug, NEW doms,
         Mappings!PutHelper(r, s, doms) \/ Mappings!DeleteHelper(r, s, doms)
  PROVE  MapInv'
<1> DEFINE d == Mappings!Locate(s, doms)
<1>1. Mappings!TypeOK /\ Helpers \subseteq Mappings!Domain
  BY DEF MapInv, Mappings!Domain
<1>2. d \in Helpers
  BY DEF Mappings!PutHelper, Mappings!DeleteHelper
<1>3. d \in Mappings!Owners(s)
  BY <1>2, LocateIsSure
<1>4. <<d, Mappings!Owner(d, s), s>> \in Mappings!Cell
  BY <1>1, <1>2, <1>3, OwnersAreHelpers, OwnerStands DEF Mappings!TypeOK
<1>5. CASE Mappings!PutHelper(r, s, doms)
  <2>1. Mappings!Save(r, <<d, Mappings!Owner(d, s), s>>) /\ mMade' = mMade
    BY <1>5 DEF Mappings!PutHelper
  <2> HIDE DEF d
  <2> QED
    BY <1>1, <1>2, <1>4, <2>1, SaveKeepsInv
<1>6. CASE Mappings!DeleteHelper(r, s, doms)
  <2>1. Mappings!Remove(<<d, Mappings!Owner(d, s), s>>) /\ mMade' = mMade \ {<<d, s>>}
    BY <1>6 DEF Mappings!DeleteHelper
  <2> HIDE DEF d
  <2> QED
    BY <1>1, <1>2, <2>1, RemoveKeepsInv
<1> QED
  BY <1>5, <1>6

LEMMA RewireKeepsInv ==
  ASSUME MapInv, NEW d \in Movable, NEW f \in Mappings!File \cup {"none"},
         ~Mappings!Awaited(d), Mappings!Rewire(d, f)
  PROVE  MapInv'
<1>1. /\ mInclude' = [mInclude EXCEPT ![d] = f] /\ mHeld' = mHeld /\ mReq' = mReq
      /\ mMade' = {e \in mMade : e[1] # d}
  BY DEF Mappings!Rewire
<1>2. \A r \in Slots : mReq[r].pc = "body" => mReq[r].dom # d
  BY DEF Mappings!Awaited
<1>3. Mappings!TypeOK'
  BY <1>1 DEF MapInv, Mappings!TypeOK
<1>4. TargetsStand'
  <2> SUFFICES ASSUME NEW r \in Slots, mReq[r].pc = "body"
               PROVE  mReq[r].target = mInclude'[mReq[r].dom]
    BY <1>1 DEF TargetsStand
  <2>1. mReq[r] \in Mappings!Requests
    BY DEF MapInv, Mappings!TypeOK
  <2>2. mReq[r].dom \in Helpers
    BY <2>1 DEF Mappings!Requests, Mappings!Idle, Mappings!Awaiting
  <2> QED
    BY <1>1, <1>2, <2>2 DEF MapInv, TargetsStand, Mappings!TypeOK, Mappings!Domain
<1>5. MadeStands' /\ IncludesFixed'
  BY <1>1 DEF MapInv, MadeStands, IncludesFixed, Mappings!TypeOK
<1> QED
  BY <1>3, <1>4, <1>5 DEF MapInv

LEMMA MapStep == MapInv /\ [Mappings!SteadyNext]_Mappings!vars => MapInv'
<1> SUFFICES ASSUME MapInv, [Mappings!SteadyNext]_Mappings!vars PROVE MapInv'
  OBVIOUS
<1>1. ASSUME NEW r \in Slots, Mappings!Arrive(r) PROVE MapInv'
  BY <1>1, ScriptKeepsInv, PostHelperKeepsInv, HelperKeepsInv DEF Mappings!Arrive
<1>2. ASSUME NEW r \in Slots, Mappings!Proceed(r) PROVE MapInv'
  BY <1>2, PostHelperKeepsInv DEF Mappings!Proceed
<1>3. ASSUME NEW d \in Movable, NEW f \in Mappings!File \cup {"none"},
             ~Mappings!Awaited(d), Mappings!Rewire(d, f)
      PROVE  MapInv'
  BY <1>3, RewireKeepsInv
<1>4. CASE UNCHANGED Mappings!vars
  BY <1>4 DEF Mappings!vars, MapInv, Mappings!TypeOK, IncludesFixed, TargetsStand, MadeStands
<1> QED
  BY <1>1, <1>2, <1>3, <1>4 DEF Mappings!SteadyNext, Mappings!Request

-----------------------------------------------------------------------------
(* Every step changes one cell, and none that is under a key.                *)

OneCell(d, p, s) ==
  \A c : c # <<d, p, s>> =>
    /\ c \in DOMAIN mHeld' <=> c \in DOMAIN mHeld
    /\ c \in DOMAIN mHeld => mHeld'[c] = mHeld[c]

LEMMA SaveIsOneCell ==
  ASSUME NEW r, NEW d, NEW p, NEW s, Mappings!Save(r, <<d, p, s>>)
  PROVE  OneCell(d, p, s)
  BY DEF Mappings!Save, OneCell

LEMMA RemoveIsOneCell ==
  ASSUME NEW d, NEW p, NEW s, Mappings!Remove(<<d, p, s>>)
  PROVE  OneCell(d, p, s)
  BY DEF Mappings!Remove, Mappings!Restrict, OneCell

LEMMA StepsAreOneCell ==
  ASSUME MapInv, [Mappings!SteadyNext]_Mappings!vars, mHeld' # mHeld
  PROVE  \E d \in Mappings!Domain, s \in Slug, p \in {"main", "other"} : OneCell(d, p, s)
<1> DEFINE Goal == \E d \in Mappings!Domain, s \in Slug, p \in {"main", "other"} : OneCell(d, p, s)
<1>0. Mappings!TypeOK /\ Script \in Mappings!Domain /\ Helpers \subseteq Mappings!Domain
  BY DEF MapInv, Mappings!Domain
<1>1. ASSUME NEW r \in Slots, NEW s \in Slug,
             Mappings!PutScript(r, s) \/ Mappings!DeleteScript(r, s)
      PROVE  Goal
  <2> DEFINE p == Mappings!Owner(Script, s)
  <2>1. p # "none"
    BY <1>1 DEF Mappings!PutScript, Mappings!DeleteScript
  <2>2. p \in {"main", "other"}
    <3>1. p \in Mappings!Searched(Script)
      BY <1>0, <2>1, OwnerStands
    <3>2. Script \notin Keyed
      BY HelpersAssumption
    <3> QED
      BY <1>0, <3>1, <3>2, SearchedPlaces
  <2>3. OneCell(Script, p, s)
    BY <1>1, SaveIsOneCell, RemoveIsOneCell DEF Mappings!PutScript, Mappings!DeleteScript
  <2> HIDE DEF p
  <2> QED
    BY <1>0, <2>2, <2>3
<1>2. ASSUME NEW r \in Slots, NEW s \in Slug, Mappings!PostScript(r, s) PROVE Goal
  <2>1. mInclude[Script] \in {"main", "other"}
    BY <1>0, <1>2 DEF Mappings!PostScript, Mappings!TypeOK, Mappings!File
  <2>2. OneCell(Script, mInclude[Script], s)
    BY <1>2, SaveIsOneCell DEF Mappings!PostScript
  <2> QED
    BY <1>0, <2>1, <2>2
<1>3. ASSUME NEW r \in Slots, NEW s \in Slug, Mappings!PostHelper(r, s) PROVE Goal
  <2>1. mReq[r].pc = "body" /\ mReq[r] \in Mappings!Requests
    BY <1>0, <1>3 DEF Mappings!PostHelper, Mappings!TypeOK
  <2>2. mReq[r].dom \in Helpers /\ mReq[r].target \in {"main", "other"}
    BY <2>1 DEF Mappings!Requests, Mappings!Idle, Mappings!Awaiting, Mappings!File
  <2>3. OneCell(mReq[r].dom, mReq[r].target, s)
    BY <1>3, SaveIsOneCell DEF Mappings!PostHelper
  <2> QED
    BY <1>0, <2>2, <2>3
<1>4. ASSUME NEW r \in Slots, NEW s \in Slug, NEW doms,
             Mappings!PutHelper(r, s, doms) \/ Mappings!DeleteHelper(r, s, doms)
      PROVE  Goal
  <2> DEFINE d == Mappings!Locate(s, doms)
             p == Mappings!Owner(d, s)
  <2>1. d \in Helpers
    BY <1>4 DEF Mappings!PutHelper, Mappings!DeleteHelper
  <2>2. d \in Mappings!Owners(s) /\ p # "keyed"
    BY <2>1, LocateIsSure
  <2>3. p \in {"main", "other"}
    BY <1>0, <2>1, <2>2, OwnersAreHelpers, OwnerStands, SearchedPlaces
  <2>4. OneCell(d, p, s)
    BY <1>4, SaveIsOneCell, RemoveIsOneCell DEF Mappings!PutHelper, Mappings!DeleteHelper
  <2> HIDE DEF d, p
  <2> QED
    BY <1>0, <2>1, <2>3, <2>4
<1>5. ASSUME NEW r \in Slots, NEW d \in Helpers,
             Mappings!PostHelperProves(r, d) \/ Mappings!PostHelperEnds(r)
      PROVE  FALSE
  BY <1>5 DEF Mappings!PostHelperProves, Mappings!PostHelperEnds
<1>6. ASSUME NEW r \in Slots, Mappings!PostHelperEnds(r) PROVE FALSE
  BY <1>6 DEF Mappings!PostHelperEnds
<1>7. ASSUME NEW d, NEW f, Mappings!Rewire(d, f) PROVE FALSE
  BY <1>7 DEF Mappings!Rewire
<1>8. ~UNCHANGED Mappings!vars
  BY DEF Mappings!vars
<1> QED
  BY <1>1, <1>2, <1>3, <1>4, <1>5, <1>6, <1>7, <1>8
     DEF Mappings!SteadyNext, Mappings!Request, Mappings!Arrive, Mappings!Proceed

-----------------------------------------------------------------------------
(* What callers see                                                          *)

(* An entry whose cells are not touched is read where it was, as it was.     *)
LEMMA OthersAreSeenTheSame ==
  ASSUME Mappings!TypeOK, NEW d, NEW p, NEW s, OneCell(d, p, s), mInclude' = mInclude,
         NEW e \in Mappings!Domain, NEW k, <<e, k>> # <<d, s>>
  PROVE  /\ Mappings!Owner(e, k)' = Mappings!Owner(e, k)
         /\ Mappings!Owner(e, k) # "none" =>
              mHeld'[<<e, Mappings!Owner(e, k), k>>] = mHeld[<<e, Mappings!Owner(e, k), k>>]
<1>1. Mappings!Searched(e)' = Mappings!Searched(e)
  BY DEF Mappings!Searched, Mappings!Read
<1>2. \A q : <<e, q, k>> \in DOMAIN mHeld' <=> <<e, q, k>> \in DOMAIN mHeld
  BY DEF OneCell
<1>3. {q \in Mappings!Searched(e) : <<e, q, k>> \in DOMAIN mHeld'}
        = {q \in Mappings!Searched(e) : <<e, q, k>> \in DOMAIN mHeld}
  BY <1>2
<1>4. Mappings!Owner(e, k)' = Mappings!Owner(e, k)
  BY <1>1, <1>3 DEF Mappings!Owner, Mappings!FirstWith
<1>5. Mappings!Owner(e, k) # "none" => <<e, Mappings!Owner(e, k), k>> \in DOMAIN mHeld
  BY OwnerStands
<1> QED
  BY <1>4, <1>5 DEF OneCell

(* Touching the cells of one key leaves the catalog under all others alone.  *)
LEMMA OneCellIsOneKey ==
  ASSUME Mappings!TypeOK, NEW d \in Mappings!Domain, NEW s \in Slug, NEW p,
         OneCell(d, p, s), mInclude' = mInclude
  PROVE  /\ Mappings!Callers!Only({<<d, s>>})
         /\ \A e \in Mappings!Domain \X Slug : e # <<d, s>> =>
              (e \in Mappings!Callers!Key' <=> e \in Mappings!Callers!Key)
<1> DEFINE E   == Mappings!Domain \X Slug
           K   == {e \in E : Mappings!Owner(e[1], e[2]) # "none"}
           KN  == {e \in E : Mappings!Owner(e[1], e[2])' # "none"}
           k   == <<d, s>>
           Was(e) == mHeld[<<e[1], Mappings!Owner(e[1], e[2]), e[2]>>]
           Is(e)  == mHeld'[<<e[1], Mappings!Owner(e[1], e[2])', e[2]>>]
<1>1. Mappings!Shown = [e \in K |-> Was(e)] /\ Mappings!Shown' = [e \in KN |-> Is(e)]
  BY DEF Mappings!Shown
<1>2. \A e \in E : e # k =>
        /\ Mappings!Owner(e[1], e[2])' = Mappings!Owner(e[1], e[2])
        /\ Mappings!Owner(e[1], e[2]) # "none" => Is(e) = Was(e)
  <2> SUFFICES ASSUME NEW x \in Mappings!Domain, NEW y \in Slug, <<x, y>> # k
               PROVE  /\ Mappings!Owner(x, y)' = Mappings!Owner(x, y)
                      /\ Mappings!Owner(x, y) # "none" =>
                           mHeld'[<<x, Mappings!Owner(x, y), y>>] = mHeld[<<x, Mappings!Owner(x, y), y>>]
    OBVIOUS
  <2> QED
    BY OthersAreSeenTheSame
<1>3. \A e \in E : e # k => (e \in K <=> e \in KN) /\ (e \in K => Is(e) = Was(e))
  BY <1>2
<1> HIDE DEF E, Was, Is, k
<1>4. K \subseteq E /\ KN \subseteq E
  OBVIOUS
<1> HIDE DEF K, KN
<1>5. KN \ {k} = K \ {k} /\ \A e \in K \ {k} : Is(e) = Was(e)
  BY <1>3, <1>4
<1>6. Mappings!Callers!Only({k})
  BY <1>1, <1>5 DEF Mappings!Callers!Only, Mappings!Callers!Key, Mappings!Callers!Restrict
<1>7. \A e \in E : e # k => (e \in Mappings!Callers!Key' <=> e \in Mappings!Callers!Key)
  BY <1>1, <1>3 DEF Mappings!Callers!Key
<1> QED
  BY <1>6, <1>7 DEF k, E

(* An entry of the catalog, and where it is read.                            *)
LEMMA KeyIsOwned ==
  ASSUME NEW d \in Mappings!Domain, NEW s \in Slug
  PROVE  /\ <<d, s>> \in Mappings!Callers!Key <=> Mappings!Owner(d, s) # "none"
         /\ <<d, s>> \in Mappings!Callers!Key =>
              Mappings!Shown[<<d, s>>] = mHeld[<<d, Mappings!Owner(d, s), s>>]
         /\ <<d, s>> \in Mappings!Callers!Key' <=> Mappings!Owner(d, s)' # "none"
         /\ <<d, s>> \in Mappings!Callers!Key' =>
              Mappings!Shown'[<<d, s>>] = mHeld'[<<d, Mappings!Owner(d, s)', s>>]
         /\ Mappings!Callers!Key \subseteq Mappings!Domain \X Slug
         /\ Mappings!Callers!Key' \subseteq Mappings!Domain \X Slug
  BY DEF Mappings!Callers!Key, Mappings!Shown

(* Writing an entry over itself.                                             *)
LEMMA SaveUpdates ==
  ASSUME Mappings!TypeOK, NEW d \in Mappings!Domain, NEW s \in Slug, NEW r,
         Mappings!Owner(d, s) # "none", Mappings!Save(r, <<d, Mappings!Owner(d, s), s>>)
  PROVE  Mappings!Callers!Update(<<d, s>>, "new")
<1> DEFINE p == Mappings!Owner(d, s)
<1>1. <<d, p, s>> \in DOMAIN mHeld
  BY OwnerStands
<1>2. /\ mInclude' = mInclude /\ DOMAIN mHeld' = DOMAIN mHeld
      /\ mHeld'[<<d, p, s>>] = "new"
  BY <1>1 DEF Mappings!Save
<1>3. OneCell(d, p, s)
  BY SaveIsOneCell
<1>4. Mappings!Owner(d, s)' = p
  BY <1>2 DEF Mappings!Owner, Mappings!FirstWith, Mappings!Searched, Mappings!Read
<1> HIDE DEF p
<1>5. /\ Mappings!Callers!Only({<<d, s>>})
      /\ \A e \in Mappings!Domain \X Slug : e # <<d, s>> =>
           (e \in Mappings!Callers!Key' <=> e \in Mappings!Callers!Key)
  BY <1>2, <1>3, OneCellIsOneKey
<1>6. <<d, s>> \in Mappings!Callers!Key /\ <<d, s>> \in Mappings!Callers!Key'
  BY <1>4, KeyIsOwned DEF p
<1>7. Mappings!Shown'[<<d, s>>] = "new"
  BY <1>2, <1>4, <1>6, KeyIsOwned
<1>8. Mappings!Callers!Key' = Mappings!Callers!Key
  <2>1. /\ Mappings!Callers!Key \subseteq Mappings!Domain \X Slug
        /\ Mappings!Callers!Key' \subseteq Mappings!Domain \X Slug
    BY KeyIsOwned
  <2> QED
    BY <1>5, <1>6, <2>1
<1> QED
  BY <1>5, <1>6, <1>7, <1>8 DEF Mappings!Callers!Update

(* Removing the one entry there is.                                          *)
LEMMA RemoveDeletes ==
  ASSUME Mappings!TypeOK, NEW d \in Mappings!Domain, NEW s \in Slug,
         Mappings!Owner(d, s) # "none", Mappings!Remove(<<d, Mappings!Owner(d, s), s>>),
         \A p, q \in MapHits(Mappings!Searched(d), d, s) : p = q
  PROVE  Mappings!Callers!Delete(<<d, s>>)
<1> DEFINE p == Mappings!Owner(d, s)
<1>1. /\ mInclude' = mInclude /\ DOMAIN mHeld' = DOMAIN mHeld \ {<<d, p, s>>}
  BY DEF Mappings!Remove, Mappings!Restrict
<1>2. OneCell(d, p, s)
  BY RemoveIsOneCell
<1>3. Mappings!Searched(d)' = Mappings!Searched(d)
  BY <1>1 DEF Mappings!Searched, Mappings!Read
<1>4. MapHits(Mappings!Searched(d), d, s) = {p}
  BY OwnerStands DEF MapHits
<1>5. {q \in Mappings!Searched(d) : <<d, q, s>> \in DOMAIN mHeld'} = {}
  BY <1>1, <1>4 DEF MapHits
<1>6. Mappings!Owner(d, s)' = "none"
  BY <1>3, <1>5 DEF Mappings!Owner, Mappings!FirstWith
<1> HIDE DEF p
<1>7. /\ Mappings!Callers!Only({<<d, s>>})
      /\ \A e \in Mappings!Domain \X Slug : e # <<d, s>> =>
           (e \in Mappings!Callers!Key' <=> e \in Mappings!Callers!Key)
  BY <1>1, <1>2, OneCellIsOneKey
<1>8. <<d, s>> \in Mappings!Callers!Key /\ <<d, s>> \notin Mappings!Callers!Key'
  BY <1>6, KeyIsOwned
<1>9. Mappings!Callers!Key' = Mappings!Callers!Key \ {<<d, s>>}
  BY <1>7, <1>8, KeyIsOwned
<1> QED
  BY <1>7, <1>8, <1>9 DEF Mappings!Callers!Delete

(* A script is read in one place.                                            *)
LEMMA ScriptsHaveOnePlace ==
  ASSUME Mappings!TypeOK
  PROVE  /\ Script \in Mappings!Domain
         /\ \A p, q \in Mappings!Searched(Script) : p = q
<1>1. Script \in Mappings!Domain /\ Script \notin Keyed
  BY HelpersAssumption DEF Mappings!Domain
<1> QED
  BY <1>1, SearchedPlaces

LEMMA ScriptRequestsDoAsAsked ==
  ASSUME Mappings!TypeOK, NEW r \in Slots, NEW s \in Slug
  PROVE  /\ Mappings!PutScript(r, s)    => Mappings!Callers!Update(<<Script, s>>, "new")
         /\ Mappings!PostScript(r, s)   => Mappings!Callers!Create({<<Script, s>>}, {"new"})
         /\ Mappings!DeleteScript(r, s) => Mappings!Callers!Delete(<<Script, s>>)
<1> DEFINE k == <<Script, s>>
<1>1. ASSUME Mappings!PutScript(r, s) PROVE Mappings!Callers!Update(k, "new")
  BY <1>1, ScriptsHaveOnePlace, SaveUpdates DEF Mappings!PutScript
<1>2. ASSUME Mappings!DeleteScript(r, s) PROVE Mappings!Callers!Delete(k)
  <2>1. Mappings!Owner(Script, s) # "none" /\ Mappings!Remove(<<Script, Mappings!Owner(Script, s), s>>)
    BY <1>2 DEF Mappings!DeleteScript
  <2>2. \A p, q \in MapHits(Mappings!Searched(Script), Script, s) : p = q
    BY ScriptsHaveOnePlace DEF MapHits
  <2> QED
    BY <2>1, <2>2, ScriptsHaveOnePlace, RemoveDeletes
<1>3. ASSUME Mappings!PostScript(r, s) PROVE Mappings!Callers!Create({k}, {"new"})
  <2> DEFINE p == mInclude[Script]
  <2>1. /\ p # "none" /\ <<Script, p, s>> \notin DOMAIN mHeld
        /\ Mappings!Save(r, <<Script, p, s>>)
    BY <1>3 DEF Mappings!PostScript
  <2>2. /\ mInclude' = mInclude /\ <<Script, p, s>> \in DOMAIN mHeld'
        /\ mHeld'[<<Script, p, s>>] = "new"
    BY <2>1 DEF Mappings!Save
  <2>3. Mappings!Searched(Script) = {p} /\ Mappings!Searched(Script)' = {p}
    <3>1. Script \notin Keyed
      BY HelpersAssumption
    <3> QED
      BY <2>1, <2>2, <3>1 DEF Mappings!Searched, Mappings!Read
  <2>4. OneCell(Script, p, s)
    BY <2>1, SaveIsOneCell
  <2> HIDE DEF p
  <2>5. Mappings!Owner(Script, s) = "none"
    BY <2>1, <2>3 DEF Mappings!Owner, Mappings!FirstWith
  <2>6. Mappings!Owner(Script, s)' = p
    <3> DEFINE hits == {q \in {p} : <<Script, q, s>> \in DOMAIN mHeld'}
    <3>1. hits = {p}
      BY <2>2
    <3>2. p # "keyed"
      <4>1. p \in {"main", "other", "none"}
        BY ScriptsHaveOnePlace DEF p, Mappings!TypeOK, Mappings!File
      <4> QED
        BY <4>1
    <3>3. (CHOOSE q \in hits : q # "keyed") = p
      BY <3>1, <3>2
    <3> QED
      BY <2>3, <3>1, <3>2, <3>3 DEF Mappings!Owner, Mappings!FirstWith
  <2>7. /\ Mappings!Callers!Only({k})
        /\ \A e \in Mappings!Domain \X Slug : e # k =>
             (e \in Mappings!Callers!Key' <=> e \in Mappings!Callers!Key)
    BY <2>2, <2>4, ScriptsHaveOnePlace, OneCellIsOneKey
  <2>8. k \notin Mappings!Callers!Key /\ k \in Mappings!Callers!Key'
    BY <2>1, <2>5, <2>6, ScriptsHaveOnePlace, KeyIsOwned
  <2>9. Mappings!Shown'[k] = "new"
    BY <2>2, <2>6, <2>8, ScriptsHaveOnePlace, KeyIsOwned
  <2>10. Mappings!Callers!Key' = Mappings!Callers!Key \cup {k}
    BY <2>7, <2>8, ScriptsHaveOnePlace, KeyIsOwned
  <2> QED
    BY <2>7, <2>8, <2>9, <2>10 DEF Mappings!Callers!Create
<1> QED
  BY <1>1, <1>2, <1>3

LEMMA HelperCreatesDoAsAsked ==
  ASSUME Mappings!TypeOK, NEW r \in Slots, NEW s \in Slug, Mappings!PostHelper(r, s),
         NEW d \in Helpers, mReq[r].dom = d
  PROVE  /\ Mappings!Callers!Only({<<d, s>>})
         /\ mInclude[d] = mReq[r].target => <<d, s>> \in DOMAIN Mappings!Shown'
<1> DEFINE p == mReq[r].target
<1>1. d \in Mappings!Domain
  BY DEF Mappings!Domain
<1>2. Mappings!Save(r, <<d, p, s>>) /\ mReq[r].pc = "body"
  BY DEF Mappings!PostHelper
<1>3. /\ mInclude' = mInclude /\ <<d, p, s>> \in DOMAIN mHeld'
  BY <1>2 DEF Mappings!Save
<1>4. p \in {"main", "other"}
  BY <1>2 DEF Mappings!TypeOK, Mappings!Requests, Mappings!Idle, Mappings!Awaiting, Mappings!File
<1> HIDE DEF p
<1>5. Mappings!Callers!Only({<<d, s>>})
  BY <1>1, <1>2, <1>3, SaveIsOneCell, OneCellIsOneKey
<1>6. ASSUME mInclude[d] = p PROVE <<d, s>> \in DOMAIN Mappings!Shown'
  <2> DEFINE hits == {q \in Mappings!Searched(d) : <<d, q, s>> \in DOMAIN mHeld'}
  <2>1. Mappings!Searched(d)' = Mappings!Searched(d)
    BY <1>3 DEF Mappings!Searched, Mappings!Read
  <2>2. p \in hits
    BY <1>3, <1>4, <1>6 DEF Mappings!Searched, Mappings!Read
  <2>3. "none" \notin hits
    BY <1>1, SearchedPlaces
  <2>4. Mappings!Owner(d, s)' =
          CASE hits = {} -> "none"
            [] "keyed" \in hits /\ (hits = {"keyed"} \/ d \in KeyedFirst) -> "keyed"
            [] OTHER -> CHOOSE q \in hits : q # "keyed"
    BY <2>1 DEF Mappings!Owner, Mappings!FirstWith
  <2> HIDE DEF hits
  <2>5. (\E q \in hits : q # "keyed") => (CHOOSE q \in hits : q # "keyed") \in hits
    OBVIOUS
  <2>6. hits # {} /\ (hits = {"keyed"} \/ \E q \in hits : q # "keyed")
    BY <2>2
  <2>7. Mappings!Owner(d, s)' # "none"
    BY <2>3, <2>4, <2>5, <2>6
  <2> QED
    BY <1>1, <2>7, KeyIsOwned DEF Mappings!Callers!Key
<1> QED
  BY <1>5, <1>6 DEF p

LEMMA HelperWritesDoAsAsked ==
  ASSUME Mappings!TypeOK, NEW r \in Slots, NEW s \in Slug, NEW doms,
         NEW d, d = Mappings!Locate(s, doms)
  PROVE  /\ Mappings!PutHelper(r, s, doms) => Mappings!Callers!Update(<<d, s>>, "new")
         /\ Mappings!DeleteHelper(r, s, doms) =>
              IF Mappings!Cardinality(Mappings!Places(d, s)) = 1
                THEN Mappings!Callers!Delete(<<d, s>>)
                ELSE Mappings!Callers!Only({<<d, s>>})
<1> DEFINE p == Mappings!Owner(d, s)
<1>1. ASSUME d \in Helpers PROVE d \in Mappings!Domain /\ p # "none"
  <2>1. d \in Mappings!Owners(s)
    BY <1>1, LocateIsSure
  <2> QED
    BY <1>1, <2>1, OwnersAreHelpers DEF Mappings!Domain
<1>2. ASSUME Mappings!PutHelper(r, s, doms) PROVE Mappings!Callers!Update(<<d, s>>, "new")
  <2>1. d \in Helpers /\ Mappings!Save(r, <<d, p, s>>)
    BY <1>2 DEF Mappings!PutHelper
  <2> QED
    BY <1>1, <2>1, SaveUpdates
<1>3. ASSUME Mappings!DeleteHelper(r, s, doms)
      PROVE  IF Mappings!Cardinality(Mappings!Places(d, s)) = 1
               THEN Mappings!Callers!Delete(<<d, s>>)
               ELSE Mappings!Callers!Only({<<d, s>>})
  <2>1. d \in Helpers /\ Mappings!Remove(<<d, p, s>>)
    BY <1>3 DEF Mappings!DeleteHelper
  <2>2. d \in Mappings!Domain /\ p # "none"
    BY <1>1, <2>1
  <2>3. CASE Mappings!Cardinality(Mappings!Places(d, s)) = 1
    <3> DEFINE places == Mappings!Places(d, s)
    <3>1. places = MapHits(Mappings!Searched(d), d, s)
      BY DEF Mappings!Places, MapHits
    <3>2. places \subseteq {"main", "other", "keyed"}
      BY <2>2, SearchedPlaces DEF Mappings!Places
    <3>3. IsFiniteSet({"main", "other", "keyed"})
      <4>1. IsFiniteSet({"main"} \cup {"other"})
        BY FS_Singleton, FS_AddElement
      <4>2. IsFiniteSet(({"main"} \cup {"other"}) \cup {"keyed"})
        BY <4>1, FS_AddElement
      <4>3. {"main", "other", "keyed"} = ({"main"} \cup {"other"}) \cup {"keyed"}
        OBVIOUS
      <4> QED
        BY <4>2, <4>3
    <3>4. IsFiniteSet(places)
      BY <3>2, <3>3, FS_Subset
    <3>5. Cardinality(places) = 1
      BY <2>3, SameFiniteSets
    <3> HIDE DEF places
    <3>6. \E q : places = {q}
      BY <3>4, <3>5, FS_Singleton
    <3>7. \A x, y \in MapHits(Mappings!Searched(d), d, s) : x = y
      BY <3>1, <3>6
    <3> QED
      BY <2>1, <2>2, <2>3, <3>7, RemoveDeletes
  <2>4. CASE Mappings!Cardinality(Mappings!Places(d, s)) # 1
    <3>1. mInclude' = mInclude
      BY <2>1 DEF Mappings!Remove
    <3>2. Mappings!Callers!Only({<<d, s>>})
      BY <2>1, <2>2, <3>1, RemoveIsOneCell, OneCellIsOneKey
    <3> QED
      BY <2>4, <3>2
  <2> QED
    BY <2>3, <2>4
<1> QED
  BY <1>2, <1>3

LEMMA RequestsDoAsAsked == MapInv => Mappings!Asked
<1> SUFFICES ASSUME Mappings!TypeOK PROVE Mappings!Asked
  BY DEF MapInv
<1>1. ASSUME NEW r \in Slots, NEW s \in Slug, NEW d \in Helpers,
             Mappings!PostHelper(r, s) /\ mReq[r].dom = d
      PROVE  /\ Mappings!Callers!Only({<<d, s>>})
             /\ mInclude[d] = mReq[r].target => <<d, s>> \in DOMAIN Mappings!Shown'
  BY <1>1, HelperCreatesDoAsAsked
<1>2. ASSUME NEW r \in Slots, NEW s \in Slug, NEW doms \in Mappings!Scopes
      PROVE  LET d == Mappings!Locate(s, doms) IN
             /\ Mappings!PutHelper(r, s, doms) => Mappings!Callers!Update(<<d, s>>, "new")
             /\ Mappings!DeleteHelper(r, s, doms) =>
                  IF Mappings!Cardinality(Mappings!Places(d, s)) = 1
                    THEN Mappings!Callers!Delete(<<d, s>>)
                    ELSE Mappings!Callers!Only({<<d, s>>})
  BY HelperWritesDoAsAsked
<1> QED
  BY <1>1, <1>2, ScriptRequestsDoAsAsked DEF Mappings!Asked

-----------------------------------------------------------------------------
(* The theorems.  Overlap is a behaviour of the two routes, whatever it is    *)
(* about: a store at rest is one that nothing happens to.                     *)

SteadySpec == Mappings!Init /\ [][Mappings!SteadyNext]_Mappings!vars

LEMMA OverlapHasMappings == OverlapSpec => SteadySpec
<1>1. OverlapInit => Mappings!Init
  <2> SUFFICES ASSUME OverlapInit, MapRests PROVE Mappings!Init
    BY DEF OverlapInit
  <2>1. {} \in SUBSET Mappings!Cell /\ Mappings!Cardinality({}) = 0
    BY SameFiniteSets, FS_EmptySet
  <2> QED
    BY <2>1, BoundAssumption DEF MapRests, Mappings!Init
<1>2. [OverlapNext]_allVars => [Mappings!SteadyNext]_Mappings!vars
  BY DEF OverlapNext, allVars, mapVars, Mappings!vars
<1> QED
  BY <1>1, <1>2, PTL DEF OverlapSpec, SteadySpec

LEMMA MapInvariant == OverlapSpec => []MapInv
  BY OverlapHasMappings, MapInit, MapStep, PTL DEF SteadySpec

(* C-10: whatever was answered "created" stands in a file HA reads until it   *)
(* is deleted or its include is moved - as long as the user does not move a   *)
(* helper domain's include while a create in that domain waits for its body   *)
(* (SteadyNext; helper_target.cfg shows what happens when he does).           *)
THEOREM CreatedEntriesAreRead == OverlapSpec => []CreatedIsRead
<1>1. MapInv => CreatedIsRead
  <2> SUFFICES ASSUME MapInv, NEW e \in mMade PROVE Mappings!Defines(e[1], e[2])
    BY DEF CreatedIsRead, Mappings!CreatedIsRead
  <2>1. PICK d \in Mappings!Domain, s \in Slug : e = <<d, s>>
    BY DEF MapInv, Mappings!TypeOK
  <2>2. mInclude[d] # "none" /\ <<d, mInclude[d], s>> \in DOMAIN mHeld
    BY <2>1 DEF MapInv, MadeStands
  <2>3. mInclude[d] \in Mappings!Read(d) /\ "none" \notin Mappings!Read(d)
    BY <2>2, SearchedPlaces DEF MapInv
  <2>4. MapHits(Mappings!Read(d), d, s) # {}
    BY <2>2, <2>3 DEF MapHits
  <2>5. Mappings!FirstWith(Mappings!Read(d), d, s) # "none"
    BY <2>3, <2>4, FirstIsAHit
  <2> QED
    BY <2>1, <2>5 DEF Mappings!Defines
<1> QED
  BY <1>1, MapInvariant, PTL

(* A helper GET resolves is never "not found" to PUT and DELETE.              *)
THEOREM ReadsAgreeWithWrites == OverlapSpec => []Mappings!ReadsAndWritesAgree
<1>1. MapInv => Mappings!ReadsAndWritesAgree
  <2> SUFFICES ASSUME MapInv, NEW s \in Slug
               PROVE  (Mappings!GetAnswer(s) = "missing")
                        <=> (Mappings!Locate(s, Mappings!AllDomains) = "missing")
    BY DEF Mappings!ReadsAndWritesAgree
  <2> DEFINE ui == Mappings!InUi(s, Mappings!AllDomains)
             own == Mappings!Owners(s)
  <2>1. own \cap Mappings!AllDomains = own
    BY OwnersAreHelpers
  <2>2. IsFiniteSet(ui)
    <3>1. ui \in SUBSET Ui
      BY DEF Mappings!InUi
    <3> QED
      BY <3>1, HelpersAssumption, FS_Subset
  <2>3. Cardinality(ui) \in Nat /\ (Cardinality(ui) = 0 <=> ui = {})
    BY <2>2, FS_CardinalityType, FS_EmptySet
  <2>4. Mappings!Cardinality(ui) = Cardinality(ui)
    BY SameFiniteSets
  <2>5. Mappings!GetAnswer(s) = "missing" <=> own = {} /\ ui = {}
    <3>1. CASE own # {}
      BY <3>1 DEF Mappings!GetAnswer
    <3>2. CASE own = {} /\ ui = {}
      <4>1. ~(Mappings!Cardinality(ui) = 1) /\ ~(Mappings!Cardinality(ui) > 1)
        BY <2>3, <2>4, <3>2
      <4> QED
        BY <3>2, <4>1 DEF Mappings!GetAnswer
    <3>3. CASE own = {} /\ ui # {}
      <4>1. Mappings!Cardinality(ui) = 1 \/ Mappings!Cardinality(ui) > 1
        BY <2>3, <2>4, <3>3
      <4>2. ~(Mappings!Cardinality(ui) = 1) \/ ~(Mappings!Cardinality(ui) > 1)
        BY <2>3, <2>4
      <4> QED
        BY <3>3, <4>1, <4>2 DEF Mappings!GetAnswer
    <3> QED
      BY <3>1, <3>2, <3>3
  <2> DEFINE sure == Mappings!Cardinality(own) = 1 /\ \A d \in own : Mappings!Owner(d, s) # "keyed"
  <2>6. sure => own # {} /\ (CHOOSE d \in own : TRUE) # "missing"
    <3> SUFFICES ASSUME sure PROVE own # {} /\ (CHOOSE d \in own : TRUE) # "missing"
      OBVIOUS
    <3>1. own # {}
      BY SameFiniteSets, FS_EmptySet
    <3>2. (CHOOSE d \in own : TRUE) \in own
      BY <3>1
    <3> QED
      BY <3>1, <3>2, OwnersAreHelpers, HelpersAssumption
  <2>7. Mappings!Locate(s, Mappings!AllDomains) = "missing" <=> own = {} /\ ui = {}
    BY <2>1, <2>6 DEF Mappings!Locate
  <2> QED
    BY <2>5, <2>7
<1> QED
  BY <1>1, MapInvariant, PTL

(* What stands under a key - inline, or in a package - is never spliced.      *)
THEOREM KeyedIsUntouched == OverlapSpec => Mappings!KeyedUntouched
<1>1. MapInv /\ [Mappings!SteadyNext]_Mappings!vars =>
        [\A c \in DOMAIN mHeld : c[2] = "keyed" =>
           c \in DOMAIN mHeld' /\ mHeld'[c] = mHeld[c]]_Mappings!vars
  <2> SUFFICES ASSUME MapInv, [Mappings!SteadyNext]_Mappings!vars,
                      NEW c \in DOMAIN mHeld, c[2] = "keyed"
               PROVE  c \in DOMAIN mHeld' /\ mHeld'[c] = mHeld[c]
    OBVIOUS
  <2>1. CASE mHeld' = mHeld
    BY <2>1
  <2>2. CASE mHeld' # mHeld
    <3>1. PICK d \in Mappings!Domain, s \in Slug, p \in {"main", "other"} : OneCell(d, p, s)
      BY <2>2, StepsAreOneCell
    <3>2. c # <<d, p, s>>
      OBVIOUS
    <3> QED
      BY <3>1, <3>2 DEF OneCell
  <2> QED
    BY <2>1, <2>2
<1> QED
  BY <1>1, OverlapHasMappings, MapInvariant, PTL DEF SteadySpec, Mappings!KeyedUntouched

(* C-14 for scripts and helpers: seen through the read routes, each request   *)
(* adds, replaces or removes the entry it names, with the body it brings, and *)
(* no other - whichever places a domain has, and whatever overlaps.           *)
THEOREM MappingsImplementCatalog == OverlapSpec => Mappings!EntriesAreACatalog
<1>1. MapInv => [UNCHANGED Mappings!vars \/ Mappings!Asked]_Mappings!vars
  BY RequestsDoAsAsked
<1> QED
  BY <1>1, MapInvariant, PTL DEF Mappings!EntriesAreACatalog
=============================================================================
