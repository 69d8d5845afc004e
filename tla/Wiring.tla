------------------------------- MODULE Wiring -------------------------------
(***************************************************************************)
(* Which file a create may extend, and which files a read must look at, as *)
(* functions of configuration.yaml (wiring.py).  Home Assistant's own      *)
(* rules, HaReads, are what both answers are held against.                 *)
(*                                                                         *)
(* A configuration is a record: sound, whether it parses to a mapping;     *)
(* keys, what stands under the bare and labelled keys of the domain, in    *)
(* file order; packages, what stands under homeassistant: packages:.       *)
(* What stands there is a tag - "inline" for none - and a path.            *)
(*                                                                         *)
(* A list of places is a function from where each was found: the number of *)
(* the key, the number of the file in its directory, the number of the key *)
(* in its package.  The order of the list is the order of these.           *)
(***************************************************************************)
EXTENDS Naturals, Sequences, FiniteSets, Functions

CONSTANTS
  Path,         \* files and directories
  Key,          \* keys of the domain, bare and labelled
  Keys,         \* those of configuration.yaml, in file order
  Conventional, \* <domain>.yaml
  Outside,      \* what confine or is_denied_path refuses: secrets.yaml, wherever
                \* it is, denied directories, links out of the configuration
  Members,      \* Members[p]: what include_dir_files lists, in order
  Configures,   \* Configures[p]: the keys of the domain at the root of file p
  ByName         \* ByName[p]: <<package, key of the domain>> for the packages that
                \* file p, or configuration.yaml itself, lists by name

Main == "configuration.yaml"

MergeDirs   == {"merge_named", "merge_list"}
UnknownDirs == {"named", "list"}
Tags        == {"include", "inline", "other"} \cup MergeDirs \cup UnknownDirs

Value         == [tag : Tags, path : Path]
Configuration == [sound : BOOLEAN, keys : Seq(Value), packages : Value]

\* DomainFile: a place, under a key or (<<>>) at the root.
Place(f, under) == [file |-> f, under |-> under]
Root(f)         == Place(f, <<>>)

Refused == "refused"

-----------------------------------------------------------------------------
(* wired_target: the one file a create may append to *)

Includes(c) == {i \in DOMAIN c.keys : c.keys[i].tag = "include"}

Targets(c) == {c.keys[i].path : i \in Includes(c)}

\* Mutant of WiredTarget: the conventional name wins.
WiredTargetByName(c) ==
  IF c.sound /\ c.keys # <<>> THEN Conventional ELSE Refused

\* The include that names the conventional file, or else the only one.
WiredTarget(c) ==
  IF ~c.sound \/ (Targets(c) \cup {Conventional}) \cap Outside # {} THEN Refused
  ELSE IF Conventional \in Targets(c) THEN Conventional
  ELSE IF Cardinality(Includes(c)) = 1 THEN CHOOSE f \in Targets(c) : TRUE
  ELSE Refused

-----------------------------------------------------------------------------
(* readable_domain_files: the places a read looks at *)

\* _dir_members, by their numbers.
DirMembers(dir) ==
  IF dir \in Outside THEN {}
  ELSE {i \in DOMAIN Members[dir] : Members[dir][i] \notin Outside}

\* Mutant of KeyPlaces: directories are not looked into.
KeyPlacesOfFiles(v, key) ==
  CASE v.tag = "include" -> [n \in {<<1, 1>>} |-> Root(v.path)]
    [] v.tag = "inline"  -> [n \in {<<1, 1>>} |-> Place(Main, <<key>>)]
    [] OTHER             -> [n \in {} |-> Root(Main)]

KeyPlaces(v, key) ==
  CASE v.tag = "include"   -> [n \in {<<1, 1>>} |-> Root(v.path)]
    [] v.tag \in MergeDirs -> [n \in DirMembers(v.path) \X {1} |-> Root(Members[v.path][n[1]])]
    [] v.tag = "inline"    -> [n \in {<<1, 1>>} |-> Place(Main, <<key>>)]
    [] OTHER               -> [n \in {} |-> Root(Main)]

\* _package_files.
PackageFiles(p) ==
  CASE p.tag \in {"inline", "other"} -> [i \in {} |-> Main]
    [] p.tag = "include"             -> [i \in {1} |-> p.path]
    [] OTHER                         -> [i \in DirMembers(p.path) |-> Members[p.path][i]]

PackagePlaces(p) ==
  LET files == PackageFiles(p)
  IN  [n \in UNION {{i} \X DOMAIN Configures[files[i]] : i \in DOMAIN files} |->
         Place(files[n[1]], <<Configures[files[n[1]]][n[2]]>>)]

\* What is found at key i, the packages coming after all keys.
FoundAt(c, i) ==
  IF i \in DOMAIN c.keys THEN KeyPlaces(c.keys[i], Keys[i]) ELSE PackagePlaces(c.packages)

Spots(c) == UNION {{i} \X DOMAIN FoundAt(c, i) : i \in 1 .. Len(c.keys) + 1}

Found(c) == [n \in Spots(c) |-> FoundAt(c, n[1])[n[2]]]

Before(m, n) ==
  \/ m[1] < n[1]
  \/ m[1] = n[1] /\ m[2][1] < n[2][1]
  \/ m[1] = n[1] /\ m[2][1] = n[2][1] /\ m[2][2] < n[2][2]

\* Mutant of Once: a file wired twice is read twice.
OnceNot(found) == found

\* seen and unique.
Once(found) ==
  Restrict(found, {n \in DOMAIN found :
                     \A m \in DOMAIN found : found[m] = found[n] => ~Before(m, n)})

FoundNothing(c) == ~c.sound \/ Spots(c) = {}

\* An !include that leads outside raises, here, in the middle of a read.
Raises(c) ==
  \/ c.sound /\ Targets(c) \cap Outside # {}
  \/ c.sound /\ c.packages.tag = "include" /\ c.packages.path \in Outside
  \/ FoundNothing(c) /\ Conventional \in Outside

Readable(c) ==
  IF FoundNothing(c) THEN [n \in {<<1, <<1, 1>>>>} |-> Root(Conventional)] ELSE Once(Found(c))

-----------------------------------------------------------------------------
(* Home Assistant's rules (external), and the part of them the routes know *)

HaKey(v, key) ==
  CASE v.tag = "include"                    -> {Root(v.path)}
    [] v.tag \in MergeDirs \cup UnknownDirs -> {Root(f) : f \in Range(Members[v.path])}
    [] v.tag = "inline"                     -> {Place(Main, <<key>>)}
    [] OTHER                                -> {}

\* Packages are a mapping from names: written out, a file, the merged files of a
\* directory - or each file a package called like itself.  A list is refused.
HaPackage(p) ==
  LET listed(f) == {Place(f, n) : n \in ByName[f]}
      itself(f) == {Place(f, <<k>>) : k \in Range(Configures[f])}
  IN  CASE p.tag = "inline"      -> listed(Main)
        [] p.tag = "include"     -> listed(p.path)
        [] p.tag = "merge_named" -> UNION {listed(f) : f \in Range(Members[p.path])}
        [] p.tag = "named"       -> UNION {itself(f) : f \in Range(Members[p.path])}
        [] OTHER                 -> {}

HaReads(c) ==
  IF c.sound
  THEN HaPackage(c.packages) \cup UNION {HaKey(c.keys[i], Keys[i]) : i \in DOMAIN c.keys}
  ELSE {}

\* What the routes do not read: what UNRESOLVED_DIR_TAGS declares, packages
\* written out ("deferred", _package_files), and packages listed by name in files.
Unread(c) ==
  (IF c.packages.tag = "named" THEN {} ELSE HaPackage(c.packages))
    \cup UNION {HaKey(c.keys[i], Keys[i]) : i \in {i \in DOMAIN c.keys : c.keys[i].tag \in UnknownDirs}}

\* What they read and HA does not: files of packages, each taken for a package.
Misread(c) == IF c.packages.tag = "named" THEN {} ELSE Range(PackagePlaces(c.packages))

-----------------------------------------------------------------------------
(* Properties of a configuration *)

\* INVARIANTS.md C-10, and wired_target_or_default: a create goes to a file HA
\* reads as the domain's own, and a read that does not raise looks there too.
TargetIsRead(c) ==
  WiredTarget(c) # Refused =>
    /\ Root(WiredTarget(c)) \in HaReads(c)
    /\ WiredTarget(c) \notin Outside
    /\ ~Raises(c) => Root(WiredTarget(c)) \in Range(Readable(c))

\* INVARIANTS.md C-15, and readable_domain_files: "Every file that can hold an
\* entry" - what HA reads and is not denied, whatever the keys, and the files of
\* an !include_dir_named of packages; "The conventional file is the answer only
\* when nothing else is".  Other packages are Unread, and may be Misread.
ReadsWhatHaReads(c) ==
  ~Raises(c) =>
    LET visible == {p \in HaReads(c) : p.file \notin Outside}
        unread  == IF c.sound THEN Unread(c) ELSE {}
        misread == IF c.sound THEN Misread(c) ELSE {}
        asked   == Range(Readable(c))
    IN  IF asked = {Root(Conventional)}
        THEN visible \subseteq unread \cup asked
        ELSE asked \subseteq visible \cup misread /\ visible \ unread \subseteq asked

\* "A file wired twice ... must not have its entries counted twice".
NoPlaceTwice(c) == IsInjective(Readable(c))
=============================================================================
