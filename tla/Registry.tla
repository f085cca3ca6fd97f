------------------------------- MODULE Registry -------------------------------
(***************************************************************************)
(* What the plugin tree says: which manifests are accepted                 *)
(* (plugins/manifest.py), which trees (plugins/registry.py), which tags    *)
(* the plugins of a tree allow (domain/capability.py) and what resolve_tag *)
(* answers (core/registry.py).                                             *)
(*                                                                         *)
(* A tree is a set of directories, each with its kind, its name and its    *)
(* manifest.  A manifest is a record of what its checks tell apart.        *)
(***************************************************************************)
EXTENDS Tags, FiniteSets

Kinds == {"agent", "desktop", "connector", "base-image"}     \* KIND_DIRS

\* Least to most restrictive.
TIERS == <<"official", "community", "deprecated">>

\* A capability as the manifest spells it: the sequence of its '|'
\* alternatives.  "" is an empty name, " " one with whitespace in it.
Display == <<"display">>

Manifest ==
  [kind : STRING, slug : STRING, shaped : BOOLEAN, api_version : STRING,
   tier : STRING, is_default : BOOLEAN,
   provides : SUBSET Seq(STRING), requires : SUBSET Seq(STRING),
   dockerfile : {"inside", "outside", "directory"},
   from_ref : {"none", "floating", "pinned"},
   runtime : BOOLEAN, hooks : {"none", "load", "raise"}]

-----------------------------------------------------------------------------
(* load_manifest *)

\* The [plugin] table.
IdentityOK(m) ==
  /\ m.kind \in Kinds
  /\ m.slug \in TagSlug
  /\ \E i \in DOMAIN TIERS : TIERS[i] = m.tier
  /\ m.is_default => m.tier = "official"
  /\ m.api_version = "1"

\* _capabilities: no whitespace, no empty and no repeated alternative.
CapabilityOK(c) ==
  /\ \A i \in DOMAIN c : c[i] \notin {"", " "}
  /\ \A i, j \in DOMAIN c : c[i] = c[j] => i = j

CapabilitiesOK(m) ==
  /\ \A c \in m.provides : Len(c) = 1 /\ CapabilityOK(c)
  /\ \A c \in m.requires : CapabilityOK(c)

\* _rel_inside, _parse_build: the paths stay in the checkout, and exactly the
\* root kinds pin an upstream image.
BuildOK(m) ==
  /\ m.dockerfile = "inside"
  /\ m.from_ref = IF m.kind = "base-image" THEN "pinned" ELSE "none"

\* A base has no runtime section: nothing would read it.
RuntimeOK(m) == m.kind = "base-image" => ~m.runtime

\* Every key that is required is there, and every value has its type.
ShapeOK(m) == m.shaped

ManifestOK(m) ==
  ShapeOK(m) /\ IdentityOK(m) /\ CapabilitiesOK(m) /\ BuildOK(m) /\ RuntimeOK(m)

-----------------------------------------------------------------------------
(* PluginRegistry.from_dir.  A plugin is a directory [kind, name, manifest]. *)

\* A hooks.py that raises is a ManifestError like any other.  (The check for a
\* slug that comes twice is left out: a slug is the name of its directory.)
PluginOK(d) ==
  /\ ManifestOK(d.manifest)
  /\ d.manifest.kind = d.kind
  /\ d.manifest.slug = d.name
  /\ d.manifest.hooks # "raise"

Bucket(tree, kind) == {d.manifest : d \in {e \in tree : e.kind = kind}}
Slugs(tree, kind)  == {m.slug : m \in Bucket(tree, kind)}
Defaults(tree, kind) == {m.slug : m \in {n \in Bucket(tree, kind) : n.is_default}}

\* _validate_defaults: the base that tags elide, and nothing else.
DefaultsOK(tree) ==
  /\ Slugs(tree, "base-image") # {} => Defaults(tree, "base-image") = {DEFAULT_BASE}
  /\ \A k \in Kinds \ {"base-image"} : Defaults(tree, k) = {}

\* default_registry() returns, or raises ManifestError.
Loads(tree) == (\A d \in tree : PluginOK(d)) /\ DefaultsOK(tree)

\* PluginRegistry.get, of a slug that is registered
Get(tree, kind, slug) == CHOOSE m \in Bucket(tree, kind) : m.slug = slug

-----------------------------------------------------------------------------
(* Capabilities *)

Registered(tree, t) ==
  /\ t.base \in Slugs(tree, "base-image")
  /\ t.agent \in Slugs(tree, "agent")
  /\ t.desktop \in Slugs(tree, "desktop")
  /\ t.connector \in Slugs(tree, "connector")

\* The four plugins of a tag.
Plugins(tree, t) ==
  {Get(tree, "base-image", t.base), Get(tree, "agent", t.agent),
   Get(tree, "desktop", t.desktop), Get(tree, "connector", t.connector)}

\* _satisfied: any one of the alternatives.
Satisfied(r, provided) == \E i \in DOMAIN r : <<r[i]>> \in provided

\* solve: what no plugin of the tag satisfies.
Missing(tree, t) ==
  LET provided == UNION {p.provides : p \in Plugins(tree, t)} IN
  {r \in UNION {p.requires : p \in Plugins(tree, t)} : ~Satisfied(r, provided)}

Rank(tier) == CHOOSE i \in DOMAIN TIERS : TIERS[i] = tier

\* tag_tier: the most restrictive of the four.
TagTier(tree, t) ==
  TIERS[CHOOSE i \in {Rank(p.tier) : p \in Plugins(tree, t)} :
          \A p \in Plugins(tree, t) : Rank(p.tier) <= i]

\* valid_tags, VALID_TAG_VALUES.  (The order they are listed in is left out.)
ValidTags(tree) ==
  {t \in [agent : Slugs(tree, "agent"), desktop : Slugs(tree, "desktop"),
          connector : Slugs(tree, "connector"), base : Slugs(tree, "base-image")] :
     Missing(tree, t) = {}}

\* OFFICIAL_TAG_VALUES
OfficialTags(tree) == {t \in ValidTags(tree) : TagTier(tree, t) = "official"}

-----------------------------------------------------------------------------
(* resolve_tag *)

\* The segments in the order of the string, with the kind each one names.
Segments(t) == <<<<"agent", t.agent>>, <<"desktop", t.desktop>>,
                 <<"connector", t.connector>>, <<"base-image", t.base>>>>

Unknown(tree, t) ==
  {i \in 1..4 : Segments(t)[i][2] \notin Slugs(tree, Segments(t)[i][1])}

First(S) == CHOOSE i \in S : \A j \in S : i <= j

\* Why a missing capability is refused; connectors are looked at first.
Conflict(tree, t) ==
  LET gui(kind, slug) == Display \in Get(tree, kind, slug).requires IN
  CASE Display \in Missing(tree, t) /\ gui("connector", t.connector) -> "connector needs display"
    [] Display \in Missing(tree, t) /\ ~gui("connector", t.connector)
         /\ gui("agent", t.agent) -> "agent needs display"
    [] OTHER -> "conflict"

\* Mutant: the capabilities are not solved.
Resolve_NoSolve(tree, s) ==
  IF ~WellFormed(s) THEN "grammar"
  ELSE IF Unknown(tree, Parse(s)) # {} THEN Segments(Parse(s))[First(Unknown(tree, Parse(s)))][1]
  ELSE "ok"

\* resolve_tag: "ok", or what the TagError complains of.
Resolve(tree, s) ==
  IF ~WellFormed(s) THEN "grammar"
  ELSE LET t == Parse(s) IN
       IF Unknown(tree, t) # {} THEN Segments(t)[First(Unknown(tree, t))][1]
       ELSE IF Missing(tree, t) # {} THEN Conflict(tree, t)
       ELSE "ok"
=============================================================================
