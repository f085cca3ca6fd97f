--------------------------------- MODULE Tags ---------------------------------
(***************************************************************************)
(* The identity of a sandbox and every name made from it: the tag grammar  *)
(* (domain/tags.py), the layer grammar and the docker names                *)
(* (domain/naming.py).                                                     *)
(*                                                                         *)
(* A string is the sequence of what stands between its '-'s, so that       *)
(* joining with '-' is concatenation and s.split('-') is s.                *)
(***************************************************************************)
EXTENDS Naturals, Sequences

CONSTANTS
  Slug,          (* what SLUG_RE matches                                      *)
  Reserved,      (* RESERVED_SLUGS                                            *)
  DEFAULT_BASE   (* the base that a tag without one means                     *)

ASSUME TagsAssumption ==
  /\ Slug \subseteq STRING
  /\ Reserved \subseteq Slug
  /\ DEFAULT_BASE \in Slug \ Reserved
  /\ "_" \notin Slug              \* SLUG_RE begins with a letter

TagSlug == Slug \ Reserved
Tag == [agent : TagSlug, desktop : TagSlug, connector : TagSlug, base : TagSlug]

-----------------------------------------------------------------------------
(* The tag grammar *)

\* Tag.parse and Tag.__post_init__: the segment count, then every slug.
WellFormed(s) == Len(s) \in {3, 4} /\ \A i \in DOMAIN s : s[i] \in TagSlug

\* Tag.parse of a well-formed string.
Parse(s) ==
  [agent |-> s[1], desktop |-> s[2], connector |-> s[3],
   base |-> IF Len(s) = 4 THEN s[4] ELSE DEFAULT_BASE]

\* Tag.__str__: the default base is always elided.
Str(t) ==
  IF t.base = DEFAULT_BASE THEN <<t.agent, t.desktop, t.connector>>
                           ELSE <<t.agent, t.desktop, t.connector, t.base>>

-----------------------------------------------------------------------------
(* Layers.  A LayerRef is the sequence of the slugs it binds, in build order *)

\* What the name of an intermediate layer begins with.
Mark == "_"

LayerRef == UNION {[1..n -> TagSlug] : n \in 1..4}

\* LayerRef.of_tag
OfTag(t) == <<t.base, t.desktop, t.agent, t.connector>>

\* LayerRef.tag of a final layer
TagOf(l) == [agent |-> l[3], desktop |-> l[2], connector |-> l[4], base |-> l[1]]

\* Mutant: an intermediate layer is named without its mark.
LayerName_Unmarked(l) == IF Len(l) = 4 THEN Str(TagOf(l)) ELSE l

\* Naming.layer.  The '_' stands before the first segment.
LayerName(l) == IF Len(l) = 4 THEN Str(TagOf(l)) ELSE <<Mark>> \o l

\* Naming.parse_layer: a name that begins with '_' is an intermediate layer,
\* any other is a tag.
IsLayerName(n) ==
  IF n # <<>> /\ n[1] = Mark
  THEN Len(n) \in 2..4 /\ \A i \in 2..Len(n) : n[i] \in TagSlug
  ELSE WellFormed(n)

ParseLayer(n) == IF n[1] = Mark THEN Tail(n) ELSE OfTag(Parse(n))

-----------------------------------------------------------------------------
(* The names docker sees.  A project is a sequence of segments too. *)

\* Naming.service, and with it the local image, sanity-gravity:<tag>.
Service(t) == Str(t)

\* Naming.container
Container(p, t) == p \o Service(t) \o <<"1">>

\* Naming.volume_external
VolumeExternal(p, t) == <<"sg">> \o p \o Str(t)

\* What the grammar cannot tell apart: the end of one tag and a segment before.
Overlap(t, u) == t.base = u.connector \/ u.base = t.connector

\* Naming.ghcr
Ghcr(repo, t, ver) == [repo |-> repo, name |-> Str(t), version |-> ver]
=============================================================================
