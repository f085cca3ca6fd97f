------------------------------- MODULE PullProofs ------------------------------
(***************************************************************************)
(* What the grammars of module Tags promise, for every alphabet of slugs   *)
(* and every string: a tag and a layer are what their name says, and two   *)
(* sandboxes have two containers and two volumes.  Then resolve_tag of     *)
(* module Registry accepts exactly the matrix, for every plugin tree.      *)
(* Last the invariants of module Pull, for every set of plugin trees and   *)
(* every run: the names, the matrix, and what exit status 0 promises.      *)
(***************************************************************************)
EXTENDS Pull, SequenceTheorems, FiniteSetTheorems, TLAPS

-----------------------------------------------------------------------------
(* The tag grammar *)

\* The length of a printed tag, and its segments.
LEMMA StrShape ==
  ASSUME NEW t \in Tag
  PROVE  /\ Str(t) \in Seq(TagSlug)
         /\ Len(Str(t)) = IF t.base = DEFAULT_BASE THEN 3 ELSE 4
         /\ Str(t)[1] = t.agent /\ Str(t)[2] = t.desktop /\ Str(t)[3] = t.connector
         /\ t.base # DEFAULT_BASE => Str(t)[4] = t.base
  BY DEF Str, Tag

\* domain/tags.py: "parse(str(t)) == t for every value".  What a tag prints is
\* well-formed and parses to the tag itself.
THEOREM TagRoundTrip ==
  \A t \in Tag : WellFormed(Str(t)) /\ Parse(Str(t)) = t
<1> SUFFICES ASSUME NEW t \in Tag
             PROVE  WellFormed(Str(t)) /\ Parse(Str(t)) = t
  OBVIOUS
<1>1. WellFormed(Str(t))
  BY StrShape DEF WellFormed
<1>2. Parse(Str(t)) = t
  BY StrShape DEF Parse, Tag
<1> QED
  BY <1>1, <1>2

\* Tag.parse: a string that is accepted is a tag, and the string is the one the
\* tag prints unless it spells the default base out.
THEOREM ParseIsCanonical ==
  \A S : \A s \in Seq(S) : WellFormed(s) =>
    /\ Parse(s) \in Tag
    /\ Str(Parse(s)) = s \/ Str(Parse(s)) \o <<DEFAULT_BASE>> = s
<1> SUFFICES ASSUME NEW S, NEW s \in Seq(S), WellFormed(s)
             PROVE  /\ Parse(s) \in Tag
                    /\ Str(Parse(s)) = s \/ Str(Parse(s)) \o <<DEFAULT_BASE>> = s
  OBVIOUS
<1>0. /\ Len(s) \in {3, 4} /\ DOMAIN s = 1..Len(s)
      /\ \A i \in 1..Len(s) : s[i] \in TagSlug
  BY DEF WellFormed
<1>1. Parse(s) \in Tag
  <2>1. s[1] \in TagSlug /\ s[2] \in TagSlug /\ s[3] \in TagSlug
    BY <1>0
  <2>2. (IF Len(s) = 4 THEN s[4] ELSE DEFAULT_BASE) \in TagSlug
    <3>1. DEFAULT_BASE \in TagSlug
      BY TagsAssumption DEF TagSlug
    <3> QED
      BY <1>0, <3>1
  <2> QED
    BY <2>1, <2>2 DEF Parse, Tag
<1>2. CASE Len(s) = 3
  <2>1. s = <<s[1], s[2], s[3]>>
    BY <1>2
  <2> QED
    BY <1>1, <1>2, <2>1 DEF Parse, Str
<1>3. CASE Len(s) = 4
  <2>1. s = <<s[1], s[2], s[3], s[4]>>
    BY <1>3
  <2> QED
    BY <1>1, <1>3, <2>1 DEF Parse, Str
<1> QED
  BY <1>1, <1>2, <1>3 DEF WellFormed
-----------------------------------------------------------------------------
(* Layers *)

\* domain/naming.py: layer and parse_layer are inverse.  The name of every
\* layer, intermediate or final, is a layer name and says which layer it is; so
\* no two layers share an image.
THEOREM LayerRoundTrip ==
  \A l \in LayerRef : IsLayerName(LayerName(l)) /\ ParseLayer(LayerName(l)) = l
<1> SUFFICES ASSUME NEW n \in 1..4, NEW l \in [1..n -> TagSlug]
             PROVE  IsLayerName(LayerName(l)) /\ ParseLayer(LayerName(l)) = l
  BY DEF LayerRef
<1>1. l \in Seq(TagSlug) /\ Len(l) = n
  OBVIOUS
<1>2. Mark \notin TagSlug
  BY TagsAssumption DEF TagSlug, Mark
<1>3. CASE n = 4
  <2>1. TagOf(l) \in Tag
    BY <1>3 DEF TagOf, Tag
  <2>2. WellFormed(Str(TagOf(l))) /\ Parse(Str(TagOf(l))) = TagOf(l)
    BY <2>1, TagRoundTrip
  <2>3. Str(TagOf(l))[1] # Mark /\ Str(TagOf(l)) # <<>>
    BY <1>2, <2>1, StrShape DEF Tag
  <2>4. OfTag(TagOf(l)) = l
    BY <1>1, <1>3 DEF OfTag, TagOf
  <2>5. LayerName(l) = Str(TagOf(l))
    BY <1>1, <1>3 DEF LayerName
  <2> QED
    BY <2>2, <2>3, <2>4, <2>5 DEF IsLayerName, ParseLayer
<1>4. CASE n # 4
  <2>1. LayerName(l) = <<Mark>> \o l
    BY <1>1, <1>4 DEF LayerName
  <2>2. l \in Seq(TagSlug \cup {Mark}) /\ <<Mark>> \in Seq(TagSlug \cup {Mark})
    OBVIOUS
  <2>3. PICK m \in Seq(TagSlug \cup {Mark}) : m = <<Mark>> \o l
    BY <2>2, ConcatProperties
  <2>4. Len(m) = n + 1 /\ \A i \in 1..(n + 1) : m[i] = IF i = 1 THEN Mark ELSE l[i - 1]
    BY <1>1, <2>2, <2>3, ConcatProperties
  <2>5. m # <<>> /\ m[1] = Mark
    BY <2>4
  <2>6. Tail(m) = l
    <3>1. /\ Tail(m) \in Seq(TagSlug \cup {Mark}) /\ Len(Tail(m)) = Len(m) - 1
          /\ \A i \in 1..Len(Tail(m)) : Tail(m)[i] = m[i + 1]
      BY <2>5, HeadTailProperties
    <3>2. Len(Tail(m)) = n
      BY <2>4, <3>1
    <3>3. ASSUME NEW i \in 1..n PROVE Tail(m)[i] = l[i]
      BY <2>4, <3>1, <3>2
    <3> QED
      BY <1>1, <2>2, <3>1, <3>2, <3>3, SeqEqual
  <2>7. ASSUME NEW i \in 2..Len(m) PROVE m[i] \in TagSlug
    <3>1. i - 1 \in 1..n /\ m[i] = l[i - 1]
      BY <2>4
    <3> QED
      BY <3>1
  <2>8. Len(m) \in 2..4
    BY <1>4, <2>4
  <2>9. IsLayerName(m)
    BY <2>5, <2>7, <2>8 DEF IsLayerName
  <2>10. ParseLayer(m) = l
    BY <2>5, <2>6 DEF ParseLayer
  <2> QED
    BY <2>1, <2>3, <2>9, <2>10
<1> QED
  BY <1>3, <1>4

-----------------------------------------------------------------------------
(* The names docker sees *)

\* Two tags of one length whose names end alike are one tag.
LEMMA StrInjective ==
  ASSUME NEW t \in Tag, NEW u \in Tag, Str(t) = Str(u)
  PROVE  t = u
  BY TagRoundTrip

\* A project and a tag, written one after the other.
LEMMA Suffix ==
  ASSUME NEW S, TagSlug \in SUBSET S, NEW p \in Seq(S), NEW q \in Seq(S),
         NEW t \in Tag, NEW u \in Tag, p \o Str(t) = q \o Str(u)
  PROVE  (p = q /\ t = u) \/ Overlap(t, u)
<1>0. /\ Len(Str(t)) = IF t.base = DEFAULT_BASE THEN 3 ELSE 4
      /\ Len(Str(u)) = IF u.base = DEFAULT_BASE THEN 3 ELSE 4
      /\ Str(t)[3] = t.connector /\ Str(u)[3] = u.connector
      /\ t.base # DEFAULT_BASE => Str(t)[4] = t.base
      /\ u.base # DEFAULT_BASE => Str(u)[4] = u.base
  BY StrShape
<1>1. Str(t) \in Seq(S) /\ Str(u) \in Seq(S)
  BY StrShape
<1> DEFINE a == Len(Str(t))
           b == Len(Str(u))
           w == p \o Str(t)
<1>2. a \in {3, 4} /\ b \in {3, 4}
  BY <1>0
<1>3. Len(w) = Len(p) + a /\ Len(w) = Len(q) + b
  BY <1>1
<1>4. w[Len(w)] = Str(t)[a] /\ w[Len(w)] = Str(u)[b]
  <2>1. \A r \in Seq(S), x \in Seq(S) : x # <<>> => (r \o x)[Len(r) + Len(x)] = x[Len(x)]
    BY ConcatProperties
  <2>2. Str(t) # <<>> /\ Str(u) # <<>>
    BY <1>0
  <2>3. (p \o Str(t))[Len(p) + a] = Str(t)[a]
    BY <1>1, <2>1, <2>2
  <2>4. (q \o Str(u))[Len(q) + b] = Str(u)[b]
    BY <1>1, <2>1, <2>2
  <2> QED
    BY <1>3, <2>3, <2>4
<1>5. CASE a = b
  <2>1. Len(p) = Len(q)
    BY <1>2, <1>3, <1>5
  <2>2. \A i \in 1..Len(p) : p[i] = q[i]
    BY <1>1, <2>1
  <2>3. p = q
    BY <2>1, <2>2
  <2>4. Str(t) = Str(u)
    BY <1>1, <2>3, ConcatSimplifications
  <2> QED
    BY <2>3, <2>4, StrInjective
<1>6. CASE a = 3 /\ b = 4
  <2>1. Str(t)[3] = t.connector /\ Str(u)[4] = u.base
    BY <1>0, <1>6
  <2>2. t.connector = u.base
    BY ONLY <1>4, <1>6, <2>1
  <2> QED
    BY <2>2 DEF Overlap
<1>7. CASE a = 4 /\ b = 3
  <2>1. Str(u)[3] = u.connector /\ Str(t)[4] = t.base
    BY <1>0, <1>7, SMTT(20)
  <2>2. t.base = u.connector
    BY ONLY <1>4, <1>7, <2>1
  <2> QED
    BY <2>2 DEF Overlap
<1> QED
  BY <1>2, <1>5, <1>6, <1>7

\* Naming.container and volume_external: two sandboxes share neither a container
\* nor a volume, whatever their projects are called, unless one of the tags has
\* a base with the slug of the other one's connector.
THEOREM SandboxNames ==
  ASSUME NEW A, NEW p \in Seq(A), NEW q \in Seq(A), NEW t \in Tag, NEW u \in Tag,
         \/ Container(p, t) = Container(q, u)
         \/ VolumeExternal(p, t) = VolumeExternal(q, u)
  PROVE  (p = q /\ t = u) \/ Overlap(t, u)
<1>a. PICK S : TagSlug \in SUBSET S /\ A \subseteq S /\ "sg" \in S /\ "1" \in S
  <2> WITNESS A \cup TagSlug \cup {"sg", "1"}
  <2> QED
    OBVIOUS
<1>0. TagSlug \in SUBSET S /\ p \in Seq(S) /\ q \in Seq(S)
  BY <1>a
<1>1. Str(t) \in Seq(S) /\ Str(u) \in Seq(S)
  BY <1>0, StrShape
<1>2. <<"1">> \in Seq(S) /\ <<"sg">> \in Seq(S)
  BY <1>a
<1>3. CASE Container(p, t) = Container(q, u)
  <2>1. (p \o Str(t)) \o <<"1">> = (q \o Str(u)) \o <<"1">>
    BY <1>3 DEF Container, Service
  <2>2. p \o Str(t) \in Seq(S) /\ q \o Str(u) \in Seq(S)
    BY <1>0, <1>1, ConcatProperties
  <2>3. p \o Str(t) = q \o Str(u)
    BY <1>2, <2>1, <2>2, ConcatSimplifications
  <2> QED
    BY <1>0, <2>3, Suffix
<1>4. CASE VolumeExternal(p, t) = VolumeExternal(q, u)
  <2>1. PICK v \in Seq(S), w \in Seq(S) : v = <<"sg">> \o p /\ w = <<"sg">> \o q
    BY <1>0, <1>2, ConcatProperties
  <2>2. v \o Str(t) = w \o Str(u)
    BY <1>4, <2>1 DEF VolumeExternal
  <2>3. v = w => p = q
    BY <1>0, <1>2, <2>1, ConcatSimplifications
  <2> QED
    BY <1>0, <2>2, <2>3, Suffix
<1> QED
  BY <1>3, <1>4

-----------------------------------------------------------------------------
(* resolve_tag *)

\* An index that is the first of some indices is one of them.
LEMMA FirstIn ==
  ASSUME NEW U \in SUBSET (1..4), U # {}
  PROVE  First(U) \in U
<1>1. \E i \in U : \A j \in U : i <= j
  <2>1. CASE 1 \in U
    BY <2>1
  <2>2. CASE 1 \notin U /\ 2 \in U
    BY <2>2
  <2>3. CASE 1 \notin U /\ 2 \notin U /\ 3 \in U
    BY <2>3
  <2>4. CASE 1 \notin U /\ 2 \notin U /\ 3 \notin U
    <3>1. PICK i \in U : TRUE
      OBVIOUS
    <3>2. \A j \in U : j = 4
      BY <2>4
    <3> QED
      BY <3>1, <3>2
  <2> QED
    BY <2>1, <2>2, <2>3, <2>4
<1> QED
  BY <1>1 DEF First

\* core/registry.py: resolve_tag accepts a string exactly if it parses to a tag
\* of valid_tags, whatever the plugin tree: all four plugins are there and
\* nothing they require is missing.
THEOREM ResolveIsTheMatrix ==
  \A tree, S : \A s \in Seq(S) :
    Resolve(tree, s) = "ok" <=> WellFormed(s) /\ Parse(s) \in ValidTags(tree)
<1> SUFFICES ASSUME NEW tree, NEW S, NEW s \in Seq(S)
             PROVE  Resolve(tree, s) = "ok" <=> WellFormed(s) /\ Parse(s) \in ValidTags(tree)
  OBVIOUS
<1>1. CASE ~WellFormed(s)
  BY <1>1 DEF Resolve
<1>2. CASE WellFormed(s)
  <2> DEFINE U == Unknown(tree, Parse(s))
  <2>1. Parse(s) \in Tag
    BY <1>2, ParseIsCanonical
  <2>2. PICK t \in Tag : t = Parse(s)
    BY <2>1
  <2>3. t \in ValidTags(tree) <=> Registered(tree, t) /\ Missing(tree, t) = {}
    BY DEF ValidTags, Registered, Tag
  <2>4. Unknown(tree, t) = {} <=> Registered(tree, t)
    <3>1. /\ 1 \in Unknown(tree, t) <=> t.agent \notin Slugs(tree, "agent")
          /\ 2 \in Unknown(tree, t) <=> t.desktop \notin Slugs(tree, "desktop")
          /\ 3 \in Unknown(tree, t) <=> t.connector \notin Slugs(tree, "connector")
          /\ 4 \in Unknown(tree, t) <=> t.base \notin Slugs(tree, "base-image")
      BY DEF Unknown, Segments
    <3>2. Unknown(tree, t) \subseteq 1..4
      BY DEF Unknown
    <3>3. Unknown(tree, t) = {} <=> \A i \in {1, 2, 3, 4} : i \notin Unknown(tree, t)
      BY <3>2
    <3> QED
      BY <3>1, <3>3 DEF Registered
  <2>5. CASE Unknown(tree, t) # {}
    <3>1. First(Unknown(tree, t)) \in 1..4
      BY <2>5, FirstIn DEF Unknown
    <3>2. Segments(t)[First(Unknown(tree, t))][1] # "ok"
      BY <3>1 DEF Segments
    <3> QED
      BY <1>2, <2>2, <2>3, <2>4, <2>5, <3>2 DEF Resolve
  <2>6. CASE Unknown(tree, t) = {} /\ Missing(tree, t) # {}
    <3>1. Conflict(tree, t) # "ok"
      BY DEF Conflict
    <3> QED
      BY <1>2, <2>2, <2>3, <2>6, <3>1 DEF Resolve
  <2>7. CASE Unknown(tree, t) = {} /\ Missing(tree, t) = {}
    BY <1>2, <2>2, <2>3, <2>4, <2>7 DEF Resolve
  <2> QED
    BY <2>5, <2>6, <2>7
<1> QED
  BY <1>1, <1>2

-----------------------------------------------------------------------------
(* The names of a run *)

\* A tree that loads has no slug that is not one.
LEMMA LoadedSlugs ==
  ASSUME NEW tree, Loads(tree), NEW kind
  PROVE  Slugs(tree, kind) \subseteq TagSlug
<1>1. ASSUME NEW d \in tree PROVE d.manifest.slug \in TagSlug
  BY DEF Loads, PluginOK, ManifestOK, IdentityOK
<1> QED
  BY <1>1 DEF Slugs, Bucket

\* Every valid tag of a tree that loads is a tag of the grammar.
LEMMA ValidTagsAreTags ==
  ASSUME NEW tree, Loads(tree)
  PROVE  ValidTags(tree) \subseteq Tag
<1> SUFFICES ASSUME NEW t \in ValidTags(tree)
             PROVE  t \in Tag
  OBVIOUS
<1>1. /\ Slugs(tree, "agent") \subseteq TagSlug /\ Slugs(tree, "desktop") \subseteq TagSlug
      /\ Slugs(tree, "connector") \subseteq TagSlug /\ Slugs(tree, "base-image") \subseteq TagSlug
  BY LoadedSlugs
<1> QED
  BY <1>1 DEF ValidTags, Tag

\* The layers of a tag are layers.
LEMMA LayersOfTag ==
  ASSUME NEW t \in Tag, NEW k \in 1..4
  PROVE  SubSeq(OfTag(t), 1, k) \in LayerRef
<1>1. PICK o \in Seq(TagSlug) : o = OfTag(t) /\ Len(o) = 4
  <2>1. OfTag(t) \in Seq(TagSlug) /\ Len(OfTag(t)) = 4
    BY DEF OfTag, Tag
  <2> QED
    BY <2>1
<1>2. PICK l \in Seq(TagSlug) : l = SubSeq(o, 1, k) /\ Len(l) = k
  <2>1. \A i \in 1..k : o[i] \in TagSlug
    BY <1>1, SMTT(20)
  <2>2. 1 \in Int /\ k \in Int /\ 1 <= k /\ k - 1 + 1 = k
    OBVIOUS
  <2>3. SubSeq(o, 1, k) \in Seq(TagSlug) /\ Len(SubSeq(o, 1, k)) = k
    BY <2>1, <2>2, SubSeqProperties
  <2> QED
    BY <2>3
<1>3. l \in [1..k -> TagSlug]
  BY <1>2, LenProperties
<1> QED
  BY <1>1, <1>2, <1>3 DEF LayerRef

\* Two sandboxes never share a container or a volume and two layers never an
\* image, in any state, for every plugin tree and every project name.
THEOREM NamesAlwaysIdentify == Spec => []NamesIdentify
<1>1. NamesIdentify
  <2> SUFFICES ASSUME checkout \in Importable
               PROVE  NamesIdentify
    BY DEF NamesIdentify
  <2> DEFINE valid == ValidTags(Trees[checkout])
  <2>1. valid \subseteq Tag
    BY ValidTagsAreTags DEF Importable
  <2>3. ASSUME NEW t \in valid, NEW u \in valid, NEW p \in Projects, NEW q \in Projects,
               \/ Container(p, t) = Container(q, u)
               \/ VolumeExternal(p, t) = VolumeExternal(q, u)
        PROVE  (p = q /\ t = u) \/ Overlap(t, u)
    <3>1. p \in Seq(STRING) /\ q \in Seq(STRING)
      BY PullAssumption
    <3>2. t \in Tag /\ u \in Tag
      BY <2>1
    <3> QED
      BY <2>3, <3>1, <3>2, SandboxNames
  <2>4. ASSUME NEW t \in valid, NEW k \in 1..4
        PROVE  /\ IsLayerName(LayerName(SubSeq(OfTag(t), 1, k)))
               /\ ParseLayer(LayerName(SubSeq(OfTag(t), 1, k))) = SubSeq(OfTag(t), 1, k)
    BY <2>1, LayersOfTag, LayerRoundTrip
  <2> HIDE DEF valid
  <2>5. ASSUME NEW l \in UNION {{SubSeq(OfTag(t), 1, k) : k \in 1..4} : t \in valid}
        PROVE  IsLayerName(LayerName(l)) /\ ParseLayer(LayerName(l)) = l
    <3>1. PICK t \in valid, k \in 1..4 : l = SubSeq(OfTag(t), 1, k)
      OBVIOUS
    <3> QED
      BY <2>4, <3>1
  <2>6. \A t, u \in valid : \A p, q \in Projects :
          \/ Container(p, t) = Container(q, u)
          \/ VolumeExternal(p, t) = VolumeExternal(q, u)
          => (p = q /\ t = u) \/ Overlap(t, u)
    BY <2>3
  <2> QED
    BY <2>5, <2>6 DEF NamesIdentify, valid
<1> QED
  BY <1>1, PTL

-----------------------------------------------------------------------------
(* The matrix *)

\* What PullAssumption says of the directories of a tree.
TreeOK(tree) ==
  \A d, e \in tree : d.manifest \in Manifest /\ (d.kind = e.kind /\ d.name = e.name => d = e)

\* In a tree that loads, a kind and a slug name one directory.
LEMMA OneDirectory ==
  ASSUME NEW tree, Loads(tree), TreeOK(tree), NEW d \in tree, NEW e \in tree,
         d.manifest.kind = e.manifest.kind, d.manifest.slug = e.manifest.slug
  PROVE  d = e
<1>1. d.manifest.kind = d.kind /\ d.manifest.slug = d.name
      /\ e.manifest.kind = e.kind /\ e.manifest.slug = e.name
  BY DEF Loads, PluginOK
<1> QED
  BY <1>1 DEF TreeOK

LEMMA GetIs ==
  ASSUME NEW tree, Loads(tree), TreeOK(tree), NEW kind,
         NEW d \in tree, d.kind = kind
  PROVE  Get(tree, kind, d.manifest.slug) = d.manifest
<1>1. d.manifest \in Bucket(tree, kind)
  BY DEF Bucket
<1>2. ASSUME NEW m \in Bucket(tree, kind), m.slug = d.manifest.slug
      PROVE  m = d.manifest
  <2>1. PICK e \in tree : e.kind = kind /\ e.manifest = m
    BY DEF Bucket
  <2>2. e.manifest.kind = d.manifest.kind
    BY <2>1 DEF Loads, PluginOK
  <2> QED
    BY <1>2, <2>1, <2>2, OneDirectory
<1> QED
  BY <1>1, <1>2 DEF Get

\* A slug is the slug of one directory, and Get finds it.
LEMMA GetOf ==
  ASSUME NEW tree, Loads(tree), TreeOK(tree), NEW kind, NEW slug \in Slugs(tree, kind)
  PROVE  \E d \in tree : /\ d.kind = kind /\ d.manifest.slug = slug
                         /\ Get(tree, kind, slug) = d.manifest
<1>1. PICK d \in tree : d.kind = kind /\ d.manifest.slug = slug
  BY DEF Slugs, Bucket
<1> QED
  BY <1>1, GetIs

\* A directory less takes away its slug and nothing else.
LEMMA OneLess ==
  ASSUME NEW tree, Loads(tree), TreeOK(tree), NEW d \in tree, Loads(tree \ {d}),
         NEW kind, NEW slug
  PROVE  /\ slug \in Slugs(tree \ {d}, kind)
              <=> slug \in Slugs(tree, kind) /\ Get(tree, kind, slug) # d.manifest
         /\ slug \in Slugs(tree \ {d}, kind)
              => Get(tree \ {d}, kind, slug) = Get(tree, kind, slug)
<1> DEFINE less == tree \ {d}
<1>1. TreeOK(less)
  BY DEF TreeOK
<1>2. ASSUME slug \in Slugs(less, kind)
      PROVE  /\ slug \in Slugs(tree, kind) /\ Get(tree, kind, slug) # d.manifest
             /\ Get(less, kind, slug) = Get(tree, kind, slug)
  <2>1. PICK e \in less : /\ e.kind = kind /\ e.manifest.slug = slug
                          /\ Get(less, kind, slug) = e.manifest
    BY <1>1, <1>2, GetOf
  <2>2. Get(tree, kind, slug) = e.manifest /\ slug \in Slugs(tree, kind)
    <3>1. e \in tree
      OBVIOUS
    <3>2. Get(tree, kind, slug) = e.manifest
      BY <2>1, <3>1, GetIs
    <3> QED
      BY <2>1, <3>1, <3>2 DEF Slugs, Bucket
  <2>3. e.manifest # d.manifest
    BY <2>1, OneDirectory
  <2> QED
    BY <2>1, <2>2, <2>3
<1>3. ASSUME slug \in Slugs(tree, kind), Get(tree, kind, slug) # d.manifest
      PROVE  slug \in Slugs(less, kind)
  <2>1. PICK e \in tree : /\ e.kind = kind /\ e.manifest.slug = slug
                          /\ Get(tree, kind, slug) = e.manifest
    BY <1>3, GetOf
  <2>2. e \in less
    BY <1>3, <2>1
  <2> QED
    BY <2>1, <2>2 DEF Slugs, Bucket
<1> QED
  BY <1>2, <1>3

\* Rank and TagTier of tiers that load.
LEMMA OfficialTier ==
  ASSUME NEW tree, Loads(tree), TreeOK(tree), NEW t \in OfficialTags(tree),
         NEW m \in Plugins(tree, t)
  PROVE  m.tier = "official"
<1> DEFINE P == Plugins(tree, t)
           R == {Rank(p.tier) : p \in P}
<1>1. ASSUME NEW p \in P
      PROVE  p.tier \in {"official", "community", "deprecated"}
  <2>1. PICK d \in tree : p = d.manifest
    BY GetOf DEF Plugins, OfficialTags, ValidTags
  <2>2. \E i \in DOMAIN TIERS : TIERS[i] = p.tier
    BY <2>1 DEF Loads, PluginOK, ManifestOK, IdentityOK
  <2> QED
    BY <2>2 DEF TIERS
<1>2. /\ Rank("official") = 1 /\ Rank("community") = 2 /\ Rank("deprecated") = 3
  BY DEF Rank, TIERS
<1>3. R \subseteq {1, 2, 3} /\ \A p \in P : Rank(p.tier) \in R
  BY <1>1, <1>2
<1>4. R # {}
  BY <1>3
<1> HIDE DEF P
<1>5. \E i \in R : \A p \in P : Rank(p.tier) <= i
  <2>1. CASE 3 \in R
    BY <1>3, <2>1
  <2>2. CASE 3 \notin R /\ 2 \in R
    BY <1>3, <2>2
  <2>3. CASE 3 \notin R /\ 2 \notin R
    BY <1>3, <1>4, <2>3
  <2> QED
    BY <2>1, <2>2, <2>3
<1>6. PICK i \in R : /\ \A p \in P : Rank(p.tier) <= i
                     /\ TIERS[i] = "official"
  <2> DEFINE top == CHOOSE i \in R : \A p \in P : Rank(p.tier) <= i
  <2>1. top \in R /\ \A p \in P : Rank(p.tier) <= top
    BY <1>5
  <2>2. TIERS[top] = "official"
    BY DEF OfficialTags, TagTier, P
  <2> QED
    BY <2>1, <2>2
<1>7. i = 1
  BY <1>3, <1>6 DEF TIERS
<1>8. m \in P
  BY DEF P
<1>9. Rank(m.tier) <= 1
  BY <1>6, <1>7, <1>8
<1> QED
  BY <1>1, <1>2, <1>8, <1>9

\* resolve_tag, the printed matrix, the elided base, the published tags and the
\* tags of a tree with a plugin less agree, for every plugin tree.
THEOREM MatrixAlwaysAgrees == Spec => []MatrixAgrees
<1>1. MatrixAgrees
  <2> SUFFICES ASSUME checkout \in Importable
               PROVE  LET tree == Trees[checkout] IN
                      /\ \A s \in Strings(tree) :
                           Resolve(tree, s) = "ok" <=> WellFormed(s) /\ Parse(s) \in ValidTags(tree)
                      /\ \A t \in ValidTags(tree) :
                           Parse(Str(t)) = t /\ Resolve(tree, Str(t)) = "ok"
                      /\ \A t \in ValidTags(tree) :
                           t.base = DEFAULT_BASE =>
                             Get(tree, "base-image", t.base).tier = "official"
                      /\ \A t \in OfficialTags(tree) : \A m \in Plugins(tree, t) :
                           m.tier = "official"
                      /\ \A d \in tree : Loads(tree \ {d}) =>
                           ValidTags(tree \ {d}) =
                             {t \in ValidTags(tree) : d.manifest \notin Plugins(tree, t)}
    BY DEF MatrixAgrees
  <2> DEFINE tree == Trees[checkout]
  <2>1. Loads(tree) /\ TreeOK(tree)
    BY PullAssumption DEF Importable, TreeOK
  <2>2. ValidTags(tree) \subseteq Tag
    BY <2>1, ValidTagsAreTags
  <2> HIDE DEF tree
  <2>3. ASSUME NEW s \in Strings(tree)
        PROVE  Resolve(tree, s) = "ok" <=> WellFormed(s) /\ Parse(s) \in ValidTags(tree)
    <3>1. CASE s \in TypedNames
      <4>1. PICK q \in Requests : s \in {q.variants[i] : i \in DOMAIN q.variants}
        BY <3>1 DEF TypedNames
      <4>2. q.variants \in Seq(Seq(STRING))
        BY PullAssumption DEF Request
      <4>3. s \in Seq(STRING)
        BY <4>1, <4>2
      <4> QED
        BY <4>3, ResolveIsTheMatrix
    <3>2. CASE s \in {Str(t) : t \in ValidTags(tree)}
      <4>1. s \in Seq(TagSlug)
        BY <2>2, <3>2, StrShape
      <4> QED
        BY <4>1, ResolveIsTheMatrix
    <3> QED
      BY <3>1, <3>2 DEF Strings
  <2>4. ASSUME NEW t \in ValidTags(tree)
        PROVE  Parse(Str(t)) = t /\ Resolve(tree, Str(t)) = "ok"
    <3>1. WellFormed(Str(t)) /\ Parse(Str(t)) = t
      BY <2>2, TagRoundTrip
    <3>2. Str(t) \in Strings(tree)
      BY DEF Strings
    <3> QED
      BY <2>3, <3>1, <3>2
  <2>5. ASSUME NEW t \in ValidTags(tree), t.base = DEFAULT_BASE
        PROVE  Get(tree, "base-image", t.base).tier = "official"
    <3>1. t.base \in Slugs(tree, "base-image")
      BY DEF ValidTags
    <3>2. DEFAULT_BASE \in Defaults(tree, "base-image")
      BY <2>1, <3>1 DEF Loads, DefaultsOK
    <3>3. PICK d \in tree : /\ d.kind = "base-image" /\ d.manifest.is_default
                            /\ d.manifest.slug = DEFAULT_BASE
      BY <3>2 DEF Defaults, Bucket
    <3>4. d.manifest.tier = "official"
      BY <2>1, <3>3 DEF Loads, PluginOK, ManifestOK, IdentityOK
    <3> QED
      BY <2>1, <2>5, <3>3, <3>4, GetIs
  <2>6. ASSUME NEW d \in tree, Loads(tree \ {d})
        PROVE  ValidTags(tree \ {d}) =
                 {t \in ValidTags(tree) : d.manifest \notin Plugins(tree, t)}
    <3> DEFINE less == tree \ {d}
               Frame(u) == [agent : Slugs(u, "agent"), desktop : Slugs(u, "desktop"),
                            connector : Slugs(u, "connector"), base : Slugs(u, "base-image")]
    <3>1. \A kind, slug :
            /\ slug \in Slugs(less, kind)
                 <=> slug \in Slugs(tree, kind) /\ Get(tree, kind, slug) # d.manifest
            /\ slug \in Slugs(less, kind) => Get(less, kind, slug) = Get(tree, kind, slug)
      BY <2>1, <2>6, OneLess
    <3> HIDE DEF less
    <3>2. \A t : t \in Frame(less) <=> t \in Frame(tree) /\ d.manifest \notin Plugins(tree, t)
      <4> SUFFICES ASSUME NEW t \in Frame(less) \cup Frame(tree)
                   PROVE  t \in Frame(less) <=>
                            t \in Frame(tree) /\ d.manifest \notin Plugins(tree, t)
        OBVIOUS
      <4>1. d.manifest \notin Plugins(tree, t) <=>
              /\ Get(tree, "base-image", t.base) # d.manifest
              /\ Get(tree, "agent", t.agent) # d.manifest
              /\ Get(tree, "desktop", t.desktop) # d.manifest
              /\ Get(tree, "connector", t.connector) # d.manifest
        BY DEF Plugins
      <4>2. t = [agent |-> t.agent, desktop |-> t.desktop, connector |-> t.connector,
                 base |-> t.base]
        OBVIOUS
      <4>3. \A u : t \in Frame(u) <=>
              /\ t.agent \in Slugs(u, "agent") /\ t.desktop \in Slugs(u, "desktop")
              /\ t.connector \in Slugs(u, "connector") /\ t.base \in Slugs(u, "base-image")
        BY <4>2
      <4> HIDE DEF Frame
      <4> QED
        BY <3>1, <4>1, <4>3
    <3>3. ASSUME NEW t \in Frame(less)
          PROVE  Missing(less, t) = Missing(tree, t)
      <4>1. Plugins(less, t) = Plugins(tree, t)
        BY <3>1, <3>3 DEF Plugins
      <4> QED
        BY <4>1 DEF Missing
    <3>4. \A u : ValidTags(u) = {t \in Frame(u) : Missing(u, t) = {}}
      BY DEF ValidTags
    <3> HIDE DEF Frame
    <3>5. ValidTags(less) = {t \in ValidTags(tree) : d.manifest \notin Plugins(tree, t)}
      BY <3>2, <3>3, <3>4
    <3> QED
      BY <3>5 DEF less
  <2>7. ASSUME NEW t \in OfficialTags(tree), NEW m \in Plugins(tree, t)
        PROVE  m.tier = "official"
    BY <2>1, OfficialTier
  <2> QED
    BY <2>3, <2>4, <2>5, <2>6, <2>7 DEF tree
<1> QED
  BY <1>1, PTL

-----------------------------------------------------------------------------
(* What a run wants *)

Elements(s) == {s[i] : i \in DOMAIN s}

\* The variants of the loop, for a pull and for an up that pulls.
Wanted(c, q) ==
  IF q.verb = "up" THEN {Typed(q.variants[1])}
  ELSE IF All \in Elements(q.variants) THEN {Value(t) : t \in OFFICIAL_TAG_VALUES[c]}
  ELSE {Typed(s) : s \in Elements(q.variants)}

Image(i) == Str(Parse(i.name))

\* What the image n is for p when nobody has touched it since: what p pulled, or
\* any image at all.
Pulled(p, n) ==
  \/ n \in touched[p]
  \/ local[n] = [repo |-> RepoOf(request[p].env), name |-> n, version |-> VersionOf(request[p])]
There(p, n) == n \in touched[p] \/ local[n] # NoImage

\* What a request is.
LEMMA RequestIs ==
  ASSUME NEW q \in Requests
  PROVE  /\ q.verb \in {"pull", "up"} /\ q.pull \in BOOLEAN /\ q.dry \in BOOLEAN
         /\ q.variants \in Seq(Seq(STRING)) /\ q # NoRequest
         /\ Elements(q.variants) \subseteq Seq(STRING) \cap TypedNames
         /\ q.verb = "up" => Elements(q.variants) = {q.variants[1]}
<1>1. q \in Request
  BY PullAssumption
<1>2. /\ q.verb \in {"pull", "up"} /\ q.pull \in BOOLEAN /\ q.dry \in BOOLEAN
      /\ q.variants \in Seq(Seq(STRING)) /\ q # NoRequest
  BY <1>1 DEF Request, NoRequest
<1>3. Elements(q.variants) \subseteq Seq(STRING) \cap TypedNames
  BY <1>2 DEF Elements, TypedNames
<1>4. ASSUME q.verb = "up" PROVE Elements(q.variants) = {q.variants[1]}
  <2>1. Len(q.variants) = 1
    BY <1>4, PullAssumption
  <2>2. DOMAIN q.variants = {1}
    BY <1>2, <2>1
  <2> QED
    BY <2>2 DEF Elements
<1> QED
  BY <1>2, <1>3, <1>4

\* A finite tree has finitely many tags.
LEMMA FiniteMatrix ==
  ASSUME NEW tree, IsFiniteSet(tree)
  PROVE  IsFiniteSet(OfficialTags(tree))
<1> DEFINE quads == (tree \X tree) \X (tree \X tree)
           f == [x \in quads |-> [agent |-> x[1][1].manifest.slug,
                                  desktop |-> x[1][2].manifest.slug,
                                  connector |-> x[2][1].manifest.slug,
                                  base |-> x[2][2].manifest.slug]]
           all == {f[x] : x \in quads}
<1>1. IsFiniteSet(quads)
  <2>1. IsFiniteSet(tree \X tree)
    BY FS_Product
  <2> QED
    BY <2>1, FS_Product
<1>2. f \in Surjection(quads, all)
  BY DEF Surjection
<1>3. IsFiniteSet(all)
  BY <1>1, <1>2, FS_Surjection
<1>4. OfficialTags(tree) \subseteq all
  <2> SUFFICES ASSUME NEW t \in OfficialTags(tree)
               PROVE  \E x \in quads : f[x] = t
    OBVIOUS
  <2>1. t \in [agent : Slugs(tree, "agent"), desktop : Slugs(tree, "desktop"),
               connector : Slugs(tree, "connector"), base : Slugs(tree, "base-image")]
    BY DEF OfficialTags, ValidTags
  <2>2. \A kind, slug : slug \in Slugs(tree, kind) => \E d \in tree : d.manifest.slug = slug
    BY DEF Slugs, Bucket
  <2>3. PICK a \in tree, d \in tree, c \in tree, b \in tree :
          /\ a.manifest.slug = t.agent /\ d.manifest.slug = t.desktop
          /\ c.manifest.slug = t.connector /\ b.manifest.slug = t.base
    BY <2>1, <2>2
  <2>4. <<<<a, d>>, <<c, b>>>> \in quads
    OBVIOUS
  <2>5. f[<<<<a, d>>, <<c, b>>>>] = [agent |-> t.agent, desktop |-> t.desktop,
                                     connector |-> t.connector, base |-> t.base]
    BY <2>3, <2>4
  <2>6. t = [agent |-> t.agent, desktop |-> t.desktop, connector |-> t.connector,
             base |-> t.base]
    BY <2>1
  <2> QED
    BY <2>4, <2>5, <2>6
<1> QED
  BY <1>3, <1>4, FS_Subset

\* A finite set written as a sequence.
LEMMA Listing ==
  ASSUME NEW S, IsFiniteSet(S)
  PROVE  SetToSeq(S) \in Seq(S) /\ Elements(SetToSeq(S)) = S
<1>1. Cardinality(S) \in Nat /\ ExistsBijection(1..Cardinality(S), S)
  BY FS_CardinalityType
<1>2. PICK g \in Bijection(1..Cardinality(S), S) : TRUE
  BY <1>1 DEF ExistsBijection
<1>3. g \in [1..Cardinality(S) -> S] /\ IsInjective(g)
  BY <1>2 DEF Bijection, Injection
<1>4. SetToSeq(S) \in [1..Cardinality(S) -> S] /\ IsInjective(SetToSeq(S))
  BY <1>3 DEF SetToSeq
<1>5. SetToSeq(S) \in Injection(1..Cardinality(S), S)
  BY <1>4 DEF Injection
<1>6. IsFiniteSet(1..Cardinality(S)) /\ Cardinality(1..Cardinality(S)) = Cardinality(S)
  BY <1>1, FS_Interval
<1>7. SetToSeq(S) \in Surjection(1..Cardinality(S), S)
  BY <1>5, <1>6, FS_Injection
<1>8. Elements(SetToSeq(S)) = S
  BY <1>4, <1>7 DEF Surjection, Elements
<1>9. SetToSeq(S) \in Seq(S)
  BY <1>1, <1>4, SeqDef, Zenon
<1> QED
  BY <1>8, <1>9

\* pull() goes through what is wanted, all of it.
LEMMA ExpandIs ==
  ASSUME NEW c \in Importable, NEW q \in Requests, q.verb = "pull"
  PROVE  /\ Expand(c, q.variants) \in Seq(Wanted(c, q))
         /\ Elements(Expand(c, q.variants)) = Wanted(c, q)
<1>1. q.variants \in Seq(Seq(STRING)) /\ q.verb # "up"
  BY RequestIs
<1>2. CASE All \in Elements(q.variants)
  <2> DEFINE S == {Value(t) : t \in OFFICIAL_TAG_VALUES[c]}
  <2>1. Expand(c, q.variants) = SetToSeq(S)
    BY <1>2 DEF Expand, Elements
  <2>2. Wanted(c, q) = S
    BY <1>1, <1>2 DEF Wanted
  <2>3. IsFiniteSet(S)
    <3> DEFINE T == OFFICIAL_TAG_VALUES[c]
               f == [t \in T |-> Value(t)]
    <3>1. IsFiniteSet(T)
      BY PullAssumption, FiniteMatrix DEF OFFICIAL_TAG_VALUES, Importable
    <3>2. f \in Surjection(T, S)
      BY DEF Surjection
    <3> QED
      BY <3>1, <3>2, FS_Surjection
  <2> HIDE DEF S
  <2> QED
    BY <2>1, <2>2, <2>3, Listing
<1>3. CASE All \notin Elements(q.variants)
  <2>1. Expand(c, q.variants) = [i \in DOMAIN q.variants |-> Typed(q.variants[i])]
    BY <1>3 DEF Expand, Elements
  <2>2. Wanted(c, q) = {Typed(s) : s \in Elements(q.variants)}
    BY <1>1, <1>3 DEF Wanted
  <2>3. DOMAIN q.variants = 1..Len(q.variants) /\ Len(q.variants) \in Nat
    BY <1>1
  <2>4. Elements(Expand(c, q.variants)) = Wanted(c, q)
    BY <2>1, <2>2 DEF Elements
  <2>5. Expand(c, q.variants) \in [1..Len(q.variants) -> Wanted(c, q)]
    BY <2>1, <2>2, <2>3 DEF Elements
  <2>6. Expand(c, q.variants) \in Seq(Wanted(c, q))
    BY <2>3, <2>5, SeqDef, Zenon
  <2> QED
    BY <2>4, <2>6
<1> QED
  BY <1>2, <1>3

\* What is wanted and is a tag has an image of its own name.
LEMMA WantedIs ==
  ASSUME NEW c \in Importable, NEW q \in Requests, NEW i \in Wanted(c, q), WellFormed(i.name)
  PROVE  /\ Parse(i.name) \in Tag /\ Service(Parse(i.name)) = Image(i)
         /\ Image(i) \in Images /\ Image(i) # <<>>
<1>1. CASE \E t \in OFFICIAL_TAG_VALUES[c] : i = Value(t)
  <2>1. PICK t \in OFFICIAL_TAG_VALUES[c] : i = Value(t)
    BY <1>1
  <2>2. t \in ValidTags(Trees[c]) /\ Loads(Trees[c])
    BY DEF OFFICIAL_TAG_VALUES, OfficialTags, Importable
  <2>3. t \in Tag
    BY <2>2, ValidTagsAreTags
  <2>4. i.name = Str(t) /\ Parse(i.name) = t
    BY <2>1, <2>3, TagRoundTrip DEF Value
  <2>5. Str(t) # <<>>
    BY <2>3, StrShape
  <2>6. Str(t) \in Images
    BY <2>2 DEF Images
  <2> QED
    BY <2>3, <2>4, <2>5, <2>6 DEF Service, Image
<1>2. CASE \E s \in Elements(q.variants) : i = Typed(s)
  <2>1. PICK s \in Elements(q.variants) : i = Typed(s)
    BY <1>2
  <2>2. s \in Seq(STRING) /\ s \in TypedNames /\ i.name = s
    BY <2>1, RequestIs DEF Typed
  <2>3. Parse(s) \in Tag
    BY <2>2, ParseIsCanonical
  <2>4. PICK t \in Tag : t = Parse(s)
    BY <2>3
  <2>5. Str(t) # <<>>
    BY StrShape
  <2>6. Str(t) \in Images
    BY <2>2, <2>4 DEF Images
  <2> QED
    BY <2>2, <2>4, <2>5, <2>6 DEF Service, Image
<1>3. q.verb = "up" => q.variants[1] \in Elements(q.variants)
  BY RequestIs
<1> QED
  BY <1>1, <1>2, <1>3 DEF Wanted

-----------------------------------------------------------------------------
(* The inductive invariant *)

Working == {"inspect", "loop", "tag", "go on"}

Types ==
  /\ checkout \in DOMAIN Trees
  /\ DOMAIN local = Images
  /\ request \in [Procs -> Requests \cup {NoRequest}]
  /\ pc \in [Procs -> Working \cup {"idle", "ended"}]
  /\ todo = [p \in Procs |-> todo[p]]
  /\ failed = [p \in Procs |-> failed[p]]
  /\ outcome = [p \in Procs |-> outcome[p]]
  /\ touched = [p \in Procs |-> touched[p]]

\* Where a run is, and what it has been asked for.
Place(p) ==
  /\ pc[p] # "ended" => outcome[p] = "none"
  /\ pc[p] # "idle" => request[p] \in Requests
  /\ pc[p] \in Working \/ outcome[p] = "ok" => checkout \in Importable
  /\ pc[p] \in {"inspect", "go on"} => request[p].verb = "up"
  /\ request[p].verb = "up" /\ (pc[p] \in Working \/ outcome[p] = "ok")
     => WellFormed(request[p].variants[1])

\* In the loop every variant is still to do, has failed, or has landed.
Looping(p) ==
  pc[p] \in {"loop", "tag"} =>
    /\ todo[p] \in Seq(Wanted(checkout, request[p]))
    /\ pc[p] = "tag" => todo[p] # <<>> /\ WellFormed(Item(p).name)
    /\ \A i \in Wanted(checkout, request[p]) :
         \/ i \in Elements(todo[p]) \/ i \in failed[p]
         \/ WellFormed(i.name) /\ Pulled(p, Image(i))

\* Behind the loop they have all landed, or were there.
Landed(p) ==
  /\ pc[p] = "go on" \/ (outcome[p] = "ok" /\ request[p].verb = "up") =>
       request[p].dry \/ There(p, Str(Parse(request[p].variants[1])))
  /\ outcome[p] = "ok" /\ request[p].verb = "pull" =>
       \A i \in Wanted(checkout, request[p]) : WellFormed(i.name) /\ Pulled(p, Image(i))

PullInv == Types /\ \A p \in Procs : Place(p) /\ Looping(p) /\ Landed(p)

-----------------------------------------------------------------------------
(* Every step *)

OfRun(p) == Place(p) /\ Looping(p) /\ Landed(p)

\* What a run is and has is as it was; an image of its own was touched or is as
\* it was.
Kept(p) ==
  /\ pc'[p] = pc[p] /\ todo'[p] = todo[p] /\ failed'[p] = failed[p]
  /\ outcome'[p] = outcome[p] /\ request'[p] = request[p] /\ checkout' = checkout
  /\ pc[p] # "idle" => \A n \in Images : /\ n \in touched'[p] \/ local'[n] = local[n]
                                         /\ n \in touched[p] => n \in touched'[p]

LEMMA KeptIs ==
  ASSUME PullInv, NEW p \in Procs, Kept(p)
  PROVE  OfRun(p)'
<1>1. OfRun(p)
  BY DEF PullInv, OfRun
<1>2. Place(p)'
  BY <1>1 DEF OfRun, Place, Kept
<1>3. CASE pc[p] = "idle"
  BY <1>1, <1>2, <1>3 DEF OfRun, Place, Looping, Landed, Kept
<1>4. CASE pc[p] # "idle"
  <2>1. request[p] \in Requests
    BY <1>1, <1>4 DEF OfRun, Place
  <2>2. ASSUME NEW n \in Images
        PROVE  /\ Pulled(p, n) => Pulled(p, n)'
               /\ There(p, n) => There(p, n)'
    BY <1>4, <2>2 DEF Kept, Pulled, There
  <2>3. ASSUME checkout \in Importable, NEW i \in Wanted(checkout, request[p]),
               WellFormed(i.name), Pulled(p, Image(i))
        PROVE  Pulled(p, Image(i))'
    BY <2>1, <2>2, <2>3, WantedIs
  <2>4. Looping(p)'
    BY <1>1, <2>3 DEF OfRun, Place, Looping, Kept, Item, Working
  <2>5. Landed(p)'
    <3>1. CASE pc[p] = "go on" \/ (outcome[p] = "ok" /\ request[p].verb = "up")
      <4>1. /\ checkout \in Importable /\ request[p].verb = "up"
            /\ WellFormed(request[p].variants[1])
        BY <1>1, <3>1 DEF OfRun, Place, Working
      <4>2. Typed(request[p].variants[1]) \in Wanted(checkout, request[p])
        BY <4>1 DEF Wanted
      <4>3. Str(Parse(request[p].variants[1])) \in Images
        BY <2>1, <4>1, <4>2, WantedIs DEF Typed, Image
      <4> QED
        BY <1>1, <2>2, <3>1, <4>1, <4>3 DEF OfRun, Landed, Kept
    <3>2. CASE outcome[p] = "ok" /\ request[p].verb = "pull"
      BY <1>1, <2>3, <3>2 DEF OfRun, Place, Landed, Kept
    <3> QED
      BY <3>1, <3>2 DEF Landed, Kept
  <2> QED
    BY <1>2, <2>4, <2>5 DEF OfRun
<1> QED
  BY <1>3, <1>4

\* A run ends, and not with 0.
LEMMA EndsBadly ==
  ASSUME PullInv, NEW p \in Procs, NEW how, how # "ok", End(p, how),
         request'[p] \in Requests
  PROVE  OfRun(p)'
BY DEF PullInv, Types, End, Goto, OfRun, Place, Looping, Landed, Working

\* What p deals with next is behind it, and the rest is still to do.
LEMMA Next1 ==
  ASSUME PullInv, NEW p \in Procs, pc[p] \in {"loop", "tag"}, todo[p] # <<>>
  PROVE  /\ Item(p) \in Wanted(checkout, request[p])
         /\ Tail(todo[p]) \in Seq(Wanted(checkout, request[p]))
         /\ \A i \in Elements(todo[p]) : i = Item(p) \/ i \in Elements(Tail(todo[p]))
<1> DEFINE W == Wanted(checkout, request[p])
<1>1. todo[p] \in Seq(W)
  BY DEF PullInv, Looping
<1>2. PICK t \in Seq(W) : t = todo[p] /\ t # <<>>
  BY <1>1
<1>3. /\ Head(t) \in W /\ Tail(t) \in Seq(W) /\ Len(Tail(t)) = Len(t) - 1
      /\ \A j \in 1..Len(Tail(t)) : Tail(t)[j] = t[j + 1]
  BY <1>2, HeadTailProperties
<1>5. /\ Head(t) = t[1] /\ Len(t) \in Nat /\ DOMAIN t = 1..Len(t)
      /\ DOMAIN Tail(t) = 1..Len(Tail(t))
  BY <1>2, <1>3
<1>4. ASSUME NEW j \in DOMAIN t
      PROVE  t[j] = Head(t) \/ t[j] \in Elements(Tail(t))
  <2>1. CASE j = 1
    BY <1>5, <2>1
  <2>2. CASE j # 1
    <3>1. j - 1 \in 1..Len(Tail(t)) /\ (j - 1) + 1 = j
      BY <1>3, <1>5, <2>2
    <3> QED
      BY <1>3, <1>5, <3>1 DEF Elements
  <2> QED
    BY <2>1, <2>2
<1> QED
  BY <1>2, <1>3, <1>4 DEF Item, Elements

\* Inspect and the loop of pull(), for the run that goes through it.
LEMMA OwnStep ==
  ASSUME PullInv, NEW p \in Procs, Inspect(p) \/ Variant(p) \/ Finish(p)
  PROVE  OfRun(p)'
<1> DEFINE q == request[p]
<1>1. Types /\ OfRun(p) /\ pc[p] # "idle" /\ pc[p] # "ended"
  BY DEF PullInv, OfRun, Inspect, Variant, Finish, Malformed, DockerPull, DockerPullFails,
         DockerTag, DockerTagFails, PullReports, UpReports, GoOn, Interrupt
<1>2. /\ request' = request /\ q \in Requests /\ checkout' = checkout /\ pc[p] \in Working
      /\ outcome[p] = "none" /\ checkout \in Importable /\ q.verb \in {"pull", "up"}
      /\ q.verb = "up" => WellFormed(q.variants[1])
  <2>1. q \in Requests /\ pc[p] \in Working
    BY <1>1 DEF OfRun, Place, Types
  <2> QED
    BY <1>1, <2>1, RequestIs
       DEF OfRun, Place, Inspect, Variant, Finish, Malformed, DockerPull, DockerPullFails,
           DockerTag, DockerTagFails, PullReports, UpReports, GoOn, Interrupt
<1>3. CASE Inspect(p)
  <2>1. q.verb = "up" /\ outcome' = outcome /\ local' = local
    BY <1>1, <1>3 DEF OfRun, Place, Inspect
  <2>2. CASE local[Str(Parse(q.variants[1]))] # NoImage /\ Goto(p, "go on")
    BY <1>1, <1>2, <2>1, <2>2
       DEF Goto, Types, OfRun, Place, Looping, Landed, There, Working
  <2>3. CASE Goto(p, "loop") /\ todo' = [todo EXCEPT ![p] = <<Typed(q.variants[1])>>]
    <3>1. pc'[p] = "loop" /\ todo'[p] = <<Typed(q.variants[1])>>
      BY <1>1, <2>3 DEF Goto, Types
    <3>2. Wanted(checkout, q) = {Typed(q.variants[1])}
      BY <2>1 DEF Wanted
    <3>3. Elements(<<Typed(q.variants[1])>>) = {Typed(q.variants[1])}
      BY DEF Elements
    <3>4. Looping(p)'
      BY <1>2, <3>1, <3>2, <3>3 DEF Looping
    <3> QED
      BY <1>2, <2>1, <3>1, <3>4 DEF OfRun, Place, Landed, Working
  <2> QED
    BY <1>3, <2>2, <2>3 DEF Inspect
<1>4. CASE Malformed(p) \/ DockerPullFails(p)
  <2>1. /\ pc[p] = "loop" /\ todo[p] # <<>> /\ pc'[p] = "loop" /\ todo'[p] = Tail(todo[p])
        /\ failed'[p] = failed[p] \cup {Item(p)}
        /\ UNCHANGED <<outcome, local, touched>>
    BY <1>1, <1>4 DEF Malformed, DockerPullFails, FailItem, Goto, Types
  <2>2. ASSUME NEW i \in Wanted(checkout, q)
        PROVE  \/ i \in Elements(Tail(todo[p])) \/ i \in failed'[p]
               \/ WellFormed(i.name) /\ Pulled(p, Image(i))
    BY <1>1, <2>1, Next1 DEF OfRun, Looping
  <2>3. Looping(p)'
    BY <1>2, <2>1, <2>2, Next1 DEF Looping, Pulled
  <2> QED
    BY <1>1, <1>2, <2>1, <2>3 DEF OfRun, Place, Landed, Working
<1>5. CASE DockerPull(p)
  <2>1. /\ pc[p] = "loop" /\ todo[p] # <<>> /\ pc'[p] = "tag" /\ WellFormed(Item(p).name)
        /\ UNCHANGED <<todo, failed, outcome, local, touched>>
    BY <1>1, <1>5 DEF DockerPull, Goto, Types
  <2> QED
    BY <1>1, <1>2, <2>1 DEF OfRun, Place, Looping, Landed, Pulled, Item, Working
<1>6. CASE DockerTag(p)
  <2>1. /\ pc[p] = "tag" /\ pc'[p] = "loop" /\ todo[p] # <<>> /\ todo'[p] = Tail(todo[p])
        /\ WellFormed(Item(p).name) /\ UNCHANGED <<failed, outcome>>
    BY <1>1, <1>6 DEF DockerTag, Goto, Types, OfRun, Looping
  <2>2. PICK j \in Wanted(checkout, q), n \in Images :
          j = Item(p) /\ n = Image(j) /\ Service(Parse(j.name)) = n
    BY <1>2, <2>1, Next1, WantedIs
  <2> DEFINE img == Ghcr(RepoOf(q.env), Parse(j.name), VersionOf(q))
  <2>3. local' = [local EXCEPT ![n] = img] /\ touched'[p] = touched[p] \ {n}
    BY <1>6, <2>2 DEF DockerTag, Store, Touch
  <2>4. img = [repo |-> RepoOf(q.env), name |-> n, version |-> VersionOf(q)]
    BY <2>2 DEF Ghcr, Image
  <2> HIDE DEF img
  <2>5. Pulled(p, n)'
    BY <1>1, <1>2, <2>2, <2>3, <2>4 DEF Pulled, Types
  <2>6. ASSUME NEW m \in Images, Pulled(p, m)
        PROVE  Pulled(p, m)'
    BY <1>1, <1>2, <2>3, <2>5, <2>6 DEF Pulled, Types
  <2>7. ASSUME NEW i \in Wanted(checkout, q)
        PROVE  \/ i \in Elements(Tail(todo[p])) \/ i \in failed[p]
               \/ WellFormed(i.name) /\ Pulled(p, Image(i))'
    <3>1. CASE i = j
      BY <2>1, <2>2, <2>5, <3>1
    <3>2. CASE WellFormed(i.name) /\ Pulled(p, Image(i))
      BY <1>2, <2>6, <3>2, WantedIs
    <3> QED
      BY <1>1, <2>1, <2>2, <3>1, <3>2, Next1 DEF OfRun, Looping
  <2>8. Looping(p)'
    BY <1>2, <2>1, <2>7, Next1 DEF Looping
  <2> QED
    BY <1>1, <1>2, <2>1, <2>8 DEF OfRun, Place, Landed, Working
<1>7. CASE DockerTagFails(p) \/ Interrupt(p)
  BY <1>2, <1>7, EndsBadly DEF DockerTagFails, Interrupt
<1>8. ASSUME pc[p] = "loop", todo[p] = <<>>, failed[p] = {}, NEW i \in Wanted(checkout, q)
      PROVE  WellFormed(i.name) /\ Pulled(p, Image(i))
  <2>1. Elements(todo[p]) = {}
    BY <1>8 DEF Elements
  <2> QED
    BY <1>1, <1>8, <2>1 DEF OfRun, Looping
<1>9. CASE PullReports(p)
  <2>1. CASE failed[p] = {} /\ End(p, "ok")
    <3>1. /\ pc'[p] = "ended" /\ outcome'[p] = "ok" /\ q.verb = "pull"
          /\ pc[p] = "loop" /\ todo[p] = <<>> /\ UNCHANGED <<local, touched>>
      BY <1>1, <1>9, <2>1 DEF PullReports, End, Goto, Types
    <3> QED
      BY <1>2, <1>8, <2>1, <3>1 DEF OfRun, Place, Looping, Landed, Pulled, Working
  <2>2. CASE End(p, "summary") \/ End(p, "traceback")
    BY <1>2, <2>2, EndsBadly
  <2> QED
    BY <1>9, <2>1, <2>2 DEF PullReports
<1>10. CASE UpReports(p)
  <2>1. CASE failed[p] = {} /\ Goto(p, "go on") /\ outcome' = outcome
    <3>1. /\ pc'[p] = "go on" /\ outcome'[p] = "none" /\ q.verb = "up"
          /\ pc[p] = "loop" /\ todo[p] = <<>> /\ UNCHANGED <<local, touched>>
      BY <1>1, <1>2, <1>10, <2>1 DEF UpReports, Goto, Types
    <3> DEFINE i == Typed(q.variants[1])
    <3>2. i \in Wanted(checkout, q) /\ Image(i) = Str(Parse(q.variants[1]))
      BY <3>1 DEF Wanted, Typed, Image
    <3>3. WellFormed(i.name) /\ Pulled(p, Image(i))
      BY <1>8, <2>1, <3>1, <3>2
    <3>4. Image(i) # <<>>
      BY <1>2, <3>2, <3>3, WantedIs
    <3>5. There(p, Image(i))
      <4>1. NoImage.name = <<>>
        BY DEF NoImage
      <4> QED
        BY <3>3, <3>4, <4>1 DEF Pulled, There
    <3> QED
      BY <1>2, <3>1, <3>2, <3>5 DEF OfRun, Place, Looping, Landed, There, Working
  <2>2. CASE End(p, "no image")
    BY <1>2, <2>2, EndsBadly
  <2> QED
    BY <1>10, <2>1, <2>2 DEF UpReports
<1>11. CASE GoOn(p)
  <2>1. /\ pc[p] = "go on" /\ pc'[p] = "ended" /\ outcome'[p] = "ok"
        /\ UNCHANGED <<local, touched>>
    BY <1>1, <1>11 DEF GoOn, End, Goto, Types
  <2> QED
    BY <1>1, <1>2, <2>1 DEF OfRun, Place, Looping, Landed, There, Working
<1> QED
  BY <1>3, <1>4, <1>5, <1>6, <1>7, <1>9, <1>10, <1>11 DEF Variant, Finish

\* A run begins.
LEMMA BeginStep ==
  ASSUME PullInv, NEW p \in Procs, NEW q \in Requests, Begin(p, q)
  PROVE  OfRun(p)'
<1>0. Types /\ Place(p)
  BY DEF PullInv
<1>1. /\ pc[p] = "idle" /\ outcome[p] = "none" /\ request'[p] = q /\ checkout' = checkout
  BY <1>0 DEF Types, Place, Begin, ImportFails, PullBegins, UpRefused, UpBegins, Ask
<1>2. CASE ImportFails(p, q) \/ UpRefused(p, q)
  BY <1>1, <1>2, EndsBadly DEF ImportFails, UpRefused
<1>3. CASE PullBegins(p, q)
  <2>1. /\ pc'[p] = "loop" /\ todo'[p] = Expand(checkout, q.variants) /\ q.verb = "pull"
        /\ checkout \in Importable /\ outcome'[p] = "none"
    BY <1>0, <1>1, <1>3 DEF PullBegins, Goto, Types
  <2> QED
    BY <1>1, <2>1, ExpandIs DEF OfRun, Place, Looping, Landed, Working
<1>4. CASE UpBegins(p, q)
  <2>1. checkout \in Importable /\ q.verb = "up" /\ outcome'[p] = "none"
    BY <1>1, <1>4 DEF UpBegins
  <2>2. WellFormed(q.variants[1])
    BY <1>4 DEF UpBegins, Resolve
  <2>3. CASE Goto(p, "loop") /\ todo' = [todo EXCEPT ![p] = <<Typed(q.variants[1])>>]
    <3>1. pc'[p] = "loop" /\ todo'[p] = <<Typed(q.variants[1])>>
      BY <1>0, <1>1, <2>3 DEF Goto, Types
    <3>2. Wanted(checkout, q) = {Typed(q.variants[1])}
      BY <2>1 DEF Wanted
    <3>3. Elements(<<Typed(q.variants[1])>>) = {Typed(q.variants[1])}
      BY DEF Elements
    <3> QED
      BY <1>1, <2>1, <2>2, <3>1, <3>2, <3>3 DEF OfRun, Place, Looping, Landed, Working
  <2>4. CASE (q.dry /\ Goto(p, "go on")) \/ Goto(p, "inspect")
    <3>1. (q.dry /\ pc'[p] = "go on") \/ pc'[p] = "inspect"
      BY <1>0, <1>1, <2>4 DEF Goto, Types
    <3> QED
      BY <1>1, <2>1, <2>2, <3>1 DEF OfRun, Place, Looping, Landed, Working
  <2> QED
    BY <1>4, <2>3, <2>4 DEF UpBegins
<1> QED
  BY <1>2, <1>3, <1>4 DEF Begin

LEMMA TypesStep == PullInv /\ [Next]_vars => Types'
<1> SUFFICES ASSUME PullInv, [Next]_vars PROVE Types'
  OBVIOUS
<1>1. Types
  BY DEF PullInv
<1>2. ASSUME NEW p \in Procs, Inspect(p) \/ Variant(p) \/ Finish(p) PROVE Types'
  BY <1>1, <1>2
     DEF Types, Inspect, Variant, Finish, Malformed, DockerPull, DockerPullFails, FailItem,
         DockerTag, DockerTagFails, PullReports, UpReports, GoOn, Interrupt, End, Goto,
         Store, Touch, Working
<1>3. ASSUME NEW p \in Procs, NEW q \in Requests, Begin(p, q) PROVE Types'
  BY <1>1, <1>3
     DEF Types, Begin, ImportFails, PullBegins, UpRefused, UpBegins, Ask, End, Goto, Working
<1>4. ASSUME NEW n \in Images, RemoveImage(n) PROVE Types'
  BY <1>1, <1>4 DEF Types, RemoveImage, Touch
<1>5. CASE UNCHANGED vars
  BY <1>1, <1>5 DEF Types, vars
<1> QED
  BY <1>2, <1>3, <1>4, <1>5 DEF Next

\* What a run does to another.
LEMMA OtherStep ==
  ASSUME PullInv, NEW p \in Procs, NEW s \in Procs, s # p,
         \/ Inspect(p) \/ Variant(p) \/ Finish(p)
         \/ \E q \in Requests : Begin(p, q)
  PROVE  Kept(s)
<1>1. Types
  BY DEF PullInv
<1>2. CASE DockerTag(p)
  <2>1. PICK n, img : Store(p, n, img)
    BY <1>2 DEF DockerTag
  <2>2. pc[s] # "idle" => touched'[s] = touched[s] \cup {n}
    BY <2>1 DEF Store, Touch
  <2>3. \A m \in Images : m # n => local'[m] = local[m]
    BY <1>1, <2>1 DEF Store, Types
  <2> QED
    BY <1>1, <1>2, <2>2, <2>3 DEF DockerTag, Goto, Kept, Types
<1>3. CASE Inspect(p) \/ Malformed(p) \/ DockerPull(p) \/ DockerPullFails(p) \/ DockerTagFails(p)
  BY <1>1, <1>3
     DEF Inspect, Malformed, DockerPull, DockerPullFails, FailItem, DockerTagFails, End, Goto,
         Kept, Types
<1>4. CASE Finish(p)
  BY <1>1, <1>4 DEF Finish, PullReports, UpReports, GoOn, Interrupt, End, Goto, Kept, Types
<1>5. ASSUME NEW q \in Requests, Begin(p, q) PROVE Kept(s)
  BY <1>1, <1>5
     DEF Begin, ImportFails, PullBegins, UpRefused, UpBegins, Ask, End, Goto, Kept, Types
<1> QED
  BY <1>2, <1>3, <1>4, <1>5 DEF Variant

LEMMA PullInvStep == PullInv /\ [Next]_vars => PullInv'
<1> SUFFICES ASSUME PullInv, [Next]_vars, NEW s \in Procs PROVE OfRun(s)'
  BY TypesStep DEF PullInv, OfRun
<1>1. ASSUME NEW p \in Procs, \/ Inspect(p) \/ Variant(p) \/ Finish(p)
                              \/ \E q \in Requests : Begin(p, q)
      PROVE  OfRun(s)'
  <2>1. CASE s # p
    BY <1>1, <2>1, OtherStep, KeptIs
  <2>2. CASE s = p
    BY <1>1, <2>2, OwnStep, BeginStep
  <2> QED
    BY <2>1, <2>2
<1>2. ASSUME NEW n \in Images, RemoveImage(n) PROVE OfRun(s)'
  <2>1. Types
    BY DEF PullInv
  <2>2. pc[s] # "idle" => touched'[s] = touched[s] \cup {n}
    BY <1>2 DEF RemoveImage, Touch
  <2>3. \A m \in Images : m # n => local'[m] = local[m]
    BY <1>2, <2>1 DEF RemoveImage, Types
  <2>4. Kept(s)
    BY <1>2, <2>2, <2>3 DEF RemoveImage, Kept
  <2> QED
    BY <2>4, KeptIs
<1>3. CASE UNCHANGED vars
  BY <1>3, KeptIs DEF vars, Kept
<1> QED
  BY <1>1, <1>2, <1>3 DEF Next

LEMMA PullInvInit == Init => PullInv
BY DEF Init, PullInv, Types, Place, Looping, Landed, Working, NoRequest

LEMMA PullAlways == Spec => []PullInv
BY PullInvInit, PullInvStep, PTL DEF Spec

\* pull_cmd's promise to scripts, for every plugin tree, every request and any
\* number of runs: exit status 0 means that each image that was asked for is
\* the one this run pulled, or that somebody has changed it since; "all" is the
\* whole official matrix, and an up that goes on has its image.
THEOREM ZeroMeansLanded == Spec => []ExitZeroMeansLanded
<1>1. PullInv => ExitZeroMeansLanded
  <2> SUFFICES ASSUME PullInv, NEW p \in Procs, outcome[p] = "ok"
               PROVE  LET q     == request[p]
                          typed == {q.variants[i] : i \in DOMAIN q.variants}
                          asked == IF All \in typed
                                   THEN {Str(t) : t \in OFFICIAL_TAG_VALUES[checkout]}
                                   ELSE {Str(Parse(s)) : s \in typed} IN
                      /\ All \notin typed => \A s \in typed : WellFormed(s)
                      /\ \A n \in asked \ touched[p] :
                           IF q.verb = "up" THEN q.dry \/ local[n] # NoImage
                           ELSE local[n] = [repo |-> RepoOf(q.env), name |-> n,
                                            version |-> VersionOf(q)]
    BY DEF ExitZeroMeansLanded
  <2> DEFINE q     == request[p]
             typed == {q.variants[i] : i \in DOMAIN q.variants}
             asked == IF All \in typed THEN {Str(t) : t \in OFFICIAL_TAG_VALUES[checkout]}
                      ELSE {Str(Parse(s)) : s \in typed}
  <2>1. Place(p) /\ Landed(p) /\ Types /\ pc[p] # "idle" /\ q \in Requests
        /\ checkout \in Importable
    BY DEF PullInv, Place
  <2>2. typed = Elements(q.variants) /\ q.verb \in {"pull", "up"}
    BY <2>1, RequestIs DEF Elements
  <2> HIDE DEF q, typed
  <2>3. CASE q.verb = "up"
    <3>1. typed = {q.variants[1]} /\ WellFormed(q.variants[1])
      BY <2>1, <2>2, <2>3, RequestIs DEF Place, q
    <3>2. All # q.variants[1]
      BY <3>1 DEF WellFormed, All
    <3>3. asked = {Str(Parse(q.variants[1]))}
      BY <3>1, <3>2
    <3>4. q.dry \/ There(p, Str(Parse(q.variants[1])))
      BY <2>1, <2>3 DEF Landed, q
    <3> QED
      BY <2>3, <3>1, <3>3, <3>4 DEF There, q, typed
  <2>4. CASE q.verb = "pull"
    <3>1. \A i \in Wanted(checkout, q) : WellFormed(i.name) /\ Pulled(p, Image(i))
      BY <2>1, <2>4 DEF Landed, q
    <3>2. CASE All \in typed
      <4>1. ASSUME NEW t \in OFFICIAL_TAG_VALUES[checkout] PROVE Pulled(p, Str(t))
        <5>1. Value(t) \in Wanted(checkout, q)
          BY <2>2, <2>4, <3>2 DEF Wanted
        <5>2. t \in Tag
          BY <2>1, ValidTagsAreTags DEF OFFICIAL_TAG_VALUES, OfficialTags, Importable
        <5>3. Image(Value(t)) = Str(t)
          BY <5>2, TagRoundTrip DEF Image, Value
        <5> QED
          BY <3>1, <5>1, <5>3
      <4> QED
        BY <2>4, <3>2, <4>1 DEF Pulled, q, typed
    <3>3. CASE All \notin typed
      <4>1. ASSUME NEW s \in typed PROVE WellFormed(s) /\ Pulled(p, Str(Parse(s)))
        <5>1. Typed(s) \in Wanted(checkout, q)
          BY <2>2, <2>4, <3>3 DEF Wanted
        <5> QED
          BY <3>1, <5>1 DEF Image, Typed
      <4> QED
        BY <2>4, <3>3, <4>1 DEF Pulled, q, typed
    <3> QED
      BY <3>2, <3>3
  <2> QED
    BY <2>2, <2>3, <2>4
<1> QED
  BY <1>1, PullAlways, PTL
================================================================================
