--------------------------------- MODULE Pull ---------------------------------
(***************************************************************************)
(* The pull verb, and up as far as it pulls (verbs/pull.py, verbs/up.py):  *)
(* processes that import the registry of one checkout, take tags from the  *)
(* command line or the whole official matrix, and bring image after image  *)
(* from GHCR to the local name, while the others and the user work on the  *)
(* same image store.                                                       *)
(***************************************************************************)
EXTENDS Registry, SequencesExt

CONSTANTS
  Procs,        (* runs of the CLI                                            *)
  Trees,        (* the plugin trees a checkout may have, in a sequence        *)
  Requests,     (* what a run may be asked for                                *)
  Projects,     (* project names, as sequences of segments                    *)
  MaxRemovals   (* BOUND: images the user removes                             *)

\* variants: what was typed; version: --tag, or ""; pull: up --pull.
\* env: SANITY_GHCR_REPO, the origin remote, the exact git tag, the short sha.
Request ==
  [verb : {"pull", "up"}, variants : Seq(Seq(STRING)), version : STRING,
   pull : BOOLEAN, dry : BOOLEAN,
   env : [override : STRING, origin : {"unreadable", "github", "other"},
          exact : STRING, sha : STRING]]

ASSUME PullAssumption ==
  /\ Requests \subseteq Request
  /\ \A q \in Requests : q.verb = "up" => Len(q.variants) = 1
  /\ \A c \in DOMAIN Trees : IsFiniteSet(Trees[c])
  /\ \A c \in DOMAIN Trees : \A d, e \in Trees[c] :
       d.manifest \in Manifest /\ (d.kind = e.kind /\ d.name = e.name => d = e)
  /\ Projects \subseteq Seq(STRING)
  /\ MaxRemovals \in Nat

\* resolve_ghcr_repo: the variable, then a GitHub origin, then the upstream.
RepoOf(env) ==
  CASE env.override # ""                            -> env.override
    [] env.override = "" /\ env.origin = "github"   -> "fork"
    [] env.override = "" /\ env.origin # "github"   -> "shiritai/sanity-gravity"

\* --tag, then get_target_version_tag.
VersionOf(q) ==
  CASE q.version # ""                                         -> q.version
    [] q.version = "" /\ q.env.exact # ""                     -> q.env.exact
    [] q.version = "" /\ q.env.exact = "" /\ q.env.sha # ""   -> q.env.sha
    [] OTHER                                                  -> "latest"

All == <<"all">>

\* A variant of the loop: typed, or a Tag value of the matrix.
Typed(s) == [name |-> s, value |-> FALSE]
Value(t) == [name |-> Str(t), value |-> TRUE]

\* core/registry.py computes the matrix once, when it is imported.
Importable          == {c \in DOMAIN Trees : Loads(Trees[c])}
OFFICIAL_TAG_VALUES == [c \in Importable |-> OfficialTags(Trees[c])]

\* pull(): "all" among the variants is the official matrix, and nothing else.
Expand(c, variants) ==
  IF \E i \in DOMAIN variants : variants[i] = All
  THEN SetToSeq({Value(t) : t \in OFFICIAL_TAG_VALUES[c]})
  ELSE [i \in DOMAIN variants |-> Typed(variants[i])]

TypedNames == UNION {{q.variants[i] : i \in DOMAIN q.variants} : q \in Requests}

\* The local images that anything here names.
Images == {Str(Parse(s)) : s \in {n \in TypedNames : WellFormed(n)}}
            \cup UNION {{Str(t) : t \in ValidTags(Trees[c])} : c \in Importable}

NoImage == [repo |-> "", name |-> <<>>, version |-> ""]

-----------------------------------------------------------------------------
VARIABLES
  checkout,  (* the plugin tree there is, an index of Trees                   *)
  local,     (* what each sanity-gravity:<tag> is                             *)
  request,   (* what each run was asked for                                   *)
  pc,        (* where each run is                                             *)
  todo,      (* variants it has not dealt with                                *)
  failed,    (* report.failed                                                 *)
  outcome,   (* how it ended                                                  *)
  touched,   (* history: images someone else changed since it dealt with them *)
  removed    (* images removed by the user                                    *)

vars == <<checkout, local, request, pc, todo, failed, outcome, touched, removed>>

NoRequest == [verb |-> "none"]

Init ==
  /\ checkout \in DOMAIN Trees
  /\ local = [n \in Images |-> NoImage]
  /\ request = [p \in Procs |-> NoRequest]
  /\ pc = [p \in Procs |-> "idle"]
  /\ todo = [p \in Procs |-> <<>>]
  /\ failed = [p \in Procs |-> {}]
  /\ outcome = [p \in Procs |-> "none"]
  /\ touched = [p \in Procs |-> {}]
  /\ removed = 0

Goto(p, label) == pc' = [pc EXCEPT ![p] = label]

End(p, how) ==
  /\ Goto(p, "ended")
  /\ outcome' = [outcome EXCEPT ![p] = how]

\* For the runs that have begun, n is touched.
Touch(n) == [p \in Procs |-> IF pc[p] = "idle" THEN {} ELSE touched[p] \cup {n}]

\* The image n is now img; for p itself it is not touched.
Store(p, n, img) ==
  /\ local' = [local EXCEPT ![n] = img]
  /\ touched' = [Touch(n) EXCEPT ![p] = touched[p] \ {n}]

-----------------------------------------------------------------------------
(* The start of a run *)

Ask(p, q) ==
  /\ pc[p] = "idle"
  /\ request' = [request EXCEPT ![p] = q]

\* core/registry.py loads the tree when it is imported, before main() runs:
\* a ManifestError is a traceback.
ImportFails(p, q) ==
  /\ checkout \notin Importable
  /\ Ask(p, q) /\ End(p, "traceback")
  /\ UNCHANGED <<checkout, local, todo, failed, touched, removed>>

PullBegins(p, q) ==
  /\ checkout \in Importable /\ q.verb = "pull"
  /\ Ask(p, q)
  /\ todo' = [todo EXCEPT ![p] = Expand(checkout, q.variants)]
  /\ Goto(p, "loop")
  /\ UNCHANGED <<checkout, local, failed, outcome, touched, removed>>

\* up: resolve_tag first.
UpRefused(p, q) ==
  /\ checkout \in Importable /\ q.verb = "up"
  /\ Resolve(Trees[checkout], q.variants[1]) # "ok"
  /\ Ask(p, q) /\ End(p, "tag error")
  /\ UNCHANGED <<checkout, local, todo, failed, touched, removed>>

\* up --pull pulls, a dry run does not look, any other looks for the image.
UpBegins(p, q) ==
  /\ checkout \in Importable /\ q.verb = "up"
  /\ Resolve(Trees[checkout], q.variants[1]) = "ok"
  /\ Ask(p, q)
  /\ \/ q.pull /\ Goto(p, "loop") /\ todo' = [todo EXCEPT ![p] = <<Typed(q.variants[1])>>]
     \/ ~q.pull /\ q.dry /\ Goto(p, "go on") /\ todo' = todo
     \/ ~q.pull /\ ~q.dry /\ Goto(p, "inspect") /\ todo' = todo
  /\ UNCHANGED <<checkout, local, failed, outcome, touched, removed>>

\* docker image inspect; an answer that says nothing counts as no image.
Inspect(p) ==
  /\ pc[p] = "inspect"
  /\ touched' = [touched EXCEPT ![p] = {}]
  /\ \/ local[Str(Parse(request[p].variants[1]))] # NoImage /\ Goto(p, "go on") /\ todo' = todo
     \/ Goto(p, "loop") /\ todo' = [todo EXCEPT ![p] = <<Typed(request[p].variants[1])>>]
  /\ UNCHANGED <<checkout, local, request, failed, outcome, removed>>

-----------------------------------------------------------------------------
(* The loop of pull() *)

Item(p) == Head(todo[p])

FailItem(p) ==
  /\ failed' = [failed EXCEPT ![p] = @ \cup {Item(p)}]
  /\ todo' = [todo EXCEPT ![p] = Tail(@)]
  /\ Goto(p, "loop")

\* _as_tag: what is no tag joins the failed ones.
Malformed(p) ==
  /\ pc[p] = "loop" /\ todo[p] # <<>>
  /\ ~WellFormed(Item(p).name)
  /\ FailItem(p)
  /\ UNCHANGED <<checkout, local, request, outcome, touched, removed>>

\* docker pull: the reference may be published or not, now or later.
DockerPull(p) ==
  /\ pc[p] = "loop" /\ todo[p] # <<>>
  /\ WellFormed(Item(p).name)
  /\ Goto(p, "tag")
  /\ UNCHANGED <<checkout, local, request, todo, failed, outcome, touched, removed>>

\* Mutant: the failure is not remembered.
DockerPullFails_Forgotten(p) ==
  /\ pc[p] = "loop" /\ todo[p] # <<>>
  /\ WellFormed(Item(p).name)
  /\ todo' = [todo EXCEPT ![p] = Tail(@)]
  /\ UNCHANGED <<checkout, local, request, pc, failed, outcome, touched, removed>>

DockerPullFails(p) ==
  /\ pc[p] = "loop" /\ todo[p] # <<>>
  /\ WellFormed(Item(p).name)
  /\ FailItem(p)
  /\ UNCHANGED <<checkout, local, request, outcome, touched, removed>>

\* docker tag: Naming.ghcr becomes Naming.image.
DockerTag(p) ==
  /\ pc[p] = "tag"
  /\ LET t == Parse(Item(p).name) IN
     Store(p, Service(t), Ghcr(RepoOf(request[p].env), t, VersionOf(request[p])))
  /\ todo' = [todo EXCEPT ![p] = Tail(@)]
  /\ Goto(p, "loop")
  /\ UNCHANGED <<checkout, request, failed, outcome, removed>>

\* raise_for_status: the variants that are left are not tried.
DockerTagFails(p) ==
  /\ pc[p] = "tag"
  /\ End(p, "command error")
  /\ UNCHANGED <<checkout, local, request, todo, failed, touched, removed>>

-----------------------------------------------------------------------------
(* The end *)

\* pull_cmd.  ', '.join(report.failed) takes strings: with a Tag value of the
\* matrix among them it raises TypeError instead of making the summary.
PullReports(p) ==
  /\ pc[p] = "loop" /\ todo[p] = <<>> /\ request[p].verb = "pull"
  /\ \/ failed[p] = {} /\ End(p, "ok")
     \/ failed[p] # {} /\ (\A i \in failed[p] : ~i.value) /\ End(p, "summary")
     \/ (\E i \in failed[p] : i.value) /\ End(p, "traceback")
  /\ UNCHANGED <<checkout, local, request, todo, failed, touched, removed>>

\* _pull_or_die
UpReports(p) ==
  /\ pc[p] = "loop" /\ todo[p] = <<>> /\ request[p].verb = "up"
  /\ \/ failed[p] = {} /\ Goto(p, "go on") /\ outcome' = outcome
     \/ failed[p] # {} /\ End(p, "no image")
  /\ UNCHANGED <<checkout, local, request, todo, failed, touched, removed>>

\* The rest of up: module Sandboxes.
GoOn(p) ==
  /\ pc[p] = "go on"
  /\ End(p, "ok")
  /\ UNCHANGED <<checkout, local, request, todo, failed, touched, removed>>

\* Ctrl-C while docker works.
Interrupt(p) ==
  /\ pc[p] \in {"loop", "tag"} /\ todo[p] # <<>>
  /\ End(p, "interrupted")
  /\ UNCHANGED <<checkout, local, request, todo, failed, touched, removed>>

\* docker image rm by the user
RemoveImage(n) ==
  /\ removed < MaxRemovals /\ local[n] # NoImage
  /\ removed' = removed + 1
  /\ local' = [local EXCEPT ![n] = NoImage]
  /\ touched' = Touch(n)
  /\ UNCHANGED <<checkout, request, pc, todo, failed, outcome>>

Begin(p, q) == ImportFails(p, q) \/ PullBegins(p, q) \/ UpRefused(p, q) \/ UpBegins(p, q)
Variant(p)  == Malformed(p) \/ DockerPull(p) \/ DockerPullFails(p) \/ DockerTag(p) \/ DockerTagFails(p)
Finish(p)   == PullReports(p) \/ UpReports(p) \/ GoOn(p) \/ Interrupt(p)

Next ==
  \/ \E p \in Procs : Inspect(p) \/ Variant(p) \/ Finish(p)
  \/ \E p \in Procs, q \in Requests : Begin(p, q)
  \/ \E n \in Images : RemoveImage(n)

Spec == Init /\ [][Next]_vars

-----------------------------------------------------------------------------
(* Properties *)

\* pull_cmd: "scripts rely on the exit bit meaning 'the requested matrix landed
\* completely'".  A pull that exits with 0 has brought every image it was asked
\* for, from the repository and in the version this run resolved, and "all" is
\* every official tag; an up that goes on has its image.  What another run or
\* the user does to an image afterwards is not its fault.
ExitZeroMeansLanded ==
  \A p \in Procs : outcome[p] = "ok" =>
    LET q     == request[p]
        typed == {q.variants[i] : i \in DOMAIN q.variants}
        asked == IF All \in typed THEN {Str(t) : t \in OFFICIAL_TAG_VALUES[checkout]}
                                  ELSE {Str(Parse(s)) : s \in typed} IN
    /\ All \notin typed => \A s \in typed : WellFormed(s)
    /\ \A n \in asked \ touched[p] :
         IF q.verb = "up" THEN q.dry \/ local[n] # NoImage
         ELSE local[n] = [repo |-> RepoOf(q.env), name |-> n, version |-> VersionOf(q)]

Fresh == \A p \in Procs : pc[p] = "idle"

\* What may be typed: what the requests type, and what the registry prints.
Strings(u) == TypedNames \cup {Str(t) : t \in ValidTags(u)}

\* The three places that know the matrix agree, whatever plugins there are:
\* resolve_tag accepts a string iff it parses to a tag of valid_tags, the
\* matrix is printed in strings that mean their own tag, a tag that elides its
\* base stands on an official one, and what is published is official in all of
\* its four plugins.  A plugin more does not change what
\* the tags without it are: the tags of a tree less one directory are the tags
\* of the tree that do not name it.  (The tree never changes: the states
\* before the first run are enough.)
MatrixAgrees ==
  Fresh /\ checkout \in Importable => LET tree == Trees[checkout] IN
    /\ \A s \in Strings(tree) :
         Resolve(tree, s) = "ok" <=> WellFormed(s) /\ Parse(s) \in ValidTags(tree)
    /\ \A t \in ValidTags(tree) : Parse(Str(t)) = t /\ Resolve(tree, Str(t)) = "ok"
    /\ \A t \in ValidTags(tree) :
         t.base = DEFAULT_BASE => Get(tree, "base-image", t.base).tier = "official"
    /\ \A t \in OfficialTags(tree) : \A m \in Plugins(tree, t) : m.tier = "official"
    /\ \A d \in tree : Loads(tree \ {d}) =>
         ValidTags(tree \ {d}) = {t \in ValidTags(tree) : d.manifest \notin Plugins(tree, t)}

\* Two sandboxes never share a container or a volume, and two layers never an
\* image: projects that differ only in where their name ends and the tag begins
\* included.  The one exception the grammar leaves is spelled out: a base that
\* has the slug of the other tag's connector.
NamesIdentify ==
  Fresh /\ checkout \in Importable =>
    LET valid  == ValidTags(Trees[checkout])
        layers == UNION {{SubSeq(OfTag(t), 1, k) : k \in 1..4} : t \in valid} IN
    /\ \A t, u \in valid : \A p, q \in Projects :
         \/ Container(p, t) = Container(q, u)
         \/ VolumeExternal(p, t) = VolumeExternal(q, u)
         => (p = q /\ t = u) \/ Overlap(t, u)
    /\ \A l \in layers : IsLayerName(LayerName(l)) /\ ParseLayer(LayerName(l)) = l
=============================================================================
