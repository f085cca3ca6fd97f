--------------------------------- MODULE Ports ---------------------------------
(***************************************************************************)
(* The host ports of one sandbox, from the [ports] and [announce] sections *)
(* of a plugin tree to what the user is told: `up` (verbs/up.py,           *)
(* hooks/up.py), the compose file (compose/generators.py) and `upgrade`    *)
(* (verbs/upgrade.py).                                                     *)
(*                                                                         *)
(* The same port has four names: the label its manifest gives it, the slug *)
(* under which up allocates it, the environment variable through which it  *)
(* gets into the compose file, and the port inside the container.  Five    *)
(* pieces of code go from one of them to another, each with a rule of its  *)
(* own for what is declared twice.                                         *)
(*                                                                         *)
(* A tree is the sequence of its port declarations in the order of         *)
(* all_manifests(), and the sequence of the lines of its announce          *)
(* templates, each with its plugin.                                        *)
(***************************************************************************)
EXTENDS Naturals, Sequences

CONSTANTS
  Trees,
  Commands,        (* the command lines that are run                          *)
  CliDefault,      (* the parser's default of each --*-port flag, by slug     *)
  UpgradeTable,    (* upgrade's own table: of a container port the variable   *)
                   (* and the host port it stands for                         *)
  DefaultProject,  (* "sanity-gravity"                                        *)
  FreePorts,       (* host ports docker picks from for "0"                    *)
  Contested        (* fixed host ports other programs may hold                *)

Ephemeral == "0"       \* host ports are strings, as in ctx.resolved_ports
Unknown   == "?"
NoSlug    == ""

Kinds == {"connector", "agent", "desktop"}

Plugin == [kind : Kinds, name : STRING]
Port   == [plugin : Plugin, label : STRING, internal : Nat, default : STRING,
           env_var : STRING, legacy_slug : STRING]
Line   == [plugin : Plugin, key : STRING, label : STRING]

\* tag is the set of its plugins.  verb up: flags is what the port flags say, by
\* slug.  verb upgrade: old is what HostConfig.PortBindings of the container
\* says, by container port, and inherited what get_project_env finds, the port
\* variables that the first container of the project with any recognized
\* variable has in its own environment.
CommandOK(c) ==
  /\ c.verb \in {"up", "upgrade"} /\ c.project \in STRING /\ c.dry \in BOOLEAN
  /\ c.verb = "upgrade" => ~c.dry
  /\ c.tag \subseteq Plugin /\ \A p, q \in c.tag : p.kind = q.kind => p = q
  /\ DOMAIN c.flags = DOMAIN CliDefault
  /\ \A s \in DOMAIN CliDefault :
       /\ c.flags[s].value \in STRING \ {Unknown}
       /\ c.flags[s].spelled \in {"absent", "apart", "joined"}
       /\ c.flags[s].spelled = "absent" => c.flags[s].value = CliDefault[s]
  /\ DOMAIN c.old \subseteq Nat
  /\ DOMAIN c.inherited \subseteq {UpgradeTable[d].env_var : d \in DOMAIN UpgradeTable}

SlugOf(p) == IF p.legacy_slug = NoSlug THEN p.label ELSE p.legacy_slug

\* Can both be in one tag?
MayMeet(p, q) == p.plugin = q.plugin \/ p.plugin.kind # q.plugin.kind

\* What the shipped trees have in common, and nothing checks: a slug, a
\* variable, and within a tag a container port and a label, each mean one port;
\* the parser's defaults and upgrade's table say the same as the manifests.
\* ("the only duplicated slug today is ssh, declared identically by every
\* connector": _port_specs_by_slug.)
SamePort(p, q) ==
  /\ SlugOf(p) = SlugOf(q)
  /\ p.env_var = q.env_var /\ p.internal = q.internal /\ p.default = q.default

Coherent(t) ==
  /\ \A i, j \in DOMAIN t.ports :
       LET p == t.ports[i]
           q == t.ports[j]
       IN \/ SlugOf(p) = SlugOf(q) \/ p.env_var = q.env_var
          \/ MayMeet(p, q) /\ (p.internal = q.internal \/ p.label = q.label)
          => SamePort(p, q)
  /\ \A i \in DOMAIN t.ports :
       LET p == t.ports[i]
       IN /\ SlugOf(p) \in DOMAIN CliDefault => p.default = CliDefault[SlugOf(p)]
          /\ p.internal \in DOMAIN UpgradeTable => p.env_var = UpgradeTable[p.internal].env_var

ASSUME PortsAssumption ==
  /\ \A t \in Trees : t.ports \in Seq(Port) /\ t.lines \in Seq(Line) /\ Coherent(t)
  /\ \A c \in Commands : CommandOK(c)
  /\ \A c, d \in DOMAIN UpgradeTable :
       UpgradeTable[c].env_var = UpgradeTable[d].env_var => c = d

VARIABLES
  tree,       (* the plugin tree                                              *)
  cmd,        (* the command line                                             *)
  pc,
  resolved,   (* ctx.resolved_ports: host port by slug                        *)
  env,        (* ctx.env, env_vars: host port by environment variable         *)
  published,  (* the compose file's ports: by container port, the declaration *)
              (* it was made from                                             *)
  configured, (* docker: HostConfig.PortBindings of the new container         *)
  bound,      (* docker: the host port of each container port, or <<>>        *)
  announced,  (* the access block: what is said under each key                *)
  taken,      (* host ports held by others, upgrade's old container included  *)
  inspected   (* history: did upgrade get an answer about the old container?  *)

input  == <<tree, cmd>>
docker == <<configured, bound>>
vars   == <<input, pc, resolved, env, published, docker, announced, taken, inspected>>

Nothing == [x \in {} |-> ""]
-----------------------------------------------------------------------------
(* Declarations and which of them counts *)

D    == DOMAIN tree.ports
P(i) == tree.ports[i]
Slug(i) == SlugOf(P(i))

\* Of the plugins of the tag.
Mine == {i \in D : P(i).plugin \in cmd.tag}

\* "connector first, then agent, then desktop".
Rank(kind) == CASE kind = "connector" -> 1 [] kind = "agent" -> 2 [] kind = "desktop" -> 3

Merged(x, i, y, j) ==
  \/ Rank(x.plugin.kind) < Rank(y.plugin.kind)
  \/ x.plugin.kind = y.plugin.kind /\ i < j
Sooner(i, j) == Merged(P(i), i, P(j), j)

FirstLoaded(S) == CHOOSE i \in S : \A j \in S : i <= j
FirstMerged(S) == CHOOSE i \in S : \A j \in S \ {i} : Sooner(i, j)
LastMerged(S)  == CHOOSE i \in S : \A j \in S \ {i} : Sooner(j, i)

Declaring(slug) == {i \in D : Slug(i) = slug}
Declared(slug)  == Declaring(slug) # {}

\* _port_specs_by_slug: of all the tree's plugins, the first one.
SpecOf(slug) == P(FirstLoaded(Declaring(slug)))

InUse(port) == port \in taken
-----------------------------------------------------------------------------
Init ==
  /\ tree \in Trees /\ cmd \in Commands
  /\ pc = IF cmd.verb = "up" THEN "compose" ELSE "recover"
  /\ resolved = Nothing /\ env = Nothing
  /\ published = Nothing /\ configured = Nothing /\ bound = Nothing
  /\ announced = Nothing
  /\ taken \in SUBSET Contested
  /\ inspected = FALSE

\* generate_compose_for_tag: a container port is published once, by the first
\* declaration of it.
GenerateCompose ==
  /\ pc = "compose"
  /\ published' = [c \in {P(i).internal : i \in Mine} |->
                     P(FirstMerged({i \in Mine : P(i).internal = c}))]
  /\ pc' = IF cmd.verb = "up" THEN "allocate" ELSE "docker"
  /\ UNCHANGED <<input, resolved, env, docker, announced, taken, inspected>>

-----------------------------------------------------------------------------
(* up *)

\* Mutant: only what has a flag is allocated.
Slugs_FlagsOnly == DOMAIN CliDefault

Slugs == DOMAIN CliDefault \cup {Slug(i) : i \in D}

HasFlag(slug)   == slug \in DOMAIN CliDefault
Wish(slug)      == IF HasFlag(slug) THEN cmd.flags[slug].value ELSE SpecOf(slug).default
Explicit(slug)  == HasFlag(slug) /\ cmd.flags[slug].spelled = "apart"
MaySwap(slug) ==
  Declared(slug) /\ ~Explicit(slug) /\ Wish(slug) = SpecOf(slug).default

Allocated(slug) ==
  IF MaySwap(slug) /\ (cmd.project # DefaultProject \/ InUse(SpecOf(slug).default))
  THEN Ephemeral ELSE Wish(slug)

\* auto_port_alloc.  Where two slugs had one variable the later one would have
\* its way; which that is stays open.
AllocatePorts ==
  /\ pc = "allocate"
  /\ resolved' = [s \in Slugs |-> Allocated(s)]
  /\ LET exporting == {s \in Slugs : Declared(s)} IN
     \E winner \in [{SpecOf(s).env_var : s \in exporting} -> exporting] :
       /\ \A v \in DOMAIN winner : SpecOf(winner[v]).env_var = v
       /\ env' = [v \in DOMAIN winner |-> Allocated(winner[v])]
  /\ pc' = "docker"
  /\ UNCHANGED <<input, published, docker, announced, taken, inspected>>

\* What compose makes of "${VAR:-default}:internal".
Wanted ==
  [c \in DOMAIN published |->
     IF published[c].env_var \in DOMAIN env THEN env[published[c].env_var]
     ELSE published[c].default]

\* Ways docker can bind what is wanted: no host port twice, none that is taken.
Bindings(w) ==
  {b \in [DOMAIN w -> {w[c] : c \in DOMAIN w} \cup FreePorts] :
     /\ \A c \in DOMAIN w : IF w[c] = Ephemeral THEN b[c] \in FreePorts ELSE b[c] = w[c]
     /\ \A c, d \in DOMAIN w : b[c] = b[d] => c = d
     /\ \A c \in DOMAIN w : b[c] \notin taken}

\* Mutant: asked only where all of them are ephemeral.
NeedsProbe_All == \A s \in DOMAIN resolved : resolved[s] = Ephemeral

NeedsProbe == \E s \in DOMAIN resolved : resolved[s] = Ephemeral

\* docker compose up -d; in upgrade, create and start.
DockerUp ==
  /\ pc = "docker" /\ ~cmd.dry
  /\ configured' = Wanted
  /\ bound' \in Bindings(Wanted)
  /\ pc' = IF cmd.verb = "upgrade" THEN "migrated"
           ELSE IF NeedsProbe THEN "resolve" ELSE "announce"
  /\ UNCHANGED <<input, resolved, env, published, announced, taken, inspected>>

\* A port is taken, or docker fails.
DockerUpFails ==
  /\ pc = "docker" /\ ~cmd.dry
  /\ configured' \in {configured, Wanted}
  /\ pc' = "failed"
  /\ UNCHANGED <<input, resolved, env, published, bound, announced, taken, inspected>>

\* resolve_ephemeral is left out of a dry run, and announce only prints a plan.
Preview ==
  /\ pc = "docker" /\ cmd.dry
  /\ pc' = "previewed"
  /\ UNCHANGED <<input, resolved, env, published, docker, announced, taken, inspected>>

\* resolve_ephemeral: every slug of the tag, also one that was fixed, by the
\* container port of its first declaration; "?" if docker does not say.
Probed(slug) == P(FirstMerged({i \in Mine : Slug(i) = slug})).internal

ResolveEphemeral ==
  /\ pc = "resolve"
  /\ \E silent \in SUBSET {Slug(i) : i \in Mine} :
       resolved' = [s \in DOMAIN resolved |->
                      IF s \notin {Slug(i) : i \in Mine} THEN resolved[s]
                      ELSE IF s \in silent THEN Unknown
                      ELSE bound[Probed(s)]]
  /\ pc' = "announce"
  /\ UNCHANGED <<input, env, published, docker, announced, taken, inspected>>

-----------------------------------------------------------------------------
(* announce *)

Lines == {n \in DOMAIN tree.lines : tree.lines[n].plugin \in cmd.tag}
LastLine(key) ==
  LET S == {n \in Lines : tree.lines[n].key = key}
  IN tree.lines[CHOOSE n \in S : \A m \in S \ {n} :
                  Merged(tree.lines[m], m, tree.lines[n], n)]

\* _ports_for_announce: the last declaration of a label counts.
LabelPort == [l \in {P(i).label : i \in Mine} |->
                resolved[Slug(LastMerged({i \in Mine : P(i).label = l}))]]

Announce ==
  /\ pc = "announce"
  /\ \A n \in Lines : tree.lines[n].label \in DOMAIN LabelPort
  /\ announced' = [k \in {tree.lines[n].key : n \in Lines} |-> LabelPort[LastLine(k).label]]
  /\ pc' = "announced"
  /\ UNCHANGED <<input, resolved, env, published, docker, taken, inspected>>

\* A template names a label that no plugin of the tag has: KeyError.
AnnounceFails ==
  /\ pc = "announce"
  /\ \E n \in Lines : tree.lines[n].label \notin DOMAIN LabelPort
  /\ pc' = "traceback"
  /\ UNCHANGED <<input, resolved, env, published, docker, announced, taken, inspected>>

-----------------------------------------------------------------------------
(* upgrade *)

TableVar(c) == UpgradeTable[c].env_var

\* "0" for what may collide.
Fallback == {TableVar(c) : c \in {d \in DOMAIN UpgradeTable :
                cmd.project # DefaultProject \/ InUse(UpgradeTable[d].port)}}

Old(found, v) == cmd.old[CHOOSE c \in found : TableVar(c) = v]

Inherited == DOMAIN cmd.inherited

\* Mutant: the fallback comes before the bindings.
Recovered_FallbackFirst(found) ==
  LET bindings == {TableVar(c) : c \in found} IN
  [v \in Inherited \cup bindings \cup Fallback |->
     CASE v \in Inherited -> cmd.inherited[v]
       [] v \in Fallback \ Inherited -> Ephemeral
       [] OTHER -> Old(found, v)]

\* A variable found in a container first, then the bindings found, then the
\* fallback for what is still unknown.
Recovered(found) ==
  LET bindings == {TableVar(c) : c \in found} IN
  [v \in Inherited \cup bindings \cup Fallback |->
     IF v \in Inherited THEN cmd.inherited[v]
     ELSE IF v \in bindings THEN Old(found, v) ELSE Ephemeral]

\* _recover_env with get_published_ports, which knows the ports of its table
\* and finds nothing if docker inspect fails.
Recover ==
  /\ pc = "recover"
  /\ inspected' \in BOOLEAN
  /\ env' = Recovered(IF inspected' THEN DOMAIN cmd.old \cap DOMAIN UpgradeTable ELSE {})
  /\ pc' = "compose"
  /\ UNCHANGED <<input, resolved, published, docker, announced, taken>>

\* get_project_env raises where docker fails.
RecoverFails ==
  /\ pc = "recover"
  /\ pc' = "failed"
  /\ UNCHANGED <<input, resolved, env, published, docker, announced, taken, inspected>>

-----------------------------------------------------------------------------
\* Other programs take and give back ports, but not those docker holds.
OthersBind ==
  /\ taken' \in SUBSET (Contested \ {bound[c] : c \in DOMAIN bound})
  /\ UNCHANGED <<input, pc, resolved, env, published, docker, announced, inspected>>

Up == AllocatePorts \/ ResolveEphemeral \/ Announce \/ AnnounceFails
Docker == DockerUp \/ DockerUpFails \/ Preview

Next == GenerateCompose \/ Up \/ Docker \/ Recover \/ RecoverFails \/ OthersBind

Spec == Init /\ [][Next]_vars
-----------------------------------------------------------------------------
(* Properties *)

\* Under a label of its own port a plugin's template shows the host port that
\* docker bound to that port's container port, or "?", whatever the other
\* plugins declare and whichever ports are ephemeral (announce,
\* resolve_ephemeral: "the announced values always reflect what Docker really
\* bound").
AnnouncedIsPublished ==
  pc = "announced" =>
    \A k \in DOMAIN announced : \A i \in Mine :
      P(i).plugin = LastLine(k).plugin /\ P(i).label = LastLine(k).label =>
        announced[k] \in {Unknown, bound[P(i).internal]}

\* The user, or in an upgrade the old container or a variable in a container of
\* the project, wanted host port h for the container port c.
Asked(c, h) ==
  CASE cmd.verb = "up" ->
         \E i \in Mine : /\ P(i).internal = c /\ HasFlag(Slug(i))
                        /\ cmd.flags[Slug(i)].spelled # "absent"
                        /\ cmd.flags[Slug(i)].value = h
    [] OTHER -> \/ c \in DOMAIN cmd.old /\ cmd.old[c] = h
                \/ /\ c \in DOMAIN UpgradeTable /\ TableVar(c) \in Inherited
                   /\ cmd.inherited[TableVar(c)] = h

\* README's "Zero-Conflict Guarantee", for every port of every plugin: the
\* container of a named project is never bound to a fixed host port that nobody
\* asked for.  upgrade gives it for the ports its table knows.
OnlyAskedPortsAreFixed ==
  cmd.project # DefaultProject =>
    \A c \in DOMAIN configured :
      \/ configured[c] = Ephemeral
      \/ Asked(c, configured[c])
      \/ cmd.verb = "upgrade" /\ c \notin DOMAIN UpgradeTable

\* _recover_env: a migrated container "stays reachable on the same ports", the
\* ephemeral ones staying ephemeral, if the old one could be inspected and no
\* container of the project has the variable of the port in its environment.
UpgradeKeepsPorts ==
  pc = "migrated" /\ inspected =>
    \A c \in DOMAIN configured \cap DOMAIN cmd.old \cap DOMAIN UpgradeTable :
      TableVar(c) \in Inherited \/ configured[c] = cmd.old[c]
=============================================================================
