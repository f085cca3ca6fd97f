--------------------------- MODULE ConnectionProofs ---------------------------
(***************************************************************************)
(* What connects a sandbox with its host: the ports it publishes (Ports)   *)
(* and the socket of the SSH agent it mounts (ProxyManager).               *)
(*                                                                         *)
(* Ports, for every coherent plugin tree, tag and command line: a port     *)
(* changes its name four times, and each time the code takes the first or  *)
(* the last of several declarations.  The lemmas FirstLoadedIn,            *)
(* FirstMergedIn and LastMergedIn say that there is one, Coherence that it *)
(* does not matter which.  Chain then says where each name has got to.     *)
(*                                                                         *)
(* The proxy, for any number of processes, failures, kills and reboots:    *)
(* ProxyInv says what the host is like at each step of a process that      *)
(* nothing has interfered with, whatever earlier ones have left behind.    *)
(***************************************************************************)
EXTENDS Ports, ProxyManager, TLAPS, WellFoundedInduction

-----------------------------------------------------------------------------
(* Firsts and lasts *)

LEMMA Least ==
  ASSUME NEW S \in SUBSET Nat, S # {}
  PROVE  \E i \in S : \A j \in S : i <= j
<1> DEFINE R == {ss \in Nat \X Nat : ss[1] < ss[2]}
<1>1. IsWellFoundedOn(R, Nat)
  BY NatLessThanWellFounded DEF OpToRel
<1> HIDE DEF R
<1>2. PICK x \in S : \A y \in S : ~ (<<y, x>> \in R)
  BY <1>1, WFMin
<1>3. \A y \in S : ~ (y < x)
  BY <1>2 DEF R
<1> QED BY <1>3

LEMMA Greatest ==
  ASSUME NEW n \in Nat, NEW S \in SUBSET (1..n), S # {}
  PROVE  \E i \in S : \A j \in S : j <= i
<1> DEFINE T == {n - i : i \in S}
<1>1. T \in SUBSET Nat
  OBVIOUS
<1>2. T # {}
  OBVIOUS
<1>3. PICK t \in T : \A u \in T : t <= u
  BY <1>1, <1>2, Least
<1>4. PICK i \in S : t = n - i
  OBVIOUS
<1>5. \A j \in S : n - i <= n - j
  BY <1>3, <1>4
<1> QED BY <1>5

\* What Init and the assumption say of the input.
Input == tree \in Trees /\ cmd \in Commands

LEMMA PortTypes ==
  ASSUME Input
  PROVE  /\ \E n \in Nat : D = 1..n
         /\ D \subseteq Nat
         /\ \A i \in D : P(i) \in Port /\ Rank(P(i).plugin.kind) \in 1..3
         /\ Mine \subseteq D
<1>1. tree.ports \in Seq(Port)
  BY PortsAssumption DEF Input
<1>2. D = 1..Len(tree.ports) /\ Len(tree.ports) \in Nat
  BY <1>1 DEF D
<1>3. \A i \in D : P(i) \in Port
  BY <1>1 DEF D, P
<1>4. \A i \in D : Rank(P(i).plugin.kind) \in 1..3
  BY <1>3 DEF Port, Plugin, Kinds, Rank
<1> QED BY <1>2, <1>3, <1>4 DEF Mine

LEMMA FirstLoadedIn ==
  ASSUME Input, NEW S \in SUBSET D, S # {}
  PROVE  FirstLoaded(S) \in S
<1>1. \E i \in S : \A j \in S : i <= j
  BY PortTypes, Least
<1> QED BY <1>1 DEF FirstLoaded

\* The first of the least rank.
LEMMA FirstMergedIn ==
  ASSUME Input, NEW S \in SUBSET D, S # {}
  PROVE  FirstMerged(S) \in S
<1> DEFINE R(i) == Rank(P(i).plugin.kind)
           Ranks == {R(i) : i \in S}
<1>1. Ranks \in SUBSET Nat /\ Ranks # {}
  BY PortTypes
<1>2. PICK r \in Ranks : \A q \in Ranks : r <= q
  BY <1>1, Least
<1> DEFINE T == {i \in S : R(i) = r}
<1>3. T \in SUBSET Nat /\ T # {}
  BY PortTypes
<1>4. PICK i \in T : \A j \in T : i <= j
  BY <1>3, Least
<1>5. ASSUME NEW j \in S \ {i} PROVE Sooner(i, j)
  <2>1. R(i) = r /\ r <= R(j) /\ R(j) \in 1..3 /\ r \in 1..3 /\ i \in D /\ j \in D
    BY <1>2, PortTypes
  <2>2. CASE R(j) = r
    <3>1. i <= j /\ i # j /\ i \in Nat /\ j \in Nat
      BY <1>4, <2>2, PortTypes
    <3>2. P(i).plugin.kind = P(j).plugin.kind
      BY <2>1, <2>2, PortTypes DEF Port, Plugin, Kinds, Rank
    <3> QED BY <3>1, <3>2 DEF Sooner, Merged
  <2>3. CASE R(j) # r
    <3>1. R(i) < R(j)
      BY <2>1, <2>3
    <3> QED BY <3>1 DEF Sooner, Merged
  <2> QED BY <2>2, <2>3
<1>6. \E k \in S : \A j \in S \ {k} : Sooner(k, j)
  BY <1>5
<1> QED BY <1>6 DEF FirstMerged

\* The last of the greatest rank.
LEMMA LastMergedIn ==
  ASSUME Input, NEW S \in SUBSET D, S # {}
  PROVE  LastMerged(S) \in S
<1> DEFINE R(i) == Rank(P(i).plugin.kind)
           Ranks == {R(i) : i \in S}
<1>1. Ranks \in SUBSET (1..3) /\ Ranks # {}
  BY PortTypes
<1>2. PICK r \in Ranks : \A q \in Ranks : q <= r
  BY <1>1, Greatest
<1> DEFINE T == {i \in S : R(i) = r}
<1>3. PICK n \in Nat : D = 1..n
  BY PortTypes
<1>4. T \in SUBSET (1..n) /\ T # {}
  BY <1>3
<1>5. PICK i \in T : \A j \in T : j <= i
  BY <1>4, Greatest
<1>6. ASSUME NEW j \in S \ {i} PROVE Sooner(j, i)
  <2>1. R(i) = r /\ R(j) <= r /\ R(j) \in 1..3 /\ r \in 1..3 /\ i \in D /\ j \in D
    BY <1>2, PortTypes
  <2>2. CASE R(j) = r
    <3>1. j <= i /\ i # j /\ i \in Nat /\ j \in Nat
      BY <1>5, <2>2, PortTypes
    <3>2. P(i).plugin.kind = P(j).plugin.kind
      BY <2>1, <2>2, PortTypes DEF Port, Plugin, Kinds, Rank
    <3> QED BY <3>1, <3>2 DEF Sooner, Merged
  <2>3. CASE R(j) # r
    <3>1. R(j) < R(i)
      BY <2>1, <2>3
    <3> QED BY <3>1 DEF Sooner, Merged
  <2> QED BY <2>2, <2>3
<1>7. \E k \in S : \A j \in S \ {k} : Sooner(j, k)
  BY <1>6
<1> QED BY <1>7 DEF LastMerged

-----------------------------------------------------------------------------
(* Coherence *)

\* Declarations that share a name are the same port under every name.
LEMMA Coherence ==
  ASSUME Input, NEW i \in D, NEW j \in D
  PROVE  /\ Slug(i) = Slug(j) => SamePort(P(i), P(j))
         /\ P(i).env_var = P(j).env_var => SamePort(P(i), P(j))
         /\ i \in Mine /\ j \in Mine /\ P(i).internal = P(j).internal =>
              SamePort(P(i), P(j))
         /\ i \in Mine /\ j \in Mine /\ P(i).label = P(j).label =>
              SamePort(P(i), P(j))
         /\ HasFlag(Slug(i)) => P(i).default = CliDefault[Slug(i)]
         /\ P(i).internal \in DOMAIN UpgradeTable =>
              P(i).env_var = TableVar(P(i).internal)
<1>1. Coherent(tree) /\ CommandOK(cmd)
  BY PortsAssumption DEF Input
<1>2. i \in Mine /\ j \in Mine => MayMeet(P(i), P(j))
  BY <1>1 DEF CommandOK, Mine, MayMeet
<1> QED BY <1>1, <1>2 DEF Coherent, D, P, Slug, HasFlag, TableVar

\* The specification of a declared slug is the one of any of its declarations.
LEMMA SpecOfSlug ==
  ASSUME Input, NEW s, Declared(s)
  PROVE  \E i \in D : Slug(i) = s /\ SpecOf(s) = P(i)
<1>1. Declaring(s) \in SUBSET D /\ Declaring(s) # {}
  BY DEF Declaring, Declared
<1>2. FirstLoaded(Declaring(s)) \in Declaring(s)
  BY <1>1, FirstLoadedIn
<1> QED BY <1>2 DEF Declaring, SpecOf

-----------------------------------------------------------------------------
(* The invariant *)

Control ==
  /\ pc \in {"allocate", "resolve", "announce", "announced"} => cmd.verb = "up"
  /\ pc \in {"recover", "migrated"} => cmd.verb = "upgrade"

\* The user's flag.
Wished(slug, h) ==
  HasFlag(slug) /\ cmd.flags[slug].spelled # "absent" /\ cmd.flags[slug].value = h

\* A container port of the tag is published from one of its declarations.
FileInv ==
  pc \in {"allocate", "docker"} =>
    /\ DOMAIN published = {P(i).internal : i \in Mine}
    /\ \A i \in Mine : \E j \in Mine :
         P(j).internal = P(i).internal /\ published[P(i).internal] = P(j)

\* In up a variable says what its slug was allocated, which in a named project
\* is "0" or what the user wished.
EnvInv ==
  pc = "docker" /\ cmd.verb = "up" =>
    \A i \in D :
      /\ Slug(i) \in DOMAIN resolved /\ P(i).env_var \in DOMAIN env
      /\ env[P(i).env_var] = resolved[Slug(i)]
      /\ cmd.project # DefaultProject =>
           resolved[Slug(i)] = Ephemeral \/ Wished(Slug(i), resolved[Slug(i)])

\* In upgrade a variable of the table says what a container of the project has
\* for it, or else what the old container had, and where that is not known, in a
\* named project, "0".
RecoverInv ==
  pc \in {"compose", "docker"} /\ cmd.verb = "upgrade" =>
    \A c \in DOMAIN UpgradeTable :
      /\ cmd.project # DefaultProject =>
           /\ TableVar(c) \in DOMAIN env
           /\ \/ env[TableVar(c)] = Ephemeral
              \/ c \in DOMAIN cmd.old /\ env[TableVar(c)] = cmd.old[c]
              \/ TableVar(c) \in Inherited /\ env[TableVar(c)] = cmd.inherited[TableVar(c)]
      /\ inspected /\ c \in DOMAIN cmd.old /\ TableVar(c) \notin Inherited =>
           TableVar(c) \in DOMAIN env /\ env[TableVar(c)] = cmd.old[c]

\* Before the probe every slug of the tree has its entry, after it those of the
\* tag say what docker bound.
ResolvedInv ==
  /\ pc = "resolve" => \A i \in D : Slug(i) \in DOMAIN resolved
  /\ pc = "announce" => \A i \in Mine :
       resolved[Slug(i)] \in {Unknown, bound[P(i).internal]}

Chain == Input /\ Control /\ FileInv /\ EnvInv /\ RecoverInv /\ ResolvedInv

PortsInv ==
  Chain /\ AnnouncedIsPublished /\ OnlyAskedPortsAreFixed /\ UpgradeKeepsPorts

LEMMA InitChain == Init => PortsInv
<1> SUFFICES ASSUME Init PROVE PortsInv
  OBVIOUS
<1>1. CommandOK(cmd)
  BY PortsAssumption DEF Init
<1>2. pc \in {"compose", "recover"} /\ (pc = "recover" => cmd.verb = "upgrade")
        /\ (pc = "compose" => cmd.verb = "up")
  BY <1>1 DEF Init, CommandOK
<1>3. DOMAIN configured = {}
  BY DEF Init, Nothing
<1> QED
  BY <1>2, <1>3 DEF Init, PortsInv, Chain, Input, Control, FileInv, EnvInv, RecoverInv,
     ResolvedInv, AnnouncedIsPublished, OnlyAskedPortsAreFixed, UpgradeKeepsPorts

\* What compose makes of the file is "0" or was asked for, and in an upgrade it
\* is what the old container had, unless a variable says otherwise.
LEMMA WantedIsAsked ==
  ASSUME Chain, pc = "docker"
  PROVE  /\ cmd.project # DefaultProject =>
              \A c \in DOMAIN Wanted :
                \/ Wanted[c] = Ephemeral
                \/ Asked(c, Wanted[c])
                \/ cmd.verb = "upgrade" /\ c \notin DOMAIN UpgradeTable
         /\ cmd.verb = "upgrade" /\ inspected =>
              \A c \in DOMAIN Wanted \cap DOMAIN cmd.old \cap DOMAIN UpgradeTable :
                TableVar(c) \in Inherited \/ Wanted[c] = cmd.old[c]
<1>1. Input /\ Mine \subseteq D /\ cmd.verb \in {"up", "upgrade"}
  BY PortTypes, PortsAssumption DEF Chain, Input, CommandOK
<1>2. DOMAIN Wanted = DOMAIN published
  BY DEF Wanted
<1>3. ASSUME NEW c \in DOMAIN Wanted
      PROVE  \E j \in Mine : P(j).internal = c /\ published[c] = P(j)
  BY <1>2, <1>3 DEF Chain, FileInv
<1>4. ASSUME NEW c \in DOMAIN Wanted, cmd.verb = "up", cmd.project # DefaultProject,
             Wanted[c] # Ephemeral
      PROVE  Asked(c, Wanted[c])
  <2>1. PICK j \in Mine : P(j).internal = c /\ published[c] = P(j)
    BY <1>3
  <2>2. P(j).env_var \in DOMAIN env /\ env[P(j).env_var] = resolved[Slug(j)]
        /\ (resolved[Slug(j)] = Ephemeral \/ Wished(Slug(j), resolved[Slug(j)]))
    BY <1>1, <1>4 DEF Chain, EnvInv
  <2>3. Wanted[c] = resolved[Slug(j)]
    BY <1>2, <2>1, <2>2 DEF Wanted
  <2> QED BY <1>4, <2>1, <2>2, <2>3 DEF Asked, Wished
<1>5. ASSUME NEW c \in DOMAIN Wanted, cmd.verb = "upgrade", c \in DOMAIN UpgradeTable
      PROVE  TableVar(c) \in DOMAIN env => Wanted[c] = env[TableVar(c)]
  <2>1. PICK j \in Mine : P(j).internal = c /\ published[c] = P(j)
    BY <1>3
  <2>2. P(j).env_var = TableVar(c)
    BY <1>1, <1>5, <2>1, Coherence
  <2> QED BY <1>2, <2>1, <2>2 DEF Wanted
<1>6. ASSUME NEW c \in DOMAIN Wanted, cmd.verb = "upgrade", cmd.project # DefaultProject,
             c \in DOMAIN UpgradeTable, Wanted[c] # Ephemeral
      PROVE  Asked(c, Wanted[c])
  BY <1>5, <1>6 DEF Chain, RecoverInv, Asked
<1>7. ASSUME NEW c \in DOMAIN Wanted \cap DOMAIN cmd.old \cap DOMAIN UpgradeTable,
             cmd.verb = "upgrade", inspected, TableVar(c) \notin Inherited
      PROVE  Wanted[c] = cmd.old[c]
  BY <1>5, <1>7 DEF Chain, RecoverInv
<1> QED BY <1>1, <1>4, <1>6, <1>7

\* If nothing is ephemeral docker binds what was allocated.
LEMMA FixedIsBound ==
  ASSUME Chain, pc = "docker", cmd.verb = "up", ~NeedsProbe,
         NEW b \in Bindings(Wanted), NEW i \in Mine
  PROVE  resolved[Slug(i)] = b[P(i).internal]
<1> DEFINE c == P(i).internal
<1>1. Input /\ Mine \subseteq D
  BY PortTypes DEF Chain
<1>2. PICK j \in Mine : P(j).internal = c /\ published[c] = P(j)
  BY DEF Chain, FileInv
<1>3. c \in DOMAIN Wanted
  BY DEF Chain, FileInv, Wanted
<1>4. P(j).env_var = P(i).env_var
  BY <1>1, <1>2, Coherence DEF SamePort
<1>5. /\ P(i).env_var \in DOMAIN env /\ env[P(i).env_var] = resolved[Slug(i)]
      /\ Slug(i) \in DOMAIN resolved
  BY <1>1 DEF Chain, EnvInv
<1>6. Wanted[c] = resolved[Slug(i)]
  BY <1>2, <1>3, <1>4, <1>5 DEF Wanted
<1>7. resolved[Slug(i)] # Ephemeral
  BY <1>5 DEF NeedsProbe
<1> QED BY <1>3, <1>6, <1>7 DEF Bindings

-----------------------------------------------------------------------------
(* The steps *)

\* What a port is allocated is "0", or it was wished for, in a named project.
LEMMA AllocatedIsWished ==
  ASSUME Input, cmd.verb = "up", cmd.project # DefaultProject, NEW i \in D,
         Allocated(Slug(i)) # Ephemeral
  PROVE  Wished(Slug(i), Allocated(Slug(i)))
<1> DEFINE s == Slug(i)
<1>1. Declared(s)
  BY DEF Declared, Declaring
<1>2. PICK j \in D : Slug(j) = s /\ SpecOf(s) = P(j)
  BY <1>1, SpecOfSlug
<1>3. ~MaySwap(s) /\ Allocated(s) = Wish(s)
  BY DEF Allocated
<1>4. Explicit(s) \/ Wish(s) # P(j).default
  BY <1>1, <1>2, <1>3 DEF MaySwap
<1>5. HasFlag(s)
  BY <1>2, <1>4 DEF Wish, Explicit
<1>6. CommandOK(cmd)
  BY PortsAssumption DEF Input
<1>7. cmd.flags[s].spelled # "absent"
  <2>1. CASE Explicit(s)
    BY <2>1 DEF Explicit
  <2>2. CASE Wish(s) # P(j).default
    BY <1>2, <1>5, <1>6, <2>2, Coherence DEF Wish, CommandOK, HasFlag
  <2> QED BY <1>4, <2>1, <2>2
<1> QED BY <1>3, <1>5, <1>7 DEF Wished, Wish

\* A slug is allocated under the variable of each of its declarations.
LEMMA AllocateStep ==
  ASSUME Chain, AllocatePorts
  PROVE  EnvInv'
<1> SUFFICES ASSUME NEW i \in D
             PROVE  /\ Slug(i) \in DOMAIN resolved' /\ P(i).env_var \in DOMAIN env'
                    /\ env'[P(i).env_var] = resolved'[Slug(i)]
                    /\ cmd.project # DefaultProject =>
                         \/ resolved'[Slug(i)] = Ephemeral
                         \/ Wished(Slug(i), resolved'[Slug(i)])
  BY DEF EnvInv, AllocatePorts, input, D, P, Slug, Wished, HasFlag
<1> DEFINE exporting == {s \in Slugs : Declared(s)}
<1>1. Input /\ cmd.verb = "up"
  BY DEF Chain, Control, AllocatePorts
<1>2. Slug(i) \in exporting
  BY DEF Slugs, Declared, Declaring
<1>3. resolved' = [s \in Slugs |-> Allocated(s)]
  BY DEF AllocatePorts
<1>4. PICK winner \in [{SpecOf(s).env_var : s \in exporting} -> exporting] :
        /\ \A v \in DOMAIN winner : SpecOf(winner[v]).env_var = v
        /\ env' = [v \in DOMAIN winner |-> Allocated(winner[v])]
  BY DEF AllocatePorts
<1>5. SpecOf(Slug(i)).env_var = P(i).env_var
  BY <1>1, <1>2, SpecOfSlug, Coherence DEF SamePort
<1>6. P(i).env_var \in DOMAIN winner
  BY <1>2, <1>5
<1>7. winner[P(i).env_var] = Slug(i)
  <2> DEFINE w == winner[P(i).env_var]
  <2>1. w \in exporting /\ SpecOf(w).env_var = P(i).env_var
    BY <1>4, <1>6
  <2>2. PICK j \in D : Slug(j) = w /\ SpecOf(w) = P(j)
    BY <1>1, <2>1, SpecOfSlug
  <2> QED BY <1>1, <2>1, <2>2, Coherence DEF SamePort, Slug
<1>8. cmd.project # DefaultProject =>
        Allocated(Slug(i)) = Ephemeral \/ Wished(Slug(i), Allocated(Slug(i)))
  BY <1>1, AllocatedIsWished
<1> QED BY <1>2, <1>3, <1>4, <1>6, <1>7, <1>8

\* The table has a variable for each of its ports and a port for each variable.
LEMMA RecoverStep ==
  ASSUME Chain, Recover
  PROVE  RecoverInv'
<1> DEFINE found == IF inspected' THEN DOMAIN cmd.old \cap DOMAIN UpgradeTable ELSE {}
           known == {TableVar(c) : c \in found}
<1> SUFFICES ASSUME NEW c \in DOMAIN UpgradeTable
             PROVE  /\ cmd.project # DefaultProject =>
                         /\ TableVar(c) \in DOMAIN env'
                         /\ \/ env'[TableVar(c)] = Ephemeral
                            \/ c \in DOMAIN cmd.old /\ env'[TableVar(c)] = cmd.old[c]
                            \/ /\ TableVar(c) \in Inherited
                               /\ env'[TableVar(c)] = cmd.inherited[TableVar(c)]
                    /\ inspected' /\ c \in DOMAIN cmd.old /\ TableVar(c) \notin Inherited =>
                         /\ TableVar(c) \in DOMAIN env'
                         /\ env'[TableVar(c)] = cmd.old[c]
  BY DEF RecoverInv, Recover, input, TableVar, Inherited
<1>1. env' = Recovered(found)
  BY DEF Recover
<1>5. CASE TableVar(c) \in Inherited
  BY <1>1, <1>5 DEF Recovered
<1>2. \A d \in DOMAIN UpgradeTable : TableVar(d) = TableVar(c) => d = c
  BY PortsAssumption DEF TableVar
<1>3. CASE c \in found /\ TableVar(c) \notin Inherited
  <2>1. (CHOOSE d \in found : TableVar(d) = TableVar(c)) = c
    BY <1>2, <1>3
  <2>2. TableVar(c) \in known /\ env'[TableVar(c)] = cmd.old[c]
    BY <1>1, <1>3, <2>1 DEF Recovered, Old
  <2>3. TableVar(c) \in DOMAIN env'
    BY <1>1, <2>2 DEF Recovered
  <2> QED BY <1>3, <2>2, <2>3
<1>4. CASE c \notin found /\ TableVar(c) \notin Inherited
  <2>1. TableVar(c) \notin known
    BY <1>2, <1>4
  <2>2. cmd.project # DefaultProject => TableVar(c) \in Fallback
    BY DEF Fallback
  <2> QED BY <1>1, <1>4, <2>1, <2>2 DEF Recovered
<1> QED BY <1>3, <1>4, <1>5

LEMMA GenerateStep ==
  ASSUME Chain, GenerateCompose
  PROVE  FileInv'
<1>1. Input /\ Mine \subseteq D
  BY PortTypes DEF Chain
<1>2. ASSUME NEW i \in Mine
      PROVE  \E j \in Mine : P(j).internal = P(i).internal
                            /\ published'[P(i).internal] = P(j)
  <2> DEFINE S == {j \in Mine : P(j).internal = P(i).internal}
  <2>1. S \in SUBSET D /\ S # {}
    BY <1>1
  <2>2. FirstMerged(S) \in S
    BY <1>1, <2>1, FirstMergedIn
  <2>3. published'[P(i).internal] = P(FirstMerged(S))
    BY DEF GenerateCompose
  <2> QED BY <2>2, <2>3
<1>3. DOMAIN published' = {P(i).internal : i \in Mine}
  BY DEF GenerateCompose
<1>4. tree' = tree /\ cmd' = cmd
  BY DEF GenerateCompose, input
<1>5. Mine' = Mine
  BY <1>4 DEF Mine, P, D
<1>6. \A i : P(i)' = P(i)
  BY <1>4 DEF P
<1> QED BY <1>2, <1>3, <1>5, <1>6 DEF FileInv

\* The probe asks for the container port that the slug has in every plugin.
LEMMA ResolveStep ==
  ASSUME Chain, ResolveEphemeral
  PROVE  ResolvedInv'
<1>1. Input /\ Mine \subseteq D
  BY PortTypes DEF Chain
<1>2. ASSUME NEW i \in Mine
      PROVE  resolved'[Slug(i)] \in {Unknown, bound[P(i).internal]}
  <2> DEFINE S == {j \in Mine : Slug(j) = Slug(i)}
  <2>1. S \in SUBSET D /\ S # {}
    BY <1>1
  <2>2. FirstMerged(S) \in S
    BY <1>1, <2>1, FirstMergedIn
  <2>3. Probed(Slug(i)) = P(i).internal
    BY <1>1, <2>1, <2>2, Coherence DEF Probed, SamePort
  <2>4. Slug(i) \in DOMAIN resolved
    BY <1>1 DEF Chain, ResolvedInv, ResolveEphemeral
  <2> QED BY <2>3, <2>4 DEF ResolveEphemeral
<1> QED BY <1>2 DEF ResolvedInv, ResolveEphemeral, input, docker, Mine, P, D, Slug

\* Every step keeps the input and what is not in its hands.
LEMMA NextKeepsInput == Input /\ [Next]_vars => Input'
BY DEF Input, Next, Up, Docker, GenerateCompose, AllocatePorts, ResolveEphemeral, Announce,
   AnnounceFails, DockerUp, DockerUpFails, Preview, Recover, RecoverFails, OthersBind, vars,
   input

LEMMA UpgradeIsNotUp == Input => cmd.verb \in {"up", "upgrade"}
BY PortsAssumption DEF Input, CommandOK

LEMMA NextChain == Chain /\ [Next]_vars => Chain'
<1> SUFFICES ASSUME Chain, [Next]_vars PROVE Chain'
  OBVIOUS
<1> USE DEF Control, FileInv, EnvInv, RecoverInv, ResolvedInv
<1>1. Input' /\ cmd.verb \in {"up", "upgrade"} /\ Input
  BY NextKeepsInput, UpgradeIsNotUp DEF Chain
<1>2. CASE GenerateCompose
  <2>1. FileInv'
    BY <1>2, GenerateStep
  <2>2. Control' /\ ResolvedInv' /\ EnvInv'
    BY <1>1, <1>2 DEF Chain, GenerateCompose, input
  <2>3. RecoverInv'
    BY <1>1, <1>2 DEF Chain, GenerateCompose, input, TableVar, Inherited
  <2> QED BY <1>1, <2>1, <2>2, <2>3 DEF Chain
<1>3. CASE AllocatePorts
  <2>1. EnvInv'
    BY <1>3, AllocateStep
  <2>2. Control' /\ ResolvedInv' /\ RecoverInv'
    BY <1>1, <1>3 DEF Chain, AllocatePorts, input
  <2>3. FileInv'
    BY <1>3 DEF Chain, AllocatePorts, input, Mine, P, D
  <2> QED BY <1>1, <2>1, <2>2, <2>3 DEF Chain
<1>4. CASE DockerUp
  <2>1. Control' /\ FileInv' /\ EnvInv' /\ RecoverInv'
    BY <1>1, <1>4 DEF Chain, DockerUp, input
  <2>2. ASSUME pc' = "announce", NEW i \in Mine
        PROVE  resolved[Slug(i)] = bound'[P(i).internal]
    BY <1>1, <1>4, <2>2, FixedIsBound DEF DockerUp
  <2>3. ASSUME pc' = "resolve", NEW i \in D
        PROVE  Slug(i) \in DOMAIN resolved
    BY <1>1, <1>4, <2>3 DEF Chain, DockerUp
  <2>4. ResolvedInv'
    BY <1>4, <2>2, <2>3 DEF DockerUp, input, Mine, P, D, Slug
  <2> QED BY <1>1, <2>1, <2>4 DEF Chain
<1>5. CASE DockerUpFails \/ Preview \/ Announce \/ AnnounceFails \/ RecoverFails
  BY <1>1, <1>5 DEF Chain, DockerUpFails, Preview, Announce, AnnounceFails, RecoverFails, input
<1>6. CASE ResolveEphemeral
  <2>1. ResolvedInv'
    BY <1>6, ResolveStep
  <2>2. Control' /\ FileInv' /\ EnvInv' /\ RecoverInv'
    BY <1>1, <1>6 DEF Chain, ResolveEphemeral, input
  <2> QED BY <1>1, <2>1, <2>2 DEF Chain
<1>7. CASE Recover
  <2>1. RecoverInv'
    BY <1>7, RecoverStep
  <2>2. Control' /\ FileInv' /\ EnvInv' /\ ResolvedInv'
    BY <1>1, <1>7 DEF Chain, Recover, input
  <2> QED BY <1>1, <2>1, <2>2 DEF Chain
<1>8. CASE OthersBind \/ UNCHANGED vars
  <2>1. UNCHANGED <<tree, cmd, pc, resolved, env, published, bound, inspected>>
    BY <1>8 DEF OthersBind, vars, input, docker
  <2>2. Control' /\ RecoverInv'
    BY <2>1 DEF Chain, TableVar, Inherited
  <2>3. Mine' = Mine /\ D' = D /\ (\A i : P(i)' = P(i)) /\ \A i : Slug(i)' = Slug(i)
    BY <2>1 DEF Mine, D, P, Slug
  <2>4. FileInv'
    BY <2>1, <2>3 DEF Chain
  <2>5. EnvInv'
    BY <2>1, <2>3 DEF Chain, Wished, HasFlag
  <2>6. ResolvedInv'
    BY <2>1, <2>3 DEF Chain
  <2> QED BY <1>1, <2>2, <2>4, <2>5, <2>6 DEF Chain
<1> QED BY <1>2, <1>3, <1>4, <1>5, <1>6, <1>7, <1>8 DEF Next, Up, Docker

-----------------------------------------------------------------------------
(* The properties *)

\* A label means one port within the tag, so it shows that port.
LEMMA AnnounceStep ==
  ASSUME Chain, Announce
  PROVE  AnnouncedIsPublished'
<1>1. Input /\ Mine \subseteq D
  BY PortTypes DEF Chain
<1>2. tree' = tree /\ cmd' = cmd /\ bound' = bound
  BY DEF Announce, input, docker
<1>3. Mine' = Mine /\ (\A i : P(i)' = P(i)) /\ \A k : LastLine(k)' = LastLine(k)
  BY <1>2 DEF Mine, D, P, LastLine, Lines, Merged
<1>4. ASSUME NEW k \in DOMAIN announced', NEW i \in Mine, P(i).label = LastLine(k).label
      PROVE  announced'[k] \in {Unknown, bound[P(i).internal]}
  <2> DEFINE l == LastLine(k).label
             S == {j \in Mine : P(j).label = l}
  <2>1. announced'[k] = LabelPort[l]
    BY DEF Announce
  <2>2. l \in {P(j).label : j \in Mine}
    BY <1>4
  <2>3. LabelPort[l] = resolved[Slug(LastMerged(S))]
    BY <2>2 DEF LabelPort
  <2>4. S \in SUBSET D /\ S # {}
    BY <1>1, <1>4
  <2>5. LastMerged(S) \in S
    BY <1>1, <2>4, LastMergedIn
  <2>6. SamePort(P(LastMerged(S)), P(i))
    BY <1>1, <1>4, <2>4, <2>5, Coherence
  <2>7. Slug(LastMerged(S)) = Slug(i)
    BY <2>6 DEF SamePort, Slug
  <2>8. resolved[Slug(i)] \in {Unknown, bound[P(i).internal]}
    BY DEF Chain, ResolvedInv, Announce
  <2> QED BY <2>1, <2>3, <2>7, <2>8
<1> QED BY <1>2, <1>3, <1>4 DEF AnnouncedIsPublished

LEMMA NextPortsInv == PortsInv /\ [Next]_vars => PortsInv'
<1> SUFFICES ASSUME PortsInv, [Next]_vars PROVE PortsInv'
  OBVIOUS
<1>1. Chain /\ Chain'
  BY NextChain DEF PortsInv
<1>2. AnnouncedIsPublished'
  <2>1. CASE Announce
    BY <1>1, <2>1, AnnounceStep
  <2>2. CASE OthersBind \/ UNCHANGED vars
    <3>1. UNCHANGED <<tree, cmd, pc, bound, announced>>
      BY <2>2 DEF OthersBind, vars, input, docker
    <3>2. Mine' = Mine /\ (\A i : P(i)' = P(i)) /\ \A k : LastLine(k)' = LastLine(k)
      BY <3>1 DEF Mine, D, P, LastLine, Lines, Merged
    <3> QED BY <3>1, <3>2 DEF PortsInv, AnnouncedIsPublished
  <2>3. CASE \/ GenerateCompose \/ AllocatePorts \/ ResolveEphemeral \/ AnnounceFails
             \/ Docker \/ Recover \/ RecoverFails
    BY <2>3 DEF AnnouncedIsPublished, GenerateCompose, AllocatePorts, ResolveEphemeral,
       AnnounceFails, Docker, DockerUp, DockerUpFails, Preview, Recover, RecoverFails
  <2> QED BY <2>1, <2>2, <2>3 DEF Next, Up
<1>3. CASE DockerUp \/ DockerUpFails
  <2>1. /\ tree' = tree /\ cmd' = cmd /\ inspected' = inspected /\ pc = "docker"
        /\ \/ configured' = Wanted
           \/ configured' = configured /\ pc' # "migrated"
    BY <1>3 DEF DockerUp, DockerUpFails, input
  <2>2. \A c, h : Asked(c, h)' = Asked(c, h)
    BY <2>1 DEF Asked, Mine, D, P, Slug, HasFlag, Inherited, TableVar
  <2>3. OnlyAskedPortsAreFixed'
    BY <1>1, <2>1, <2>2, WantedIsAsked DEF PortsInv, OnlyAskedPortsAreFixed
  <2>4. UpgradeKeepsPorts'
    BY <1>1, <2>1, WantedIsAsked DEF UpgradeKeepsPorts, Chain, Control, TableVar, Inherited
  <2> QED BY <1>1, <1>2, <2>3, <2>4 DEF PortsInv
<1>4. CASE ~(DockerUp \/ DockerUpFails)
  <2>1. tree' = tree /\ cmd' = cmd /\ configured' = configured
        /\ (pc' = "migrated" => pc = "migrated" /\ inspected' = inspected)
    BY <1>4 DEF Next, Up, Docker, GenerateCompose, AllocatePorts, ResolveEphemeral, Announce,
       AnnounceFails, Preview, Recover, RecoverFails, OthersBind, vars, input, docker
  <2>2. \A c, h : Asked(c, h)' = Asked(c, h)
    BY <2>1 DEF Asked, Mine, D, P, Slug, HasFlag, Inherited, TableVar
  <2>3. OnlyAskedPortsAreFixed' /\ UpgradeKeepsPorts'
    BY <2>1, <2>2 DEF PortsInv, OnlyAskedPortsAreFixed, UpgradeKeepsPorts, TableVar, Inherited
  <2> QED BY <1>1, <1>2, <2>3 DEF PortsInv
<1> QED BY <1>3, <1>4

LEMMA PortsInvAlways == Spec => []PortsInv
BY InitChain, NextPortsInv, PTL DEF Spec

\* Whatever plugins there are, what `up` says of a port is the host port that
\* docker has bound to it.
THEOREM AnnouncementsAreTrue == Spec => []AnnouncedIsPublished
<1>1. PortsInv => AnnouncedIsPublished
  BY DEF PortsInv
<1> QED BY <1>1, PortsInvAlways, PTL

\* Whatever plugins there are, a named project takes no host port that the user
\* or its old container did not name: the zero-conflict guarantee.
THEOREM ZeroConflict == Spec => []OnlyAskedPortsAreFixed
<1>1. PortsInv => OnlyAskedPortsAreFixed
  BY DEF PortsInv
<1> QED BY <1>1, PortsInvAlways, PTL

\* A migrated container keeps the host ports it was configured with.
THEOREM PortsSurviveUpgrade == Spec => []UpgradeKeepsPorts
<1>1. PortsInv => UpgradeKeepsPorts
  BY DEF PortsInv
<1> QED BY <1>1, PortsInvAlways, PTL

-----------------------------------------------------------------------------
(* The SSH agent proxy: the inductive invariant *)

SetupSteps  == {"look", "unlink", "write unit", "enable", "restart"}
RemoveSteps == {"enabled?", "disable", "unit?", "remove unit", "socket?", "remove socket"}

HostTypes ==
  /\ path \in {"none", "live", "stale", "dir"}
  /\ service \in {"off", "starting", "up", "retry"}
  /\ unit \in BOOLEAN /\ enabled \in BOOLEAN

RunTypes ==
  /\ verb \in [Runs -> {"none", "setup", "remove"}]
  /\ at \in [Runs -> {"idle", "poll"} \cup SetupSteps \cup RemoveSteps \cup Ended]
  /\ alone \in [Runs -> BOOLEAN]
  /\ failed \subseteq Runs

\* Each place belongs to one of the two verbs, or to both.
Places ==
  \A r \in Runs :
    /\ at[r] \in SetupSteps => verb[r] = "setup"
    /\ at[r] \in RemoveSteps => verb[r] = "remove"
    /\ at[r] = "poll" => verb[r] # "none"
    /\ at[r] = "idle" => r \notin failed

\* A process that nothing has interfered with is the only one.
OnlyOne ==
  \A r \in Runs :
    /\ alone[r] /\ Active(r) => \A o \in Runs \ {r} : ~Active(o)
    /\ at[r] = "idle" => alone[r]

\* What setup has done so far is still so, as long as nothing interferes.
SetupGoesOn(r) ==
  verb[r] = "setup" /\ alone[r] =>
    /\ at[r] \in {"write unit", "enable", "restart", "poll"} => path # "dir"
    /\ at[r] \in {"enable", "restart", "poll"} => unit
    /\ at[r] \in {"restart", "poll"} => enabled
    /\ at[r] = "poll" => service \in {"starting", "up"}
    /\ r \notin failed => at[r] \notin {"error", "not active"}

\* As long as nobody has interfered with any process and no command of a remove
\* has failed, what runs is enabled and what is enabled has a unit file - also
\* where a process was killed or failed between two steps - so that remove finds
\* all there is, and leaves none of it.
Untroubled == (\A s \in Runs : alone[s]) /\ (\A s \in failed : verb[s] # "remove")

Traces == Untroubled => (service # "off" => enabled) /\ (enabled => unit)

RemoveGoesOn(r) ==
  verb[r] = "remove" =>
    /\ alone[r] /\ at[r] \in {"socket?", "remove socket", "poll"} => ~unit
    /\ Untroubled /\ at[r] \in {"unit?", "remove unit", "socket?", "remove socket", "poll"}
         => ~enabled

ProxyInv ==
  /\ HostTypes /\ RunTypes /\ Places /\ OnlyOne /\ Traces
  /\ \A r \in Runs : SetupGoesOn(r) /\ RemoveGoesOn(r)

LEMMA ProxyInvInit == ProxyInit => ProxyInv
<1> SUFFICES ASSUME ProxyInit PROVE ProxyInv
  OBVIOUS
<1>1. HostTypes /\ RunTypes /\ Traces
  BY DEF ProxyInit, HostTypes, RunTypes, Traces
<1>2. /\ \A r \in Runs : at[r] = "idle" /\ verb[r] = "none" /\ alone[r] /\ ~Active(r)
      /\ failed = {}
  BY DEF ProxyInit, Active
<1> QED
  BY <1>1, <1>2 DEF ProxyInv, Places, OnlyOne, SetupGoesOn, RemoveGoesOn, SetupSteps, RemoveSteps

-----------------------------------------------------------------------------
(* Steps of a process *)

RunsStep(p) == Step(p) \/ Fault(p) \/ Killed(p)

\* Only an active process acts, on its own place, and nobody's peace returns.
LEMMA OwnStep ==
  ASSUME HostTypes, RunTypes, Places, NEW p \in Runs, RunsStep(p)
  PROVE  /\ HostTypes' /\ RunTypes' /\ Places'
         /\ Active(p) /\ at'[p] # "idle"
         /\ verb' = verb /\ alone' = alone
         /\ (failed' = failed \/ (Fault(p) /\ failed' = failed \cup {p}))
         /\ \A o \in Runs \ {p} : at'[o] = at[o]
<1>14. CASE Fault(p)
  <2>1. /\ at[p] \in {"write unit", "enable", "restart", "remove socket", "remove unit",
                      "enabled?", "unlink", "disable"}
        /\ verb' = verb /\ alone' = alone /\ failed' = failed \cup {p}
    BY <1>14 DEF Fault, local
  <2>2. \E k \in {"error", "unit?", "write unit"} :
          /\ at' = [at EXCEPT ![p] = k]
          /\ k = "write unit" => at[p] = "unlink"
          /\ k = "unit?" => at[p] \in {"enabled?", "disable"}
    BY <1>14 DEF Fault, Goto
  <2>3. HostTypes'
    BY <1>14 DEF Fault, HostTypes, host
  <2>4. RunTypes' /\ Active(p) /\ at'[p] # "idle"
    BY <2>1, <2>2 DEF RunTypes, Active, SetupSteps, RemoveSteps, Ended
  <2>5. Places'
    BY <2>1, <2>2 DEF RunTypes, Places, SetupSteps, RemoveSteps
  <2>6. \A o \in Runs \ {p} : at'[o] = at[o]
    BY <2>2 DEF RunTypes
  <2> QED
    BY <1>14, <2>1, <2>3, <2>4, <2>5, <2>6
<1> USE DEF Goto, Keep, host, local, Active, Places, HostTypes, RunTypes, SetupSteps,
            RemoveSteps, Ended
<1>1. CASE LookForStale(p)
  BY <1>1 DEF LookForStale
<1>2. CASE RemoveStale(p)
  BY <1>2 DEF RemoveStale
<1>3. CASE WriteUnit(p)
  BY <1>3 DEF WriteUnit
<1>4. CASE Enable(p)
  BY <1>4 DEF Enable
<1>5. CASE Restart(p)
  BY <1>5 DEF Restart
<1>6. CASE PollSocket(p)
  BY <1>6 DEF PollSocket
<1>7. CASE IsEnabled(p)
  BY <1>7 DEF IsEnabled
<1>8. CASE Disable(p)
  BY <1>8 DEF Disable
<1>9. CASE UnitExists(p)
  BY <1>9 DEF UnitExists
<1>10. CASE RemoveUnit(p)
  BY <1>10 DEF RemoveUnit
<1>11. CASE SocketExists(p)
  BY <1>11 DEF SocketExists
<1>12. CASE RemoveSocket(p)
  BY <1>12 DEF RemoveSocket
<1>13. CASE PollGone(p)
  BY <1>13 DEF PollGone
<1>15. CASE Killed(p)
  BY <1>15 DEF Killed
<1> QED
  BY <1>1, <1>2, <1>3, <1>4, <1>5, <1>6, <1>7, <1>8, <1>9, <1>10, <1>11, <1>12, <1>13, <1>14,
     <1>15 DEF RunsStep, Step, Setup, Remove

\* A step of p keeps what p has done so far, and what the host is like.
LEMMA OwnProgress ==
  ASSUME ProxyInv, NEW p \in Runs, RunsStep(p)
  PROVE  Traces' /\ SetupGoesOn(p)' /\ RemoveGoesOn(p)'
<1>1. /\ HostTypes /\ RunTypes /\ Traces /\ SetupGoesOn(p) /\ RemoveGoesOn(p)
      /\ at[p] \in SetupSteps => verb[p] = "setup"
      /\ at[p] \in RemoveSteps => verb[p] = "remove"
      /\ Untroubled => alone[p]
  BY DEF ProxyInv, Places, Untroubled
<1>2. /\ alone' = alone /\ verb' = verb
      /\ (failed' = failed \/ (Fault(p) /\ failed' = failed \cup {p}))
  BY OwnStep DEF ProxyInv
<1>3. Untroubled' => Untroubled /\ (Fault(p) => verb[p] = "setup")
  BY <1>1, <1>2 DEF Untroubled, Fault, SetupSteps, RemoveSteps
<1>4. CASE LookForStale(p)
  BY <1>1, <1>2, <1>3, <1>4 DEF LookForStale, Goto, Keep, host, local, Traces, SetupGoesOn,
     RemoveGoesOn, HostTypes, RunTypes, SetupSteps, RemoveSteps, Ended
<1>5. CASE RemoveStale(p)
  BY <1>1, <1>2, <1>3, <1>5 DEF RemoveStale, Goto, Keep, host, local, Traces, SetupGoesOn,
     RemoveGoesOn, HostTypes, RunTypes, SetupSteps, RemoveSteps, Ended
<1>6. CASE WriteUnit(p)
  BY <1>1, <1>2, <1>3, <1>6 DEF WriteUnit, Goto, Keep, host, local, Traces, SetupGoesOn,
     RemoveGoesOn, HostTypes, RunTypes, SetupSteps, RemoveSteps, Ended
<1>7. CASE Enable(p)
  BY <1>1, <1>2, <1>3, <1>7 DEF Enable, Goto, Keep, host, local, Traces, SetupGoesOn,
     RemoveGoesOn, HostTypes, RunTypes, SetupSteps, RemoveSteps, Ended
<1>8. CASE Restart(p)
  BY <1>1, <1>2, <1>3, <1>8 DEF Restart, Goto, Keep, host, local, Traces, SetupGoesOn,
     RemoveGoesOn, HostTypes, RunTypes, SetupSteps, RemoveSteps, Ended
<1>9. CASE PollSocket(p)
  BY <1>1, <1>2, <1>3, <1>9 DEF PollSocket, Goto, Keep, host, local, Traces, SetupGoesOn,
     RemoveGoesOn, HostTypes, RunTypes, SetupSteps, RemoveSteps, Ended
<1>10. CASE IsEnabled(p)
  BY <1>1, <1>2, <1>3, <1>10 DEF IsEnabled, Goto, Keep, host, local, Traces, SetupGoesOn,
     RemoveGoesOn, HostTypes, RunTypes, SetupSteps, RemoveSteps, Ended
<1>11. CASE Disable(p)
  BY <1>1, <1>2, <1>3, <1>11 DEF Disable, Goto, Keep, host, local, Traces, SetupGoesOn,
     RemoveGoesOn, HostTypes, RunTypes, SetupSteps, RemoveSteps, Ended
<1>12. CASE UnitExists(p)
  BY <1>1, <1>2, <1>3, <1>12 DEF UnitExists, Goto, Keep, host, local, Traces, SetupGoesOn,
     RemoveGoesOn, HostTypes, RunTypes, SetupSteps, RemoveSteps, Ended
<1>13. CASE RemoveUnit(p)
  BY <1>1, <1>2, <1>3, <1>13 DEF RemoveUnit, Goto, Keep, host, local, Traces, SetupGoesOn,
     RemoveGoesOn, HostTypes, RunTypes, SetupSteps, RemoveSteps, Ended
<1>14. CASE SocketExists(p)
  BY <1>1, <1>2, <1>3, <1>14 DEF SocketExists, Goto, Keep, host, local, Traces, SetupGoesOn,
     RemoveGoesOn, HostTypes, RunTypes, SetupSteps, RemoveSteps, Ended
<1>15. CASE RemoveSocket(p)
  BY <1>1, <1>2, <1>3, <1>15 DEF RemoveSocket, Goto, Keep, host, local, Traces, SetupGoesOn,
     RemoveGoesOn, HostTypes, RunTypes, SetupSteps, RemoveSteps, Ended
<1>16. CASE PollGone(p)
  BY <1>1, <1>2, <1>3, <1>16 DEF PollGone, Goto, Keep, host, local, Traces, SetupGoesOn,
     RemoveGoesOn, HostTypes, RunTypes, SetupSteps, RemoveSteps, Ended
<1>17. CASE Fault(p)
  <2>1. verb[p] = "remove" => ~Untroubled'
    BY <1>1, <1>2, <1>17 DEF Fault, Untroubled
  <2>2. /\ at[p] \in SetupSteps => UNCHANGED host
        /\ at[p] \in SetupSteps \/ at[p] \in RemoveSteps
        /\ p \in failed'
    BY <1>17 DEF Fault, SetupSteps, RemoveSteps
  <2>3. \E k \in {"error", "unit?", "write unit"} :
          /\ at' = [at EXCEPT ![p] = k]
          /\ k = "write unit" => at[p] = "unlink" /\ path # "dir"
          /\ k = "unit?" => at[p] \in {"enabled?", "disable"}
    BY <1>17 DEF Fault, Goto
  <2>4. Traces'
    <3>1. CASE Untroubled'
      <4>1. service' = service /\ enabled' = enabled /\ unit' = unit /\ Untroubled
        BY <1>1, <1>3, <2>1, <2>2, <3>1 DEF host
      <4> QED
        BY <1>1, <4>1 DEF Traces
    <3> QED
      BY <3>1 DEF Traces
  <2>5. SetupGoesOn(p)'
    BY <1>1, <1>2, <2>2, <2>3 DEF SetupGoesOn, RunTypes, host, RemoveSteps
  <2>6. RemoveGoesOn(p)'
    BY <1>1, <1>2, <2>1, <2>3 DEF RemoveGoesOn, RunTypes
  <2> QED
    BY <2>4, <2>5, <2>6
<1>18. CASE Killed(p)
  BY <1>1, <1>2, <1>3, <1>18 DEF Killed, Goto, Keep, host, local, Traces, SetupGoesOn,
     RemoveGoesOn, HostTypes, RunTypes, SetupSteps, RemoveSteps, Ended
<1> QED
  BY <1>4, <1>5, <1>6, <1>7, <1>8, <1>9, <1>10, <1>11, <1>12, <1>13, <1>14,
     <1>15, <1>16, <1>17, <1>18 DEF RunsStep, Step, Setup, Remove

LEMMA OwnStepInv ==
  ASSUME ProxyInv, NEW p \in Runs, RunsStep(p)
  PROVE  ProxyInv'
<1>1. /\ HostTypes' /\ RunTypes' /\ Places'
      /\ Active(p) /\ verb' = verb /\ at'[p] # "idle" /\ alone' = alone
      /\ \A o \in Runs \ {p} : at'[o] = at[o] /\ (o \in failed' <=> o \in failed)
  BY OwnStep DEF ProxyInv
<1>2. \A o \in Runs \ {p} : /\ alone[o] => ~Active(o)
                            /\ alone[p] => ~Active(o)
                            /\ Active(o)' <=> Active(o)
  BY <1>1 DEF ProxyInv, OnlyOne, Active
<1>3. OnlyOne'
  BY <1>1, <1>2 DEF ProxyInv, OnlyOne
<1>4. ASSUME NEW o \in Runs \ {p} PROVE SetupGoesOn(o)' /\ RemoveGoesOn(o)'
  <2>1. CASE ~alone[o]
    BY <1>1, <2>1 DEF SetupGoesOn, RemoveGoesOn, Untroubled
  <2>2. CASE alone[o]
    <3>1. at'[o] = at[o] /\ at[o] \in Ended \cup {"idle"} /\ SetupGoesOn(o)
      BY <1>1, <1>2, <2>2 DEF Active, ProxyInv
    <3> QED
      BY <1>1, <3>1 DEF SetupGoesOn, RemoveGoesOn, Ended
  <2> QED
    BY <2>1, <2>2
<1> QED
  BY <1>1, <1>3, <1>4, OwnProgress DEF ProxyInv

-----------------------------------------------------------------------------
(* A process begins, and the other parties *)

LEMMA BeginInv ==
  ASSUME ProxyInv, NEW p \in Runs, NEW v \in {"setup", "remove"}, Begin(p, v)
  PROVE  ProxyInv'
<1>1. HostTypes' /\ RunTypes' /\ Places'
  BY DEF ProxyInv, Begin, Goto, host, HostTypes, RunTypes, Places, SetupSteps, RemoveSteps,
     Ended
<1>2. /\ \A o \in Runs \ {p} : /\ at'[o] = at[o] /\ verb'[o] = verb[o]
                               /\ alone'[o] <=> alone[o] /\ ~Active(o)
      /\ verb'[p] = v /\ at'[p] \in {"look", "enabled?"}
      /\ alone'[p] <=> \A o \in Runs : ~Active(o)
      /\ ~Active(p) /\ failed' = failed /\ p \notin failed /\ failed \subseteq Runs
      /\ path' = path /\ unit' = unit /\ enabled' = enabled /\ service' = service
  BY DEF ProxyInv, Begin, Goto, host, RunTypes, Active, Places
<1>3. OnlyOne'
  <2>1. ASSUME NEW r \in Runs, NEW o \in Runs \ {r}, alone'[r], Active(r)'
        PROVE  ~Active(o)'
    BY <1>2, <2>1 DEF ProxyInv, OnlyOne, Active, Ended
  <2>2. ASSUME NEW r \in Runs, at'[r] = "idle" PROVE alone'[r]
    <3>1. r \in Runs \ {p}
      BY <1>2, <2>2
    <3>2. at[r] = "idle" /\ (alone[r] => alone'[r])
      BY <1>2, <2>2, <3>1 DEF Active
    <3> QED
      BY <3>2 DEF ProxyInv, OnlyOne
  <2> QED
    BY <2>1, <2>2 DEF OnlyOne
<1>4. Untroubled' => Untroubled /\ \A o \in Runs : ~Active(o)
  <2>1. at[p] = "idle" /\ (at[p] = "idle" => alone[p])
    BY DEF Begin, ProxyInv, OnlyOne
  <2> QED
    BY <1>2, <2>1 DEF Untroubled
<1>5. Traces'
  BY <1>2, <1>4 DEF ProxyInv, Traces, Untroubled
<1>6. ASSUME NEW o \in Runs PROVE SetupGoesOn(o)' /\ RemoveGoesOn(o)'
  <2>1. CASE o = p
    BY <1>2, <2>1 DEF SetupGoesOn, RemoveGoesOn
  <2>2. CASE o # p
    BY <1>2, <1>4, <2>2 DEF ProxyInv, SetupGoesOn, RemoveGoesOn, Active, Ended
  <2> QED
    BY <2>1, <2>2
<1> QED
  BY <1>1, <1>3, <1>5, <1>6 DEF ProxyInv

LEMMA OthersInv ==
  ASSUME ProxyInv,
         \/ SocatListens \/ SocatDies \/ SocatRetries \/ DockerMakesDir \/ Reboot
         \/ UNCHANGED proxyVars
  PROVE  ProxyInv'
<1>0. /\ \A r \in Runs : (alone'[r] => alone[r]) /\ (alone[r] /\ ~Active(r) => alone'[r])
      /\ alone' \in [Runs -> BOOLEAN]
  <2>1. alone \in [Runs -> BOOLEAN]
    BY DEF ProxyInv, RunTypes
  <2>2. CASE Disturb
    BY <2>1, <2>2 DEF Disturb
  <2>3. CASE alone' = alone
    BY <2>1, <2>3
  <2>4. Disturb \/ alone' = alone
    BY DEF SocatListens, SocatDies, SocatRetries, DockerMakesDir, Reboot, Keep, proxyVars
  <2> QED
    BY <2>2, <2>3, <2>4
<1>1. /\ at' = at /\ verb' = verb /\ failed' = failed
      /\ unit' = unit /\ enabled' = enabled
      /\ \A r \in Runs : alone'[r] => alone[r]
  BY <1>0 DEF SocatListens, SocatDies, SocatRetries, DockerMakesDir, Reboot, Keep, local,
     proxyVars, host
<1>2. /\ service' \in {"off", "starting", "up", "retry"}
      /\ path' = "dir" => path = "dir" \/ \A r \in Runs : alone'[r] => ~Active(r)
      /\ path' \in {path, "live", "stale", "dir"}
      /\ \/ \A r \in Runs : ~Active(r)
         \/ service' \in {service, "starting", "up", "retry"}
      /\ path # "dir" /\ service \in {"starting", "up"} =>
           service' \in {"starting", "up"} \/ \A r \in Runs : alone'[r] => ~Active(r)
      /\ service' # "off" => service # "off" \/ (unit /\ enabled)
  BY DEF ProxyInv, HostTypes, RunTypes, Disturb, SocatListens, SocatDies, SocatRetries,
     DockerMakesDir, Reboot, Keep, local, proxyVars, host
<1>3. HostTypes' /\ RunTypes' /\ Places'
  BY <1>0, <1>1, <1>2 DEF ProxyInv, HostTypes, RunTypes, Places
<1>4. OnlyOne'
  BY <1>0, <1>1 DEF ProxyInv, OnlyOne, Active, Ended
<1>5. Traces'
  BY <1>1, <1>2 DEF ProxyInv, Traces, Untroubled
<1>6. ASSUME NEW r \in Runs PROVE SetupGoesOn(r)' /\ RemoveGoesOn(r)'
  <2>1. SetupGoesOn(r) /\ RemoveGoesOn(r)
    BY DEF ProxyInv
  <2>2. at[r] \in {"write unit", "enable", "restart", "poll"} => Active(r)
    BY DEF Active, Ended
  <2>3. SetupGoesOn(r)'
    BY <1>1, <1>2, <2>1, <2>2 DEF SetupGoesOn
  <2>4. RemoveGoesOn(r)'
    BY <1>1, <2>1 DEF RemoveGoesOn, Untroubled
  <2> QED
    BY <2>3, <2>4
<1> QED
  BY <1>3, <1>4, <1>5, <1>6 DEF ProxyInv

LEMMA ProxyInvStep == ProxyInv /\ [ProxyNext]_proxyVars => ProxyInv'
<1> SUFFICES ASSUME ProxyInv, [ProxyNext]_proxyVars PROVE ProxyInv'
  OBVIOUS
<1>1. ASSUME NEW p \in Runs, NEW v \in {"setup", "remove"}, Begin(p, v) PROVE ProxyInv'
  BY <1>1, BeginInv
<1>2. ASSUME NEW p \in Runs, RunsStep(p) PROVE ProxyInv'
  BY <1>2, OwnStepInv
<1>3. CASE \/ SocatListens \/ SocatDies \/ SocatRetries \/ DockerMakesDir \/ Reboot
           \/ UNCHANGED proxyVars
  BY <1>3, OthersInv
<1> QED
  BY <1>1, <1>2, <1>3 DEF ProxyNext, RunsStep

LEMMA ProxyInvAlways == ProxySpec => []ProxyInv
BY ProxyInvInit, ProxyInvStep, PTL DEF ProxySpec

\* "Restart / fix proxy": for any number of processes, killed or failing at any
\* step, setup that nothing interferes with does not fail, unless one of its own
\* commands does.
THEOREM SetupMends == ProxySpec => []SetupRepairs
<1>1. ProxyInv => SetupRepairs
  BY DEF ProxyInv, SetupGoesOn, SetupRepairs
<1> QED
  BY <1>1, ProxyInvAlways, PTL

\* Only its poll ends a process with "ok".
LEMMA EndsInPoll ==
  ASSUME ProxyInv, [ProxyNext]_proxyVars, NEW r \in Runs, NEW v \in {"setup", "remove"},
         EndsAs(r, v, "ok")
  PROVE  /\ at[r] = "poll" /\ (path = "none" <=> v = "remove")
         /\ UNCHANGED <<host, alone, failed, verb>>
<1>1. at[r] # "ok" /\ at'[r] = "ok" /\ verb[r] = v /\ at = [o \in Runs |-> at[o]]
  BY DEF EndsAs, Ended, ProxyInv, RunTypes, SetupSteps, RemoveSteps
<1>2. PICK p \in Runs : RunsStep(p)
  <2>1. ASSUME NEW p \in Runs, NEW w \in {"setup", "remove"}, Begin(p, w) PROVE FALSE
    BY <1>1, <2>1 DEF Begin, Goto
  <2>2. ~(\/ SocatListens \/ SocatDies \/ SocatRetries \/ DockerMakesDir \/ Reboot
          \/ UNCHANGED proxyVars)
    BY <1>1 DEF SocatListens, SocatDies, SocatRetries, DockerMakesDir, Reboot, Keep, proxyVars
  <2> QED
    BY <2>1, <2>2 DEF ProxyNext, RunsStep
<1>3. p = r
  BY <1>1, <1>2, OwnStep DEF ProxyInv
<1>4. PollSocket(r) \/ PollGone(r)
  BY <1>1, <1>2, <1>3 DEF RunsStep, Step, Setup, Remove, LookForStale, RemoveStale, WriteUnit,
     Enable, Restart, IsEnabled, Disable, UnitExists, RemoveUnit, SocketExists, RemoveSocket,
     Fault, Killed, Goto
<1> QED
  BY <1>1, <1>4 DEF PollSocket, PollGone, Goto, Keep, local

\* "SSH Proxy enabled at ...": then the service is enabled and runs or starts,
\* and no directory keeps socat from its socket.
THEOREM SetupIsTrue == ProxySpec => SetupOkMeansRunning
<1>1. ProxyInv /\ [ProxyNext]_proxyVars =>
        \A r \in Runs :
          EndsAs(r, "setup", "ok") /\ alone[r] =>
            unit /\ enabled /\ service \in {"starting", "up"} /\ path # "dir"
  <2> SUFFICES ASSUME ProxyInv, [ProxyNext]_proxyVars, NEW r \in Runs,
                      EndsAs(r, "setup", "ok"), alone[r]
               PROVE  unit /\ enabled /\ service \in {"starting", "up"} /\ path # "dir"
    OBVIOUS
  <2>1. at[r] = "poll" /\ path # "none"
    BY EndsInPoll
  <2> QED
    BY <2>1 DEF ProxyInv, EndsAs, SetupGoesOn
<1> QED
  BY <1>1, ProxyInvAlways, PTL DEF ProxySpec, SetupOkMeansRunning

\* "SSH Proxy service and socket removed": the unit file and the socket are, even
\* where a command of this remove failed in silence, and the service is off and
\* disabled, whatever processes were killed and setups failed before - as long as
\* no command of a remove has failed and no process was interfered with.
THEOREM RemoveIsTrue == ProxySpec => RemoveOkMeansGone
<1>1. ProxyInv /\ [ProxyNext]_proxyVars =>
        \A r \in Runs :
          EndsAs(r, "remove", "ok") /\ alone[r] =>
            /\ ~unit /\ path = "none"
            /\ \/ service = "off" /\ ~enabled
               \/ \E s \in Runs : ~alone[s] \/ (s \in failed /\ verb[s] = "remove")
  <2> SUFFICES ASSUME ProxyInv, [ProxyNext]_proxyVars, NEW r \in Runs,
                      EndsAs(r, "remove", "ok"), alone[r]
               PROVE  /\ ~unit /\ path = "none"
                      /\ Untroubled => service = "off" /\ ~enabled
    BY DEF ProxyInv, RunTypes, Untroubled
  <2>1. at[r] = "poll" /\ path = "none"
    BY EndsInPoll
  <2> QED
    BY <2>1 DEF ProxyInv, EndsAs, RemoveGoesOn, Traces
<1> QED
  BY <1>1, ProxyInvAlways, PTL DEF ProxySpec, RemoveOkMeansGone
=============================================================================
