------------------------------ MODULE BuildPlan ------------------------------
(***************************************************************************)
(* The build verb: requested tags become layers of the chain               *)
(*                                                                         *)
(*     base -> desktop -> agent -> connector                               *)
(*                                                                         *)
(* (domain/layers.py), the layers become a plan (domain/plan.py), and the  *)
(* plan becomes one docker build after another (hooks/build.py).  The plan *)
(* looks at the image store once, before the first build; other builds and *)
(* the user work on the same store meanwhile.                              *)
(*                                                                         *)
(* A layer is the sequence of the slugs it binds, in build order; slugs    *)
(* are numbers, so that they have an order.  A run builds a layer at most  *)
(* once, so an image is known by its layer and the run that built it.      *)
(***************************************************************************)
EXTENDS Naturals, Sequences, FiniteSets

CONSTANTS
  Tags,          (* the final layers that may be requested                    *)
  NoDockerfile,  (* layers whose Dockerfile is missing                        *)
  MaxRuns,       (* BOUND: runs of build                                      *)
  MaxRemovals    (* BOUND: images the user removes                            *)

Slugs     == Nat \ {0}
Connector == 4       \* LayerKind.CONNECTOR, one up: the number of bound slugs

ASSUME BuildPlanAssumption ==
  /\ Tags \subseteq [1..Connector -> Slugs] /\ IsFiniteSet(Tags)
  /\ MaxRuns \in Nat /\ MaxRemovals \in Nat

Runs   == 1..MaxRuns
Absent == 0

-----------------------------------------------------------------------------
(* LayerRef *)

\* Mutant: the agent is left out of the name a final image is built FROM.
Parent_NoAgent(l) == SubSeq(l, 1, IF Len(l) = Connector THEN 2 ELSE Len(l) - 1)

\* LayerRef.parent: drop the last bound slug.
Parent(l) == SubSeq(l, 1, Len(l) - 1)

\* Mutant: the walk up the parents stops one early.
Chain_NoBase(l) == {SubSeq(l, 1, k) : k \in 2..Len(l)}

\* A layer and its ancestors.
Chain(l) == {SubSeq(l, 1, k) : k \in 1..Len(l)}

Slug(l, k) == IF k <= Len(l) THEN l[k] ELSE 0

\* Mutant: the deepest layers first.
SortKey_Reversed(l) == <<Connector - Len(l), Slug(l, 3), Slug(l, 2), Slug(l, 4), Slug(l, 1)>>

\* LayerRef.sort_key: depth, agent, desktop, connector, base.
SortKey(l) == <<Len(l), Slug(l, 3), Slug(l, 2), Slug(l, 4), Slug(l, 1)>>

Before(l, m) ==
  LET a == SortKey(l) b == SortKey(m) IN
  \E i \in DOMAIN a : a[i] < b[i] /\ \A j \in 1..(i - 1) : a[j] = b[j]

\* closure: every root and its ancestors, without duplicates, sorted.
Closure(roots) ==
  LET seen == UNION {Chain(l) : l \in roots} IN
  [i \in 1..Cardinality(seen) |->
     CHOOSE l \in seen : Cardinality({m \in seen : Before(m, l)}) = i - 1]

Layers == UNION {{SubSeq(t, 1, k) : k \in 1..Connector} : t \in Tags}

-----------------------------------------------------------------------------
VARIABLES
  built,    (* the image store: the run that built each layer's image         *)
  from,     (* the run that built the parent image each one was built FROM    *)
  request,  (* what each run was asked for                                    *)
  pc,       (* where each run is                                              *)
  todo,     (* layers of the closure not yet looked at                        *)
  plan,     (* ctx.plan                                                       *)
  next,     (* position in plan of the layer that is built now                *)
  using,    (* the run that built the parent image now built FROM             *)
  met,      (* history: the runs each one overlapped with; Absent among them  *)
            (* says that the user removed an image meanwhile                  *)
  removed   (* images removed by the user                                     *)

store == <<built, from>>
vars  == <<store, request, pc, todo, plan, next, using, met, removed>>

NoRequest == [targets |-> {}, no_cache |-> FALSE, dry |-> FALSE]
Requests  == [targets : (SUBSET Tags) \ {{}}, no_cache : BOOLEAN, dry : BOOLEAN]

Ended     == {"ok", "no dockerfile", "no parent", "failed"}
Active(r) == pc[r] \notin Ended \cup {"idle"}

Init ==
  /\ built = [l \in Layers |-> Absent]
  /\ from = [l \in Layers |-> Absent]
  /\ request = [r \in Runs |-> NoRequest]
  /\ pc = [r \in Runs |-> "idle"]
  /\ todo = [r \in Runs |-> <<>>]
  /\ plan = [r \in Runs |-> <<>>]
  /\ next = [r \in Runs |-> 1]
  /\ using = [r \in Runs |-> Absent]
  /\ met = [r \in Runs |-> {}]
  /\ removed = 0

Goto(r, label) == pc' = [pc EXCEPT ![r] = label]

\* build(): the tags are valid; the closure of what was asked for.
Request(r, q) ==
  /\ pc[r] = "idle" /\ \A s \in 1..(r - 1) : pc[s] # "idle"
  /\ request' = [request EXCEPT ![r] = q]
  /\ todo' = [todo EXCEPT ![r] = Closure(q.targets)]
  /\ met' = [s \in Runs |-> IF s = r THEN {o \in Runs : Active(o)}
                            ELSE IF Active(s) THEN met[s] \cup {r} ELSE met[s]]
  /\ Goto(r, "plan")
  /\ UNCHANGED <<store, plan, next, using, removed>>

\* The probe in plan(): _ALWAYS_BUILD is not asked, NEVER_CACHED never hits.
CacheHit(r, l) ==
  /\ Len(l) # Connector
  /\ ~request[r].no_cache /\ ~request[r].dry /\ built[l] # Absent

Probe(r) ==
  /\ pc[r] = "plan" /\ todo[r] # <<>>
  /\ plan' = [plan EXCEPT ![r] = IF CacheHit(r, Head(todo[r])) THEN @
                                 ELSE Append(@, Head(todo[r]))]
  /\ todo' = [todo EXCEPT ![r] = Tail(@)]
  /\ UNCHANGED <<store, request, pc, next, using, met, removed>>

\* build_layers enqueues every build; one Dockerfile that is missing and none
\* is run.  An empty plan and a dry run build nothing.
Enqueue(r) ==
  /\ pc[r] = "plan" /\ todo[r] = <<>>
  /\ Goto(r, IF \E i \in DOMAIN plan[r] : plan[r][i] \in NoDockerfile THEN "no dockerfile"
             ELSE IF request[r].dry \/ plan[r] = <<>> THEN "ok" ELSE "start")
  /\ UNCHANGED <<store, request, todo, plan, next, using, met, removed>>

Cur(r) == plan[r][next[r]]

\* docker build --build-arg BASE_IMAGE=<parent>; a base has a parent elsewhere.
StartBuild(r) ==
  /\ pc[r] = "start"
  /\ Len(Cur(r)) > 1 => built[Parent(Cur(r))] # Absent
  /\ using' = [using EXCEPT ![r] = IF Len(Cur(r)) = 1 THEN Absent
                                   ELSE built[Parent(Cur(r))]]
  /\ Goto(r, "building")
  /\ UNCHANGED <<store, request, todo, plan, next, met, removed>>

NoParent(r) ==
  /\ pc[r] = "start"
  /\ Len(Cur(r)) # 1 /\ built[Parent(Cur(r))] = Absent
  /\ Goto(r, "no parent")
  /\ UNCHANGED <<store, request, todo, plan, next, using, met, removed>>

\* Mutant: a run leaves an image that has appeared meanwhile.
FinishBuild_KeepsExisting(r) ==
  /\ pc[r] = "building"
  /\ IF built[Cur(r)] # Absent THEN UNCHANGED store
     ELSE /\ built' = [built EXCEPT ![Cur(r)] = r]
          /\ from' = [from EXCEPT ![Cur(r)] = using[r]]
  /\ next' = [next EXCEPT ![r] = @ + 1]
  /\ Goto(r, IF next[r] = Len(plan[r]) THEN "ok" ELSE "start")
  /\ UNCHANGED <<request, todo, plan, using, met, removed>>

\* The image is tagged; the executor goes on with the next action.
FinishBuild(r) ==
  /\ pc[r] = "building"
  /\ built' = [built EXCEPT ![Cur(r)] = r]
  /\ from' = [from EXCEPT ![Cur(r)] = using[r]]
  /\ next' = [next EXCEPT ![r] = @ + 1]
  /\ Goto(r, IF next[r] = Len(plan[r]) THEN "ok" ELSE "start")
  /\ UNCHANGED <<request, todo, plan, using, met, removed>>

\* A docker build fails and the queue is abandoned, or the run is killed.
Stops(r) ==
  /\ Active(r)
  /\ Goto(r, "failed")
  /\ UNCHANGED <<store, request, todo, plan, next, using, met, removed>>

\* The user removes an image (docker rmi, docker image prune).
Remove(l) ==
  /\ built[l] # Absent /\ removed < MaxRemovals
  /\ built' = [built EXCEPT ![l] = Absent]
  /\ removed' = removed + 1
  /\ met' = [r \in Runs |-> IF Active(r) THEN met[r] \cup {Absent} ELSE met[r]]
  /\ UNCHANGED <<from, request, pc, todo, plan, next, using>>

Next ==
  \/ \E r \in Runs :
       \/ \E q \in Requests : Request(r, q)
       \/ Probe(r) \/ Enqueue(r) \/ StartBuild(r) \/ NoParent(r) \/ FinishBuild(r)
       \/ Stops(r)
  \/ \E l \in Layers : Remove(l)

Spec == Init /\ [][Next]_vars

-----------------------------------------------------------------------------
(* Properties *)

Planned(r) == {plan[r][i] : i \in DOMAIN plan[r]}

\* Once the plan is made it holds no layer twice, every requested image, only
\* what the requested images stand on, and each layer after its parent unless
\* the parent was found; without a cache it holds all they stand on.
PlanIsParentsFirst ==
  \A r \in Runs : todo[r] = <<>> /\ request[r] # NoRequest =>
    LET asked == request[r].targets
        needed == {l \in Layers : \E t \in asked : \E k \in 1..Connector :
                                    \A i \in 1..k : Len(l) = k /\ l[i] = t[i]}
        p == plan[r]
    IN /\ \A i, j \in DOMAIN p : i # j => p[i] # p[j]
       /\ asked \subseteq Planned(r) /\ Planned(r) \subseteq needed
       /\ request[r].no_cache => Planned(r) = needed
       /\ \A i, j \in DOMAIN p : Len(p[j]) > 1 /\ p[i] = Parent(p[j]) => i < j

\* A build lacks its parent image only if the user removed an image while the
\* run was at work: what was removed before it the probe has seen, and nothing
\* that other builds do takes a parent away.
NeverWithoutParent ==
  \A r \in Runs : pc[r] = "no parent" => Absent \in met[r]

Succeeds(r) == pc[r] = "building" /\ pc'[r] = "ok"

\* When build --no-cache succeeds, no layer of a requested image is older than
\* the run: each is its own, or one that an overlapping run has put in its place,
\* or gone because the user removed it meanwhile; and what it built itself it
\* built FROM an image no older either.
NoCacheMeansFresh ==
  [][\A r \in Runs :
       Succeeds(r) /\ request[r].no_cache =>
         \A t \in request[r].targets : \A k \in 1..Connector :
           LET l == SubSeq(t, 1, k)
               fresh == {r} \cup met[r]
           IN built'[l] \in fresh /\ (k > 1 /\ built'[l] = r => from'[l] \in fresh)]_vars

\* A requested image stands on the agent layer that is in the store when build
\* succeeds, unless an overlapping build has replaced one of the two since, or
\* the user has removed it.
FinalOnCurrentAgent ==
  [][\A r \in Runs :
       Succeeds(r) =>
         \A t \in request[r].targets :
           LET agent == SubSeq(t, 1, Connector - 1) IN
           from'[t] = built'[agent] \/ {built'[agent], built'[t]} \cap met[r] # {}]_vars
=============================================================================
