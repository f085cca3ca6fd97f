-------------------------------- MODULE MCPull --------------------------------
(* Trees of two agents, two desktops, two connectors and two bases, with one  *)
(* plugin changed or left out; one of them has an agent named like a desktop. *)
EXTENDS Pull, TLC

Plugin(kind, slug) ==
  [kind |-> kind, slug |-> slug, shaped |-> TRUE, api_version |-> "1",
   tier |-> "official", is_default |-> FALSE, provides |-> {}, requires |-> {},
   dockerfile |-> "inside", from_ref |-> "none", runtime |-> FALSE, hooks |-> "none"]

Dir(m) == [kind |-> m.kind, name |-> m.slug, manifest |-> m]

Os == <<"noble", "bookworm">>

ubuntu == [Plugin("base-image", "ubuntu") EXCEPT
  !.is_default = TRUE, !.from_ref = "pinned", !.provides = {<<"noble">>}]
debian == [Plugin("base-image", "debian") EXCEPT
  !.tier = "community", !.from_ref = "pinned", !.provides = {<<"bookworm">>}]
ag   == [Plugin("agent", "ag") EXCEPT !.requires = {Display, Os}, !.hooks = "load"]
gc   == [Plugin("agent", "gc") EXCEPT !.tier = "deprecated"]
none == Plugin("desktop", "none")
xfce == [Plugin("desktop", "xfce") EXCEPT !.provides = {Display}]
ssh  == Plugin("connector", "ssh")
kasm == [Plugin("connector", "kasm") EXCEPT !.requires = {Display, Os}, !.runtime = TRUE]

Shipped == {Dir(m) : m \in {ubuntu, debian, ag, gc, none, xfce, ssh, kasm}}

Change(m, n) == (Shipped \ {Dir(m)}) \cup {[Dir(m) EXCEPT !.manifest = n]}
Add(m)       == Shipped \cup {Dir(m)}

\* Accepted, and other tags than those of the shipped tree are valid or official.
GoodTrees ==
  <<Shipped, {}, Shipped \ {Dir(gc)}, Shipped \ {Dir(debian)},
   Change(gc, [gc EXCEPT !.tier = "community", !.provides = {Display}]),
   Change(gc, [gc EXCEPT !.tier = "official", !.requires = {<<"bookworm">>}]),
   Change(xfce, [xfce EXCEPT !.tier = "community"]),
   Change(kasm, [kasm EXCEPT !.requires = {Display, <<"noble">>}, !.tier = "community"]),
   Add([Plugin("agent", "xfce") EXCEPT !.tier = "community"]),
   Add([Plugin("base-image", "kasm") EXCEPT !.tier = "community", !.from_ref = "pinned"])>>

\* Refused, each for a reason of its own.
BadTrees ==
  <<Change(gc, [gc EXCEPT !.shaped = FALSE]),
   Change(gc, [gc EXCEPT !.api_version = "1.0"]),
   Change(gc, [gc EXCEPT !.slug = "ag"]),
   Change(gc, [gc EXCEPT !.kind = "desktop"]),
   Change(gc, [gc EXCEPT !.tier = "gold"]),
   Change(gc, [gc EXCEPT !.provides = {<<"a", "b">>}]),
   Change(gc, [gc EXCEPT !.requires = {<<"noble", "noble">>}]),
   Change(gc, [gc EXCEPT !.requires = {<<"noble", "">>}]),
   Change(gc, [gc EXCEPT !.dockerfile = "outside"]),
   Change(gc, [gc EXCEPT !.from_ref = "pinned"]),
   Change(gc, [gc EXCEPT !.is_default = TRUE]),
   Change(gc, [gc EXCEPT !.hooks = "raise"]),
   Change(debian, [debian EXCEPT !.from_ref = "floating"]),
   Change(debian, [debian EXCEPT !.runtime = TRUE]),
   Change(debian, [debian EXCEPT !.tier = "official", !.is_default = TRUE]),
   Change(ubuntu, [ubuntu EXCEPT !.is_default = FALSE]),
   Change(ubuntu, [ubuntu EXCEPT !.tier = "community"]),
   Add(Plugin("agent", "base"))>>

MCTrees == GoodTrees \o BadTrees
MCSlug == {"ag", "gc", "none", "xfce", "ssh", "kasm", "ubuntu", "debian", "base", "sg", "zz"}
MCProjects == {<<"x">>, <<"x", "ag">>, <<"x", "ag", "xfce">>, <<"x", "gc">>, <<"sg">>}

Env(o, r, e, s) == [override |-> o, origin |-> r, exact |-> e, sha |-> s]
home    == Env("", "github", "v1", "abc")
tarball == Env("", "unreadable", "", "")
forced  == Env("my/fork", "other", "", "abc")

Pulling(vs, v, e) ==
  [verb |-> "pull", variants |-> vs, version |-> v, pull |-> FALSE, dry |-> FALSE, env |-> e]
Upping(s, pull, dry) ==
  [verb |-> "up", variants |-> <<s>>, version |-> "", pull |-> pull, dry |-> dry, env |-> home]

agTag  == <<"ag", "xfce", "kasm">>
gcTag  == <<"gc", "none", "ssh">>
MCRequests ==
  {Pulling(<<All>>, "", home),
   Pulling(<<agTag, All>>, "v2", home),
   Pulling(<<gcTag, <<"gc", "none", "ssh", "ubuntu">>>>, "", forced),
   Pulling(<<<<"zz", "none", "ssh", "debian">>, <<"gc", "none", "Ssh">>>>, "", tarball),
   Upping(gcTag, FALSE, FALSE),
   Upping(<<"gc", "none", "ssh", "debian">>, TRUE, TRUE),
   Upping(<<"gc", "none", "kasm">>, FALSE, FALSE),
   Upping(agTag, FALSE, TRUE)}

Symmetric == Permutations(Procs)
=============================================================================
