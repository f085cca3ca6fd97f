------------------------------ MODULE MCLiveVerbs ------------------------------
(* Two runs, by two users, over two projects: at first, one with an old and a *)
(* new container, or two with one each.                                       *)
EXTENDS LiveVerbs, TLC

MCCaller == [r \in Runs |-> IF r = "r1" THEN "ana" ELSE "root"]
MCProjects == <<"lab", "sanity-gravity">>
MCVariants == <<"ag", "gc">>

Up(state, who, account) ==
  [state |-> state, user |-> who, mounted |-> TRUE, account |-> account]

With(f) == [i \in Instance |-> IF i \in DOMAIN f THEN f[i] ELSE NoContainer]

ana  == Up("running", "ana", "user and group")
old  == [Up("exited", "root", "user") EXCEPT !.mounted = FALSE]

MCInitial ==
  {With((<<"lab", "ag">> :> old) @@ (<<"lab", "gc">> :> ana)),
   With((<<"lab", "ag">> :> [ana EXCEPT !.account = "user"])
          @@ (<<"sanity-gravity", "gc">> :> ana))}

SyncOf(name, tty) ==
  [verb |-> "sync", name |-> name, variant |-> "", tag |-> "", tty |-> tty]
Upping(name, variant, tag) ==
  [verb |-> "up", name |-> name, variant |-> variant, tag |-> tag, tty |-> FALSE]
Snapshot(name, variant, tty) ==
  [verb |-> "snapshot", name |-> name, variant |-> variant, tag |-> "s", tty |-> tty]

MCJobs ==
  {SyncOf("sanity-gravity", FALSE), SyncOf("lab", TRUE),
   Upping("lab", "ag", ""), Upping("sanity-gravity", "gc", "s"),
   Snapshot("sanity-gravity", "", FALSE), Snapshot("lab", "", TRUE),
   Snapshot("lab", "gc", FALSE)}
=============================================================================
