-------------------------------- MODULE MCPorts --------------------------------
(* The three connectors of the repository, an agent and a desktop that declare *)
(* nothing, and trees with one plugin more.                                    *)
EXTENDS Ports, TLC

Con(name) == [kind |-> "connector", name |-> name]
Agent(name) == [kind |-> "agent", name |-> name]
Desktop(name) == [kind |-> "desktop", name |-> name]

Decl(plugin, label, internal, default, var, slug) ==
  [plugin |-> plugin, label |-> label, internal |-> internal, default |-> default,
   env_var |-> var, legacy_slug |-> slug]
Says(plugin, key, label) == [plugin |-> plugin, key |-> key, label |-> label]

SshOf(plugin) == Decl(plugin, "ssh", 22, "2222", "SSH_HOST_PORT", "ssh")

Connectors ==
  << Decl(Con("kasm"), "http", 8444, "8444", "KASM_PORT", "kasm"), SshOf(Con("kasm")),
     SshOf(Con("ssh")),
     Decl(Con("vnc"), "vnc", 5901, "5901", "VNC_PORT", "vnc"),
     Decl(Con("vnc"), "novnc", 6901, "6901", "NOVNC_PORT", "novnc"), SshOf(Con("vnc")) >>
ConnectorLines ==
  << Says(Con("kasm"), "URL", "http"), Says(Con("kasm"), "SSH", "ssh"),
     Says(Con("ssh"), "SSH", "ssh"),
     Says(Con("vnc"), "VNC", "vnc"), Says(Con("vnc"), "noVNC", "novnc"),
     Says(Con("vnc"), "SSH", "ssh") >>

\* Agents and desktops are loaded before connectors.
Shipped == [ports |-> Connectors, lines |-> ConnectorLines]
With(ports, lines) == [ports |-> ports \o Connectors, lines |-> lines \o ConnectorLines]

Web(plugin, slug) == Decl(plugin, "web", 3000, "3000", "WEB_PORT", slug)

MCTrees ==
  { Shipped,
    \* A port with a slug of its own, and a line more.
    With(<<Web(Agent("a"), NoSlug)>>, <<Says(Agent("a"), "Web", "web")>>),
    \* The connector's port declared again, and its line overridden.
    With(<<SshOf(Agent("a")), Web(Agent("a"), "ui")>>,
         <<Says(Agent("a"), "SSH", "ssh"), Says(Agent("a"), "Web", "web")>>),
    \* Agent and desktop share a port; the desktop speaks last.
    With(<<Web(Agent("a"), "ui"), Web(Desktop("d"), "ui")>>,
         <<Says(Agent("a"), "Web", "web"), Says(Desktop("d"), "Web", "web")>>),
    \* A line about a port that only some connectors have.
    With(<<Web(Agent("a"), NoSlug)>>, <<Says(Agent("a"), "Page", "http")>>) }

MCCliDefault == [ssh |-> "2222", kasm |-> "8444", vnc |-> "5901", novnc |-> "6901"]

MCUpgradeTable ==
  22 :> [env_var |-> "SSH_HOST_PORT", port |-> "2222"]
    @@ 8444 :> [env_var |-> "KASM_PORT", port |-> "8444"]
    @@ 5901 :> [env_var |-> "VNC_PORT", port |-> "5901"]
    @@ 6901 :> [env_var |-> "NOVNC_PORT", port |-> "6901"]

NoFlags == [s \in DOMAIN MCCliDefault |-> [value |-> MCCliDefault[s], spelled |-> "absent"]]
Flag(s, v, how) == [NoFlags EXCEPT ![s] = [value |-> v, spelled |-> how]]

UpOf(project, desktop, connector, flags) ==
  [verb |-> "up", project |-> project, dry |-> FALSE, flags |-> flags, old |-> <<>>,
   inherited |-> <<>>,
   tag |-> {Agent("a"), Desktop(desktop), Con(connector)}]
UpgradeOf(project, connector, old) ==
  [UpOf(project, "d", connector, NoFlags) EXCEPT !.verb = "upgrade", !.old = old]

MCCommands ==
  { UpOf("sanity-gravity", "d", "kasm", NoFlags),
    UpOf("sanity-gravity", "none", "ssh", Flag("ssh", "2222", "apart")),
    UpOf("dev", "d", "vnc", NoFlags),
    UpOf("dev", "d", "kasm", Flag("kasm", "8444", "apart")),
    UpOf("dev", "d", "kasm", Flag("ssh", "2300", "joined")),
    UpOf("dev", "none", "ssh", Flag("ssh", "2222", "joined")),
    UpOf("sanity-gravity", "none", "ssh", Flag("kasm", "0", "apart")),
    [UpOf("dev", "d", "kasm", NoFlags) EXCEPT !.dry = TRUE],
    UpgradeOf("dev", "kasm", 22 :> "0" @@ 8444 :> "33007"),
    UpgradeOf("sanity-gravity", "kasm", 22 :> "2222"),
    [UpgradeOf("dev", "kasm", 22 :> "2222" @@ 8444 :> "33007") EXCEPT
       !.inherited = "SSH_HOST_PORT" :> "2300"],
    UpgradeOf("dev", "vnc", 5901 :> "5901" @@ 6901 :> "0" @@ 9999 :> "40000") }
=============================================================================
