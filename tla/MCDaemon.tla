------------------------------ MODULE MCDaemon ------------------------------
(***************************************************************************)
(* What connects the daemon with its clients, its plugins and their        *)
(* sessions, for TLC: Sessions, Plugins and Mka, side by side.  Every      *)
(* behaviour is one of one part.                                           *)
(***************************************************************************)
EXTENDS Sessions, Plugins, Mka, TLC

CONSTANT Parts  \* the parts that are explored
VARIABLE part

-----------------------------------------------------------------------------
(* Sessions: commands of both privileges, answered with the same and with  *)
(* other kinds of data, below, at and above the frame limit.               *)
Cmd(reply, needsRoot, size) == [reply |-> reply, root |-> needsRoot, size |-> size]

Commands == "ping" :> Cmd("pong", FALSE, "small")
            @@ "query" :> Cmd("network-state", FALSE, "small")
            @@ "apply" :> Cmd("network-state", TRUE, "small")
            @@ "apply-limit" :> Cmd("network-state", TRUE, "limit")
            @@ "apply-over" :> Cmd("network-state", TRUE, "over")

-----------------------------------------------------------------------------
(* Plugins: a wifi plugin and a second one, and a type nobody handles.     *)
PluginTypes == "wifi" :> {"wifi-cfg"} @@ "vpn" :> {"vpn"}
TypeRequests == {{"wifi-cfg"}, {"wifi-cfg", "vpn"}, {"vpn", "ovs"}}

-----------------------------------------------------------------------------
(* Mka: one MACsec interface that moves between two NICs and changes its   *)
(* keys, whole or in part.                                                 *)
Up == "state" :> "up"
KeyPair(k) == "cak" :> k @@ "ckn" :> k

Ask(config, persist, force) == [config |-> Up @@ config, persist |-> persist, force |-> force]

MkaRequests ==
    {Ask("base" :> "eth0" @@ KeyPair("k1"), TRUE, FALSE),
     Ask("base" :> "eth1", TRUE, FALSE),
     Ask(KeyPair("k2"), TRUE, FALSE), Ask(KeyPair("k2"), FALSE, FALSE),
     Ask("cak" :> "k2", TRUE, FALSE),
     Ask("mtu" :> "9000", TRUE, FALSE), Ask("mtu" :> "9000", TRUE, TRUE),
     [config |-> "state" :> "absent", persist |-> TRUE, force |-> FALSE],
     [config |-> "state" :> "absent", persist |-> FALSE, force |-> FALSE]}

Settings == {"up", "absent", "off", "default", "eth0", "eth1", "k1", "k2", "9000"}

-----------------------------------------------------------------------------
PartsInit ==
    /\ part \in Parts /\ Init /\ PluginInit /\ MkaInit
    /\ part # "sessions" => root

PartsNext ==
    \/ part = "sessions" /\ Next /\ UNCHANGED <<part, pluginVars, mkaVars>>
    \/ part = "plugins" /\ PluginNext /\ UNCHANGED <<part, vars, mkaVars>>
    \/ part = "mka" /\ MkaNext /\ UNCHANGED <<part, vars, pluginVars>>

(* The runtime fires the daemon's timers and hands over what has arrived.   *)
Fairness == WF_pluginVars(Timer) /\ WF_pluginVars(Answered)

PartsSpec == PartsInit /\ [][PartsNext]_<<part, vars, pluginVars, mkaVars>> /\ Fairness

=============================================================================
