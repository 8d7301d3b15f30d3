---------------------------- MODULE MCInterfaces ----------------------------
(***************************************************************************)
(* What an apply does to interfaces, for TLC: Links (which links exist and *)
(* how they stack), LinkConfig (the options of one link, for every type)   *)
(* and ConfStore (how the profiles are kept), side by side.  Every         *)
(* behaviour is one of one part: ConfStore has its own variables, the      *)
(* others share v1, v2, ...                                                *)
(***************************************************************************)
EXTENDS ConfStore, Integers, TLC

CONSTANT Parts   \* the parts that are explored

VARIABLES part, v1, v2, v3, v4, v5, v6, v7, v8
slots == <<v1, v2, v3, v4, v5, v6, v7, v8>>

-----------------------------------------------------------------------------
(* Links: small hosts, their interfaces, their types and the requests.     *)
With(ports) == "state" :> "up" @@ "ports" :> ports
JustUp == "state" :> "up"
Gone == "state" :> "absent"
Vrf(t, ports) == "table" :> t @@ With(ports)
Vlan(parent) == "state" :> "up" @@ "parent" :> parent
In(c) == "state" :> "up" @@ "controller" :> c
WithIp == "state" :> "up" @@ "ip" :> TRUE

\* Two bridges that share two NICs, one of them down.
Bridges ==
    [names |-> {"e1", "e2", "b1", "b2"}, up |-> {"e1"},
     type |-> ("e1" :> "ethernet" @@ "e2" :> "ethernet" @@ "b1" :> "linux-bridge"
               @@ "b2" :> "linux-bridge"),
     requests |->
       {"b1" :> With({"e1", "e2"}), "b1" :> With({"e1"}), "b2" :> With({"e2"}),
        "b1" :> With({"e1"}) @@ "b2" :> With({"e2"}),
        "b1" :> With({}) @@ "b2" :> With({"e1"}) @@ "e1" :> WithIp,
        "e2" :> In("b1"), "e1" :> WithIp, "b1" :> Gone, "e2" :> Gone @@ "b2" :> With({})}]

\* A VRF whose table changes, next to a bridge that can be its port.
Vrfs ==
    [names |-> {"e1", "b1", "r", "w"}, up |-> {"e1"},
     type |-> ("e1" :> "ethernet" @@ "b1" :> "linux-bridge" @@ "r" :> "vrf" @@ "w" :> "vlan"),
     requests |->
       {"r" :> Vrf(10, {"b1"}) @@ "b1" :> With({"e1"}) @@ "w" :> Vlan("b1"),
        "r" :> ("table" :> 20 @@ JustUp), "r" :> With({"e1"}), "b1" :> With({}),
        "w" :> Vlan("b1") @@ "b1" :> JustUp, "r" :> Gone, "b1" :> Gone}]

\* A VLAN that is a port and moves from one parent to another.
Vlans ==
    [names |-> {"e1", "e2", "b1", "v"}, up |-> {"e1", "e2"},
     type |-> ("e1" :> "ethernet" @@ "e2" :> "ethernet" @@ "b1" :> "linux-bridge" @@ "v" :> "vlan"),
     requests |->
       {"b1" :> With({"v"}) @@ "v" :> Vlan("e1"), "v" :> Vlan("e2"), "v" :> Vlan("e1"),
        "b1" :> With({"v", "e2"}), "b1" :> With({"e2"}), "v" :> Gone,
        "v" :> In("b1"), "b1" :> Gone @@ "v" :> JustUp}]

LinkHosts == [bridges |-> Bridges, vrfs |-> Vrfs, vlans |-> Vlans]

Li == INSTANCE Links WITH
    host <- v1, link <- v2, saved <- v3, tx <- v4, before <- v5, last <- v6,
    used <- v7, Hosts <- LinkHosts, MaxApplies <- 3, MaxFaults <- 1,
    MaxTries <- 2

-----------------------------------------------------------------------------
(* LinkConfig: every type of link, with requests that create it, change it *)
(* in place, change what cannot be changed in place, name only part of it, *)
(* bring it down, remove it, keep it aside and hand it over.               *)
Up(c) == c @@ "state" :> "up"
AnyType ==
    {"state" :> "absent", "state" :> "down", Up("mtu" :> 1),
     "state" :> "saved" @@ "mtu" :> 2, "state" :> "ignore"}

LinkTypes == {"bond", "linux-bridge", "vlan", "vrf", "vxlan", "mac-sec", "wireguard",
            "veth", "dummy", "ethernet"}

SectionsOf(t) ==
    CASE t = "bond" -> {"mode" :> 1 @@ "ports" :> 1, "mode" :> 2 @@ "lacp-rate" :> 1,
                        "miimon" :> 1, "lacp-rate" :> 1}
      [] t = "linux-bridge" -> {"ports" :> 1 @@ "stp" :> 1, "forward-delay" :> 1,
                                "hash-max" :> 1}
      [] t = "vlan" -> {"id" :> 1 @@ "base-iface" :> 1, "id" :> 2, "flags" :> 1,
                        "qos-map" :> 1, "qos-map" :> 0}
      [] t = "vrf" -> {"table-id" :> 1, "table-id" :> 2 @@ "ports" :> 1, "ports" :> 2,
                       "table-id" :> 0 @@ "ports" :> 1}
      [] t = "vxlan" -> {"id" :> 1, "id" :> 2 @@ "base-iface" :> 1, "learning" :> 1,
                         "gbp" :> 1, "gbp" :> 0, "src-port-min" :> 1}
      [] t = "mac-sec" -> {"base-iface" :> 1, "base-iface" :> 1 @@ "sci" :> 2, "port" :> 1,
                           "encrypt" :> 1, "base-iface" :> 1 @@ "mka" :> 1}
      [] t = "wireguard" -> {"private-key" :> 1, "listen-port" :> 1,
                             "private-key" :> 2 @@ "peers" :> 1}
      [] t = "veth" -> {"peer" :> 1, "peer" :> 2}
      [] OTHER -> {<<>>}

LinkRequests == [t \in LinkTypes |-> AnyType \cup {Up(c) : c \in SectionsOf(t)}]

Lc == INSTANCE LinkConfig WITH
    type <- v1, link <- v2, saved <- v3, tx <- v4, asked <- v5, before <- v6,
    last <- v7, used <- v8, Types <- LinkTypes, Requests <- LinkRequests,
    MaxApplies <- 3, MaxFaults <- 2, MaxTries <- 2

-----------------------------------------------------------------------------
(* ConfStore: two profiles, with and without a secret, replaced, moved to  *)
(* another network and removed.                                            *)
Profiled(n, c, x) == [net |-> n, conf |-> c, secret |-> x, up |-> TRUE, named |-> FALSE]

Removed(known) == [net |-> "n1", conf |-> "c1", secret |-> "none", up |-> FALSE, named |-> known]

MCSaveInputs ==
    {[i \in {"eth", "wlan"} |-> IF i = "eth" THEN p ELSE q] :
        p \in {Missing, Profiled("n1", "c1", "none"), Removed(TRUE), Removed(FALSE)},
        q \in {Missing, Profiled("n1", "c1", "s1"), Profiled("n2", "c2", "s2"), Profiled("n2", "c1", "none")}}

(* What the theorems of ConfStoreProofs assume of the constants.           *)
ASSUME StoreAssumption == ConfAssumption

-----------------------------------------------------------------------------
PartsInit ==
    /\ part \in Parts /\ Init
    /\ \/ part = "links" /\ Li!Init /\ v8 = None
       \/ part = "options" /\ Lc!Init
       \/ /\ part = "store"
          /\ v1 = None /\ v2 = None /\ v3 = None /\ v4 = None
          /\ v5 = None /\ v6 = None /\ v7 = None /\ v8 = None

PartsNext ==
    \/ part = "links" /\ Li!Next /\ UNCHANGED <<part, vars, v8>>
    \/ part = "options" /\ Lc!Next /\ UNCHANGED <<part, vars>>
    \/ part = "store" /\ Next /\ UNCHANGED <<part, slots>>

PartsSpec == PartsInit /\ [][PartsNext]_<<part, vars, slots>>

-----------------------------------------------------------------------------
(* Properties: those of ConfStore, and those of the other parts, each      *)
(* where its part is explored.                                             *)

(* A rollback puts back which links exist, their controllers and parents.  *)
RollbackRestoresLinks == part = "links" => Li!RollbackRestoresLinks

(* The boot apply restores saved profiles that agree with each other,      *)
(* ports and parents included.                                             *)
BootRestores == part = "links" => Li!BootRestores

(* for_save holds the previous saved changes, for bonds and bridges too.   *)
AskedIsSaved == part = "options" => Lc!AskedIsSaved

(* A persistent apply that succeeds leaves the whole profile running, also *)
(* when the link was deleted and built anew.                               *)
SavedIsRunning == part = "options" => Lc!SavedIsRunning

(* A rollback puts back every option of a link that was changed in place.  *)
RollbackRestoresOptions == part = "options" => Lc!RollbackRestores
=============================================================================
