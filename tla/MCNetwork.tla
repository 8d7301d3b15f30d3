----------------------------- MODULE MCNetwork ------------------------------
(***************************************************************************)
(* What the daemon programs next to the links, keeps and shows, for TLC:   *)
(* Addressing, Routing, BridgeVlan, DnsCache, Views and Online, side by    *)
(* side.  Every behaviour is one of one part: Routing and DnsCache share   *)
(* v1, v2, ..., the others have their own variables.                       *)
(***************************************************************************)
EXTENDS Online, Views, BridgeVlan, Addressing, TLC

CONSTANTS
    Undefined,      \* a field of a route that is not set
    Default,        \* a metric that the kernel chooses
    Parts           \* the parts that are explored

VARIABLES part, v1, v2, v3, v4, v5, v6, v7
slots == <<v1, v2, v3, v4, v5, v6, v7>>

-----------------------------------------------------------------------------
(* Routing: two interfaces, e1 and e2, a profile name p1 for e1, a         *)
(* wifi-cfg profile w1 that no radio carries, and a name n1 nobody answers *)
(* to.                                                                     *)
MainTable == 254
Plain == [state |-> "up", desired |-> FALSE, on |-> {"v4", "v6"}, off |-> {},
          dhcp |-> FALSE, recreate |-> FALSE]
RouteNames == {"e1", "e2", "p1", "w1", "n1"}
RouteIfaces == {"e1", "e2"}
NicOf == [n \in RouteNames |->
    CASE n \in {"e1", "p1"} -> "e1" [] n = "e2" -> "e2"
      [] n = "w1" -> "pending" [] OTHER -> "unresolved"]
VrfTables == [v \in {"red", "blue"} |-> IF v = "red" THEN 10 ELSE Undefined]

Rt(dst, via) ==
    [state |-> Undefined, dst |-> dst, via |-> via, addr |-> Undefined,
     metric |-> Undefined, table |-> Undefined, src |-> Undefined,
     mtu |-> Undefined, kind |-> Undefined, onlink |-> Undefined,
     vrf |-> Undefined, proto |-> Undefined]
Gone(r) == [r EXCEPT !.state = "absent"]
Gw(r, g) == [r EXCEPT !.addr = g]
Metric(r, m) == [r EXCEPT !.metric = m]
Kern(r) == [r EXCEPT !.state = "kernel", !.table = MainTable, !.proto = "static",
                     !.addr = IF @ = Undefined THEN "none" ELSE @,
                     !.metric = IF @ = Undefined THEN 0 ELSE @]

RequestRoutes ==
    {Rt("d1", "e1"), Gw(Rt("d1", "e2"), "g2"), Metric(Rt("d2", "p1"), 7),
     Rt("d6", "e2"), Rt("d2", "w1"),
     [Rt("d2", "e2") EXCEPT !.state = "saved"],
     Gone(Rt("d1", Undefined)), Gone(Rt(Undefined, "p1"))}

OddRoutes ==
    {Rt("d2", "n1"), Rt("d0", "e1"), [Rt("d2", Undefined) EXCEPT !.kind = "blackhole"],
     [Rt("d2", "e1") EXCEPT !.vrf = "red"], [Rt("d2", "e1") EXCEPT !.vrf = "blue"],
     [Rt("d2", "e1") EXCEPT !.mtu = "m"], [Rt("d2", "e1") EXCEPT !.state = "ignore"],
     Metric(Rt("d2", "e1"), Default)}

Ru(from) ==
    [state |-> Undefined, from |-> from, family |-> Undefined, prio |-> Undefined,
     table |-> Undefined, iif |-> Undefined, action |-> Undefined]
KRu(from, to, prio, iif) ==
    [Ru(from) EXCEPT !.state = "kernel", !.table = to, !.prio = prio,
                     !.family = IF from = "d6" THEN "v6" ELSE "v4", !.iif = iif]

RequestRules ==
    {Ru("d1"), [Ru("d1") EXCEPT !.iif = "p1"], [Ru("d6") EXCEPT !.table = 10],
     [Gone(Ru("d1")) EXCEPT !.table = MainTable],
     [Gone(Ru("blank")) EXCEPT !.family = "v6"], Ru(Undefined)}

Merged(i, f) == [j \in RouteIfaces |-> IF j = i THEN f ELSE Plain]
IfaceChoices ==
    {Merged("e1", f) : f \in
        {Plain, [Plain EXCEPT !.desired = TRUE, !.recreate = TRUE],
         [Plain EXCEPT !.desired = TRUE, !.on = {"v6"}, !.off = {"v4"}],
         [Plain EXCEPT !.desired = TRUE, !.on = {}],
         [Plain EXCEPT !.desired = TRUE, !.state = "absent"],
         [Plain EXCEPT !.state = "ignore"]}}
    \cup {Merged("e2", f) : f \in
        {[Plain EXCEPT !.desired = TRUE, !.dhcp = TRUE],
         [Plain EXCEPT !.desired = TRUE, !.state = "saved"]}}

UpTo1(S) == {<<>>} \cup {<<a>> : a \in S}
UpTo2(S) == UpTo1(S) \cup {<<a, b>> : a, b \in S}
AllPlain == Merged("e1", Plain)

\* The interfaces that requests with two routes are explored on.
PairChoices ==
    {AllPlain, Merged("e1", [Plain EXCEPT !.desired = TRUE, !.recreate = TRUE]),
     Merged("e1", [Plain EXCEPT !.desired = TRUE, !.on = {"v6"}, !.off = {"v4"}]),
     Merged("e2", [Plain EXCEPT !.desired = TRUE, !.dhcp = TRUE])}

\* Requests that change a route: remove the old entry and add the new one.
ChangeRequests ==
    [routes : {<<Gone(Rt("d1", "e1")), Gw(Metric(Rt("d1", "e1"), 7), "g1")>>,
               <<Gone(Rt("d1", "e1")), Gw(Rt("d1", "e2"), "g2")>>},
     rules : {<<>>}, ifaces : {AllPlain}]

RouteRequests ==
    ChangeRequests
    \cup [routes : UpTo1(RequestRoutes), rules : {<<>>}, ifaces : IfaceChoices]
    \cup [routes : UpTo2(RequestRoutes), rules : {<<>>}, ifaces : PairChoices]
    \cup [routes : {<<a>> : a \in OddRoutes}, rules : {<<Ru("d1")>>}, ifaces : {AllPlain}]
    \cup [routes : {<<>>, <<Rt("d2", "e1")>>}, rules : UpTo2(RequestRules),
          ifaces : {AllPlain, Merged("e1", [Plain EXCEPT !.state = "absent"])}]

KernelTables ==
    LET onlink == {Kern(Rt("d1", "e1"))}
        several == {Kern(Gw(Rt("d1", "e1"), "g1")), Kern(Metric(Rt("d1", "e1"), 7)),
                    [Kern(Rt("d6", "e2")) EXCEPT !.proto = "ra"]}
        both == {KRu("d1", MainTable, 30000, Undefined), KRu("d1", 10, 5, "e1")} IN
    [routes : {{}, onlink}, rules : {{}}] \cup [routes : {onlink, several}, rules : {both}]

SavedTables ==
    [routes : {{}, {Metric(Rt("d1", "e1"), 7), Rt("d2", "w1")}, {Rt("d1", "p1"), Rt("d2", "e1")}},
     rules : {{Ru("d1")}}]

Ro == INSTANCE Routing WITH
    ifaces <- v1, kernel <- v2, saved <- v3, req <- v4, job <- v5,
    found <- v6, faults <- v7, Names <- RouteNames, Ifaces <- RouteIfaces,
    KernelName <- NicOf, Pending <- "pending", Unresolved <- "unresolved",
    V6 <- {"d6"}, Reserved <- {"d0"}, VrfTable <- VrfTables,
    Requests <- RouteRequests, KernelStates <- KernelTables,
    SavedStates <- SavedTables, MaxFaults <- 2

-----------------------------------------------------------------------------
(* BridgeVlan: five VLAN ids, so that ranges can meet, overlap and enclose *)
(* the default VLAN 1.                                                     *)
Section(mode, native, tag, tags) == [mode |-> mode, native |-> native, tag |-> tag, tags |-> tags]

TagLists == {{<<2, 2>>}, {<<2, 3>>}, {<<3, 3>>, <<4, 5>>}, {<<2, 2>>, <<4, 4>>},
         {<<1, 2>>, <<4, 5>>}, {<<1, 1>>, <<3, 3>>}, {<<2, 4>>, <<3, 5>>}}

VlanSections ==
    {NotSet, Section(NotSet, NotSet, NotSet, NotSet), Section(NotSet, NotSet, 3, NotSet)}
      \cup {Section("access", NotSet, v, NotSet) : v \in {1, 2, 4}}
      \cup {Section("trunk", NotSet, NotSet, tags) : tags \in TagLists}
      \cup {Section("trunk", TRUE, 3, tags) : tags \in {{<<2, 2>>, <<4, 5>>}, {<<3, 4>>}}}
      \cup {Section("trunk", NotSet, 3, {<<2, 2>>})}     \* refused by sanitize()

(* What the theorem about BridgeVlan assumes of its constants.             *)
ASSUME SectionAssumption == VlanAssumption

-----------------------------------------------------------------------------
(* DnsCache: static groups that share a domain or a name with what is      *)
(* learnt, and a blocking group without servers.                           *)
Server(ip) == [ip |-> ip, dev |-> None, doh |-> FALSE]
Doh(url) == [ip |-> url, dev |-> None, doh |-> TRUE]

DnsLeases ==
    {[servers |-> <<"s1">>, domains |-> {"a"}],
     [servers |-> <<"s2", "s1">>, domains |-> {"a", "b"}],
     [servers |-> <<"s2">>, domains |-> {}],
     [servers |-> <<>>, domains |-> {"b"}]}

Setting(auto, priority, order) == [auto |-> auto, priority |-> priority, order |-> order]

DnsSettings ==
    {("e1" :> Setting(TRUE, 0, 1) @@ "e2" :> Setting(TRUE, 0, 2)),
     ("e1" :> Setting(TRUE, 0, 1) @@ "e2" :> Setting(TRUE, 5, 2)),
     ("e1" :> Setting(FALSE, 9, 1) @@ "e2" :> Setting(TRUE, 0, 2))}

Group(name, domains, servers) ==
    [name |-> name, domains |-> domains, servers |-> servers, from_dhcp |-> FALSE]

Cache(enabled, auto, fallback, groups, doh) ==
    [enabled |-> enabled, auto_dns |-> auto, fallback |-> fallback, groups |-> groups, doh |-> doh]

DnsRequest(server, cache) == [server |-> server, cache |-> cache, malformed |-> None]

Local == <<"127.0.0.1">>

DnsRequests ==
    {DnsRequest(Local, Cache(TRUE, TRUE, <<Server("f")>>, <<>>, None)),
     DnsRequest(Local, Cache(TRUE, TRUE, <<Doh("f")>>, <<Group("home", {"a"}, <<Server("h")>>)>>, <<"f">>)),
     DnsRequest(Local, Cache(TRUE, TRUE, <<Doh("f")>>, <<Group("e1", {"c"}, <<Server("h")>>), Group("block", {"b"}, <<>>)>>, None)),
     DnsRequest(Local, Cache(TRUE, FALSE, <<>>, <<Group("home", {"a"}, <<Server("h")>>), Group("work", {"b"}, <<Server("w")>>)>>, None)),
     DnsRequest(Local, Cache(TRUE, TRUE, <<>>, <<Group("home", {"a"}, <<>>), Group("work", {"a"}, <<>>)>>, None)),
     DnsRequest(Local, Cache(TRUE, TRUE, <<Doh("x")>>, <<>>, None)),
     DnsRequest(<<"9.9.9.9">>, None), DnsRequest(<<>>, None),
     DnsRequest(None, Cache(TRUE, TRUE, <<>>, <<>>, None)),
     DnsRequest(None, Cache(FALSE, TRUE, <<>>, <<>>, None)),
     [DnsRequest(Local, None) EXCEPT !.malformed = "client"],
     [DnsRequest(Local, Cache(TRUE, TRUE, <<>>, <<>>, None)) EXCEPT !.malformed = "upstream"]}

Dn == INSTANCE DnsCache WITH
    conf <- v1, lease <- v2, saved <- v3, running <- v4, fresh <- v5,
    asked <- v6, used <- v7, Iface <- {"e1", "e2"}, Leases <- DnsLeases,
    Confs <- DnsSettings, Requests <- DnsRequests, Bind <- "127.0.0.1",
    Hosts <- {"f"}, MaxApplies <- 3, MaxLeases <- 3

-----------------------------------------------------------------------------
(* Views: two NICs, profiles by name and by MAC address, present or not.   *)
Nic(name, mac, perm) == [name |-> name, mac |-> mac, perm |-> perm]
Saved(name, called, by, mac, state, auto) ==
    [name |-> name, profile |-> called, by |-> by, mac |-> mac, state |-> state, auto |-> auto]

Cards == {Nic("eth0", "m0", "m0"), Nic("eth1", "m1", "m1")}
Profiles == {Saved("eth0", Unset, "name", Unset, "up", Unset),
             Saved("eth0", Unset, "name", Unset, "ignore", Unset),
             Saved("dock", "dock", "mac", "m0", "up", "net"),
             Saved("eth1", "wan", "name", Unset, "up", "net"),
             Saved("lab", "lab", "mac", "m1", "ignore", Unset),
             Saved("eth2", Unset, "name", Unset, "up", Unset)}

OnePerName(S) == \A p, q \in S : p.name = q.name => p = q

Route(dst, via, state) == [dst |-> dst, via |-> via, state |-> state]
Rule(iif, to, state) == [iif |-> iif, table |-> to, state |-> state]

Host(nics, profiles) ==
    [nics |-> nics, saved |-> profiles,
     routes |-> {Route("a", "dock", "up"), Route("b", "eth2", "up"), Route("c", "eth1", "saved")},
     kroutes |-> {Route("a", nic.name, "up") : nic \in {n \in nics : n.mac = "m0"}},
     rules |-> {Rule("wan", 10, "up"), Rule(Unset, 20, "up"), Rule("eth2", 30, "up")},
     krules |-> {[iif |-> nic.name, table |-> 10] : nic \in {n \in nics : n.name = "eth1"}}]

ViewHosts == {Host(nics, profiles) :
              nics \in SUBSET Cards,
              profiles \in {S \in SUBSET Profiles : OnePerName(S) /\ Saved("eth1", "wan", "name", Unset, "up", "net") \in S}}

-----------------------------------------------------------------------------
(* Online: a client that waits for gateways that come and go.              *)
WaitOnline(conditions, timeout_sec) == [conditions |-> conditions, timeout_sec |-> timeout_sec]

WaitConfigs == {WaitOnline({"gateway"}, 13), WaitOnline({"gateway4", "gateway6"}, 3)}

GatewayStates == [ip4 |-> {"down", "up"}, ip6 |-> {"none", "unknown"}]

(* What the theorems of NetworkProofs assume of the constants of Online.   *)
ASSUME WaitAssumption == OnlineAssumption

(* And of the hosts of Views.                                               *)
ASSUME ProfilesAssumption == HostsAssumption

-----------------------------------------------------------------------------
(* Addressing: one interface, two static addresses of a subnet and a lease. *)
A == [ip |-> "a", life |-> "forever"]
B == [ip |-> "b", life |-> "forever"]

FamilyRequests ==
    {"addresses" :> <<A>>, "addresses" :> <<B, A>>,
     "dhcp" :> FALSE @@ "addresses" :> <<A, B>>,
     "enabled" :> FALSE, "dhcp" :> TRUE, "dhcp" :> FALSE}

AddressRequests == [ipv4 |-> FamilyRequests \cup {"auto-gateway" :> FALSE},
               ipv6 |-> FamilyRequests \cup {"autoconf" :> TRUE,
                                     "dhcp" :> FALSE @@ "autoconf" :> FALSE}]

(* What the theorem about Addressing assumes of its constants.             *)
ASSUME RequestAssumption == AddressAssumption

-----------------------------------------------------------------------------
(* Every part stays in one initial state while another one is explored.    *)
PartsInit ==
    /\ part \in Parts /\ Init /\ ViewInit /\ VlanInit /\ AddressInit
    /\ part # "online" => saved = WaitOnline({"gateway"}, 13)
    /\ part # "views" => host = CHOOSE h \in ViewHosts : TRUE
    /\ part # "addresses" => family = "ipv4"
    /\ \/ part = "routes" /\ Ro!Init
       \/ part = "dns" /\ Dn!Init
       \/ /\ part \in {"addresses", "vlans", "views", "online"}
          /\ v1 = None /\ v2 = None /\ v3 = None /\ v4 = None
          /\ v5 = None /\ v6 = None /\ v7 = None

PartsNext ==
    \/ /\ \/ part = "routes" /\ Ro!Next
          \/ part = "dns" /\ Dn!Next
       /\ UNCHANGED <<part, vars, viewVars, vlanVars, addressVars>>
    \/ part = "addresses" /\ AddressNext /\ UNCHANGED <<part, vars, viewVars, vlanVars, slots>>
    \/ part = "vlans" /\ VlanNext /\ UNCHANGED <<part, vars, viewVars, addressVars, slots>>
    \/ part = "views" /\ ViewNext /\ UNCHANGED <<part, vars, vlanVars, addressVars, slots>>
    \/ part = "online" /\ Next /\ UNCHANGED <<part, viewVars, vlanVars, addressVars, slots>>

PartsSpec == PartsInit /\ [][PartsNext]_<<part, vars, viewVars, vlanVars, addressVars, slots>>

-----------------------------------------------------------------------------
(* Properties: those of Online, Views, BridgeVlan and Addressing, and those *)
(* of the other parts, each where its part is explored.                    *)

(* A rollback that completes leaves the static routes and the rules the    *)
(* failed apply found.                                                     *)
RollbackRestoresTables == part = "routes" => Ro!RollbackRestoresTables

(* Leases that come and end leave configured servers in front and nothing  *)
(* of a lease that is over.                                                *)
OnlyCurrentLearnt == part = "dns" => Dn!OnlyCurrentLearnt

(* route.rs, which the code does not do: a route is changed by removing    *)
(* the old entry and adding the new one in a single transaction.           *)
RouteChangedInOneTransaction == part = "routes" => Ro!RouteChangedInOneTransaction

(* merged/dns.rs, which the code does not do: what was learnt by DHCP does *)
(* not become persistent when the output of `npt show` is applied.         *)
LearntNotSaved == part = "dns" => Dn!LearntNotSaved

(* dns/config.rs, which the code does not do: groups that share a domain   *)
(* are merged into one.                                                    *)
DomainInOneGroup == part = "dns" => Dn!DomainInOneGroup
=============================================================================
