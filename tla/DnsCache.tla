------------------------------- MODULE DnsCache -------------------------------
(***************************************************************************)
(* What the DNS cache forwards to whom: the `dns-resolver` section of a     *)
(* request (lib/schema/dns.rs, merged/dns.rs), the name servers and domains *)
(* learnt by DHCP (daemon/dns_auto.rs), the upstream groups made of both    *)
(* (daemon/dns/config.rs) and the section that `npt show` prints, which can *)
(* be applied again.                                                        *)
(*                                                                         *)
(* When the steps of an apply or a refresh happen, and what is left when    *)
(* one fails, is the subject of Services: here each is one step.            *)
(***************************************************************************)
EXTENDS Naturals, Sequences, SequencesExt, FiniteSetsExt

CONSTANTS
    None,           \* not set
    Iface,          \* interfaces with a DHCP client
    Leases,         \* what a lease may carry: [servers, domains]
    Confs,          \* settings of the interfaces: Iface -> [auto, priority, order]
    Requests,       \* `dns-resolver` sections of clients
    Bind,           \* the address the cache listens on
    Hosts,          \* the DoH servers that /etc/hosts names
    MaxApplies,     \* bound on requests
    MaxLeases       \* bound on leases

VARIABLES
    conf,           \* the settings in use, one of Confs
    lease,          \* Iface -> a lease or None
    saved,          \* the saved section: [server, cache]
    running,        \* the configuration of the running cache, or None
    fresh,          \* whether the cache was configured since the last lease
    asked,          \* names and servers of the groups that clients wrote
    used            \* requests and leases so far

vars == <<conf, lease, saved, running, fresh, asked, used>>

(* A generated group is named after its interface.  A name server as it is   *)
(* written has a `dev` when it is bound to an interface.                      *)
Server(ip) == [ip |-> ip, dev |-> None, doh |-> FALSE]
Doh(url) == [ip |-> url, dev |-> None, doh |-> TRUE]
Bound(ip, i) == [ip |-> ip, dev |-> i, doh |-> FALSE]

Union(s, t) == s \o SelectSeq(t, LAMBDA e : e \notin ToSet(s))

-----------------------------------------------------------------------------
(* Highest priority first, then the order of the saved interfaces.           *)
Before(i, j) ==
    \/ conf[i].priority > conf[j].priority
    \/ conf[i].priority = conf[j].priority /\ conf[i].order < conf[j].order

AutoIfaces(l) ==
    SetToSortSeq({i \in Iface : l[i] # None /\ conf[i].auto
                                 /\ (l[i].servers # <<>> \/ l[i].domains # {})}, Before)

BoundServers(l, i) == [n \in DOMAIN l[i].servers |-> Bound(l[i].servers[n], i)]

gen_dhcp_group(l, i) ==
    [name |-> i, domains |-> l[i].domains, servers |-> BoundServers(l, i), from_dhcp |-> TRUE]

collect_auto_dns(l) ==
    LET ifaces == AutoIfaces(l)
    IN [servers |-> FlattenSeq([n \in DOMAIN ifaces |-> BoundServers(l, ifaces[n])]),
        groups |-> LET named == SelectSeq(ifaces, LAMBDA i : l[i].domains # {} /\ l[i].servers # <<>>)
                   IN [n \in DOMAIN named |-> gen_dhcp_group(l, named[n])]]

-----------------------------------------------------------------------------
(* dns/config.rs                                                            *)
Joined(group, auto) ==
    [group EXCEPT !.servers = Union(@, auto.servers), !.domains = @ \cup auto.domains]

(* One round of merge_groups(): into the first group with one of the         *)
(* domains, else into the one of that name.                                  *)
MergeGroup(groups, auto) ==
    LET same == {n \in DOMAIN groups : groups[n].domains \cap auto.domains # {}}
        named == {n \in DOMAIN groups : groups[n].name = auto.name}
        into == IF same # {} THEN same ELSE named
    IN IF into = {} THEN Append(groups, auto)
       ELSE [groups EXCEPT ![Min(into)] = Joined(@, auto)]

merge_groups(static, auto) == FoldLeft(MergeGroup, static, auto)

(* NipartDnsServerConfig::new()                                              *)
ServerConfig(cache, l) ==
    LET auto == IF cache.auto_dns THEN collect_auto_dns(l) ELSE [servers |-> <<>>, groups |-> <<>>]
    IN [static |-> cache, fallback |-> cache.fallback, learnt |-> auto.servers,
        groups |-> merge_groups(cache.groups, auto.groups)]

(* The servers for a domain that no group has.                               *)
Upstreams(config) == config.fallback \o config.learnt

to_schema_config(config) ==
    [config.static EXCEPT !.enabled = TRUE, !.groups = config.groups]

(* apply_config()                                                            *)
Running(cache, l) ==
    IF cache = None THEN running
    ELSE IF ~cache.enabled THEN None ELSE ServerConfig(cache, l)

-----------------------------------------------------------------------------
(* schema/dns.rs and merged/dns.rs                                          *)
Static(groups) == SelectSeq(groups, LAMBDA g : ~g.from_dhcp)

DohServers(cache) ==
    {s \in ToSet(cache.fallback) \cup UNION {ToSet(g.servers) : g \in ToSet(cache.groups)} : s.doh}

(* use_doh_validation(): a DoH server needs plain servers to be resolved by, *)
(* or a line of /etc/hosts.                                                  *)
CacheRefused(cache) ==
    LET static == Static(cache.groups)
    IN \/ \E m, n \in DOMAIN static : m < n /\
            (static[m].name = static[n].name \/ static[m].domains \cap static[n].domains # {})
       \/ cache.doh = <<>>
       \/ cache.doh = None /\ \E s \in DohServers(cache) : s.ip \notin Hosts

(* What a text that does not parse stands in: a server, a search domain or   *)
(* an option of the client, or a server or a domain of the cache.            *)
ClientRefused(req) == req.malformed = "client" /\ req.server # None
UpstreamRefused(req) == req.malformed = "upstream" /\ req.cache # None

(* DnsResolver::validate(): the cache has to be the first server.            *)
Refused(req) ==
    \/ ClientRefused(req) \/ UpstreamRefused(req)
    \/ /\ req.cache # None
       /\ \/ CacheRefused(req.cache)
          \/ req.cache.enabled /\ (req.server \in {None, <<>>} \/ req.server[1] # Bind)

strip_from_dhcp_groups(cache) ==
    IF cache = None THEN None ELSE [cache EXCEPT !.groups = Static(@)]

(* The servers of the request or else the saved ones; `config: {}` is the    *)
(* empty list.                                                               *)
Apply(req) ==
    LET cache == strip_from_dhcp_groups(req.cache)
    IN /\ used.applies < MaxApplies
       /\ used' = [used EXCEPT !.applies = @ + 1]
       /\ IF Refused(req) THEN UNCHANGED <<saved, running, fresh>>
          ELSE /\ saved' = [server |-> IF req.server = None THEN saved.server ELSE req.server,
                            cache |-> IF cache = None THEN saved.cache ELSE cache]
               /\ running' = Running(cache, lease)
               /\ fresh' = (fresh \/ cache # None)
       /\ UNCHANGED <<conf, lease>>

Written(req) ==
    LET groups == IF req.cache = None THEN {} ELSE ToSet(req.cache.groups)
    IN [names |-> asked.names \cup {g.name : g \in groups},
        servers |-> asked.servers \cup UNION {ToSet(g.servers) : g \in groups}]

ClientApply == \E req \in Requests : Apply(req) /\ asked' = Written(req)

(* fill_running_dns_cache(): the saved section with the running cache.       *)
Shown ==
    [server |-> saved.server, malformed |-> None,
     cache |-> IF running = None THEN saved.cache ELSE to_schema_config(running)]

(* A client applies what `npt show` printed.                                 *)
ApplyShown == Apply(Shown) /\ UNCHANGED asked

-----------------------------------------------------------------------------
(* A lease comes, changes or ends.                                           *)
LeaseChanges ==
    /\ used.leases < MaxLeases
    /\ \E i \in Iface, l \in Leases \cup {None} : l # lease[i] /\ lease' = [lease EXCEPT ![i] = l]
    /\ fresh' = FALSE
    /\ used' = [used EXCEPT !.leases = @ + 1]
    /\ UNCHANGED <<conf, saved, running, asked>>

RefreshFromRunning ==
    /\ ~fresh
    /\ running' = Running(IF running = None THEN saved.cache ELSE to_schema_config(running), lease)
    /\ fresh' = TRUE
    /\ UNCHANGED <<conf, lease, saved, asked, used>>

(* apply_auto_dns_snapshot()                                                 *)
Refresh ==
    /\ ~fresh
    /\ running' = Running(saved.cache, lease)
    /\ fresh' = TRUE
    /\ UNCHANGED <<conf, lease, saved, asked, used>>

(* restore_saved_dns_resolver() of a daemon that starts without leases.      *)
Restart ==
    /\ lease' = [i \in Iface |-> None]
    /\ running' = (IF saved.cache = None \/ ~saved.cache.enabled THEN None ELSE ServerConfig(saved.cache, lease'))
    /\ fresh' = TRUE
    /\ UNCHANGED <<conf, saved, asked, used>>

Init ==
    /\ conf \in Confs
    /\ lease = [i \in Iface |-> None]
    /\ saved = [server |-> <<>>, cache |-> None]
    /\ running = None
    /\ fresh = TRUE
    /\ asked = [names |-> {}, servers |-> {}]
    /\ used = [applies |-> 0, leases |-> 0]

Next == ClientApply \/ ApplyShown \/ LeaseChanges \/ Refresh \/ Restart

Spec == Init /\ [][Next]_vars

-----------------------------------------------------------------------------
Groups == IF running = None THEN {} ELSE ToSet(running.groups)

(* Leases that come, change and end leave the servers a client configured in *)
(* front, and nothing of a lease that is over.                               *)
OnlyCurrentLearnt ==
    fresh /\ running # None =>
        /\ IsPrefix(running.static.fallback, Upstreams(running))
        /\ \A n \in DOMAIN running.static.groups :
             IsPrefix(running.static.groups[n].servers, running.groups[n].servers)
        /\ \A s \in ToSet(Upstreams(running)) \cup UNION {ToSet(g.servers) : g \in Groups} :
             \/ s.dev # None /\ lease[s.dev] # None /\ s \in ToSet(BoundServers(lease, s.dev))
             \/ s \in ToSet(saved.cache.fallback)
             \/ \E n \in DOMAIN saved.cache.groups : s \in ToSet(saved.cache.groups[n].servers)

(* merged/dns.rs: what was learnt by DHCP does not become persistent when    *)
(* the output of `npt show` is applied.                                      *)
LearntNotSaved ==
    saved.cache # None => \A n \in DOMAIN saved.cache.groups :
        ToSet(saved.cache.groups[n].servers) \subseteq asked.servers

(* dns/config.rs: groups that share a domain are merged into one.            *)
DomainInOneGroup == \A g, h \in Groups : g.domains \cap h.domains # {} => g = h

===============================================================================
