------------------------------ MODULE Services ------------------------------
(***************************************************************************)
(* The services of the daemon that run beside an apply: the DHCPv4 clients *)
(* (one task per interface), the main loop that reacts to what they report *)
(* (reconcile of saved routes, refresh of the learned DNS data, gateway    *)
(* changes), /etc/resolv.conf and the embedded DNS cache.  An apply writes *)
(* the same resolver and cache under the transaction lock, which the main  *)
(* loop does not take.                                                     *)
(***************************************************************************)
EXTENDS Naturals, Sequences, FiniteSets

CONSTANTS
  Ifaces,        \* interfaces that may run DHCPv4
  Servers,       \* nameserver addresses
  Gateways,      \* default gateways a lease may carry
  Leases,        \* leases: [dns : SUBSET Servers, gateway : Gateways]
  AutoDns,       \* interfaces whose saved ipv4.auto-dns is enabled
  Routed,        \* interfaces with saved static routes
  Resolvers,     \* dns-resolver sections: [static, cache]
  Requests,      \* apply requests: [dns, dhcp]
  None,
  MaxClients,    \* DHCP clients ever started
  MaxEvents      \* leases acquired, applies requested and calls failing

(***************************************************************************)
(* The static client configuration and the cache section of dns-resolver.  *)
(***************************************************************************)
Resolver == [static : SUBSET Servers, cache : {"unset", "off", "on"}]

ASSUME ServiceAssumption ==
  /\ Leases \subseteq [dns : SUBSET Servers, gateway : Gateways]
  /\ AutoDns \subseteq Ifaces /\ Routed \subseteq Ifaces
  /\ Resolvers \subseteq Resolver
  /\ Requests \subseteq [dns : Resolvers \cup {None},
                         dhcp : {"keep", "start", "stop"}, iface : Ifaces]
  /\ {MaxClients, MaxEvents} \subseteq Nat
  /\ None \notin Resolvers \cup Gateways

Clients == 1 .. MaxClients

VARIABLES
  thread,     \* worker.threads: the registered client of an interface, or 0
  client,     \* the tasks, alive or ended
  born,       \* clients started
  gateway,    \* the default route each interface has in the kernel
  lost,       \* interfaces whose saved routes the kernel removed
  msgs,       \* managers_ipc: commands queued for the main loop
  loop,       \* what the main loop is doing
  last,       \* last_auto_dns
  saved,      \* the saved dns-resolver section
  resolv,     \* /etc/resolv.conf: [bind, static, dynamic]
  cache,      \* configuration the running cache server was started with
  pathStale,  \* the cache has not heard of the latest gateway
  apply,      \* the apply holding the transaction lock
  writer,     \* ghost: who wrote resolv.conf last
  overlap,    \* ghost: a refresh and an apply met inside the resolver
  leases, applies, faults

vars == <<thread, client, born, gateway, lost, msgs, loop, last, saved,
          resolv, cache, pathStale, apply, writer, overlap, leases, applies,
          faults>>

-----------------------------------------------------------------------------
(***************************************************************************)
(* DNS data: what the daemon learns, writes and serves.                    *)
(***************************************************************************)
Unborn == [iface |-> None, pc |-> "unborn", quit |-> FALSE,
           state |-> "wait-link-carrier", dns |-> {}, lease |-> None]

\* DnsInfo asks the registered clients for the data of their last lease.
DnsInfo == [i \in {j \in Ifaces : thread[j] # 0 /\ client[thread[j]].dns # {}}
              |-> client[thread[i]].dns]

\* The auto-DNS snapshot: the learned data of interfaces with auto-dns.
CollectAutoDns == [i \in (DOMAIN DnsInfo) \cap AutoDns |-> DnsInfo[i]]

SnapshotServers(s) == UNION {s[i] : i \in DOMAIN s}

\* write_static_dns: a bound cache keeps dynamic nameservers out of the file.
WriteStaticDns(bind, static, dynamic) ==
  [bind |-> bind, static |-> static,
   dynamic |-> IF bind THEN {} ELSE dynamic]

Render(r, s) ==
  WriteStaticDns(r.cache = "on", r.static, SnapshotServers(s))

\* A kernel-only apply knows no saved resolver and no leases.
BareResolver == WriteStaticDns(FALSE, {}, {})

\* The dns manager: an undefined cache section keeps the running server.
ApplyCacheConfig(section, s) ==
  CASE section = "unset" -> cache
    [] section = "off" -> None
    [] section = "on" -> [auto |-> SnapshotServers(s)]

\* MergedDnsResolver: the section to save, undefined parts inherited.
MergeDns(want) ==
  IF want = None THEN saved
  ELSE [static |-> want.static,
        cache |-> IF want.cache = "unset" THEN saved.cache ELSE want.cache]

-----------------------------------------------------------------------------
\* An apply: the request, the snapshot it works with, the host nameservers it
\* found, whether DHCP ran before and was changed, and the attempt.
NoApply == [pc |-> "idle", want |-> None, snap |-> <<>>, before |-> {},
            had |-> FALSE, ran |-> FALSE, attempt |-> 1]

Init ==
  /\ saved \in Resolvers
  /\ thread = [i \in Ifaces |-> 0]
  /\ client = [c \in Clients |-> Unborn]
  /\ born = 0 /\ leases = 0 /\ applies = 0 /\ faults = 0
  /\ gateway = [i \in Ifaces |-> None]
  /\ lost = {}
  /\ msgs = <<>>
  /\ loop = [pc |-> "idle", saved |-> None, snap |-> <<>>]
  /\ last = <<>>
  /\ resolv = BareResolver
  /\ cache = None
  /\ pathStale = FALSE
  /\ apply = [NoApply EXCEPT !.pc = "boot"]
  /\ writer = "none"
  /\ overlap = FALSE

EventLeft == leases + applies + faults < MaxEvents

Fault == EventLeft /\ faults' = faults + 1

\* A refresh holds data it collected, an apply has not saved what it wrote.
LoopMid == loop.pc \in {"write", "cache"}
ApplyMid == apply.pc \in {"write", "cache", "dhcp", "verify", "rollback"}

-----------------------------------------------------------------------------
(***************************************************************************)
(* The DHCPv4 client task.                                                 *)
(***************************************************************************)
ClientFrame == UNCHANGED <<thread, born, loop, last, saved, cache, apply,
                           overlap, applies>>

\* wait_link_carrier_up returns; it does not watch the quit indicator.
CarrierUp(c) ==
  /\ client[c].pc = "carrier"
  /\ client' = [client EXCEPT ![c].pc = "run", ![c].state = "running"]
  /\ UNCHANGED <<gateway, lost, msgs, resolv, pathStale, writer, leases,
                 faults>>
  /\ ClientFrame

\* The wait fails: the task ends without touching its shared state.
CarrierFails(c) ==
  /\ client[c].pc = "carrier"
  /\ Fault
  /\ client' = [client EXCEPT ![c].pc = "dead"]
  /\ UNCHANGED <<gateway, lost, msgs, resolv, pathStale, writer, leases>>
  /\ ClientFrame

\* client.run() is Done(lease): state and DNS data are stored before the
\* lease is applied.
GetLease(c, l) ==
  /\ client[c].pc = "run"
  /\ EventLeft
  /\ leases' = leases + 1
  /\ client' = [client EXCEPT ![c].pc = "install", ![c].state = "done",
                              ![c].dns = l.dns, ![c].lease = l]
  /\ UNCHANGED <<gateway, lost, msgs, resolv, pathStale, writer, faults>>
  /\ ClientFrame

\* What the client reports after a lease; the default route it had before
\* tells whether the gateway changed.
LeaseMessages(i, g) ==
  IF gateway[i] = g THEN <<<<"LeaseApplied", i>>>>
  ELSE <<<<"LeaseApplied", i>>, <<"GatewayChanged", i>>>>

\* apply_lease through the kernel-only apply, which also rewrites the
\* resolver; the kernel may drop the saved routes with the old address.
InstallLease(c) ==
  LET i == client[c].iface
      g == client[c].lease.gateway
  IN
  /\ client[c].pc = "install"
  /\ client' = [client EXCEPT ![c].pc = "run", ![c].lease = None]
  /\ gateway' = [gateway EXCEPT ![i] = g]
  /\ \/ lost' = lost \cup ({i} \cap Routed)
     \/ lost' = lost
  /\ resolv' = BareResolver
  /\ writer' = "bare"
  /\ msgs' = msgs \o LeaseMessages(i, g)
  /\ pathStale' = (pathStale \/ (cache # None /\ gateway[i] # g))
  /\ UNCHANGED <<leases, faults>>
  /\ ClientFrame

\* The lease cannot be applied: the client stops and reports the error.
InstallFails(c) ==
  /\ client[c].pc = "install"
  /\ Fault
  /\ client' = [client EXCEPT ![c].pc = "dead", ![c].state = "error"]
  /\ UNCHANGED <<gateway, lost, msgs, resolv, pathStale, writer, leases>>
  /\ ClientFrame

\* A hard error of client.run(): clean up, sleep, then start a new client.
RunFails(c) ==
  /\ client[c].pc = "run"
  /\ Fault
  /\ client' = [client EXCEPT ![c].pc = "sleep", ![c].state = "running"]
  /\ UNCHANGED <<gateway, lost, msgs, resolv, pathStale, writer, leases>>
  /\ ClientFrame

WakeUp(c) ==
  /\ client[c].pc = "sleep"
  /\ client' = [client EXCEPT ![c].pc = "reinit"]
  /\ UNCHANGED <<gateway, lost, msgs, resolv, pathStale, writer, leases,
                 faults>>
  /\ ClientFrame

\* init_dhcpv4_client_for_retry waits for the carrier again.
Reinit(c) ==
  /\ client[c].pc = "reinit"
  /\ client' = [client EXCEPT ![c].pc = "run"]
  /\ UNCHANGED <<gateway, lost, msgs, resolv, pathStale, writer, leases,
                 faults>>
  /\ ClientFrame

ReinitFails(c) ==
  /\ client[c].pc = "reinit"
  /\ Fault
  /\ client' = [client EXCEPT ![c].pc = "dead", ![c].state = "error"]
  /\ UNCHANGED <<gateway, lost, msgs, resolv, pathStale, writer, leases>>
  /\ ClientFrame

\* The quit sender was dropped; only the two select! points look at it.
\* Nobody can reach the data of an unregistered client any more.
Quit(c) ==
  /\ client[c].quit
  /\ client[c].pc \in {"run", "sleep"}
  /\ client' = [client EXCEPT ![c] = [Unborn EXCEPT !.pc = "dead"]]
  /\ UNCHANGED <<gateway, lost, msgs, resolv, pathStale, writer, leases,
                 faults>>
  /\ ClientFrame

-----------------------------------------------------------------------------
(***************************************************************************)
(* The main loop.                                                          *)
(***************************************************************************)
LoopFrame == UNCHANGED <<thread, client, born, gateway, saved, apply,
                         leases, applies>>

\* Mutant: only the DNS data is refreshed.
HandleLeaseNoRoutes ==
  /\ loop.pc = "idle" /\ msgs # <<>> /\ Head(msgs)[1] = "LeaseApplied"
  /\ msgs' = Tail(msgs)
  /\ loop' = [loop EXCEPT !.pc = "collect"]
  /\ UNCHANGED <<lost, resolv, writer, faults, last, cache, pathStale, overlap>>
  /\ LoopFrame

\* DhcpV4LeaseApplied: re-apply the saved routes of the interface, then
\* refresh.  With no saved route nothing is applied.
HandleLeaseApplied ==
  /\ loop.pc = "idle" /\ msgs # <<>> /\ Head(msgs)[1] = "LeaseApplied"
  /\ msgs' = Tail(msgs)
  /\ loop' = [loop EXCEPT !.pc = "collect"]
  /\ IF Head(msgs)[2] \in Routed
       THEN \/ /\ lost' = lost \ {Head(msgs)[2]}
               /\ resolv' = BareResolver
               /\ writer' = "bare"
               /\ UNCHANGED faults
            \/ /\ Fault
               /\ UNCHANGED <<lost, resolv, writer>>
       ELSE UNCHANGED <<lost, resolv, writer, faults>>
  /\ UNCHANGED <<last, cache, pathStale, overlap>>
  /\ LoopFrame

\* GatewayChanged: the cache retries its dead upstreams.
HandleGatewayChanged ==
  /\ loop.pc = "idle" /\ msgs # <<>> /\ Head(msgs)[1] = "GatewayChanged"
  /\ msgs' = Tail(msgs)
  /\ pathStale' = FALSE
  /\ UNCHANGED <<lost, loop, last, resolv, cache, writer, overlap, faults>>
  /\ LoopFrame

\* refresh_auto_dns, from the timer of an idle loop or after a lease: an
\* unchanged snapshot ends it, a new one is recorded before it is applied.
RefreshAutoDns ==
  /\ loop.pc \in {"idle", "collect"}
  /\ IF CollectAutoDns = last
       THEN /\ loop' = [loop EXCEPT !.pc = "idle"]
            /\ UNCHANGED <<last, overlap>>
       ELSE /\ loop' = [loop EXCEPT !.pc = "write", !.snap = CollectAutoDns,
                                    !.saved = saved]
            /\ last' = CollectAutoDns
            /\ overlap' = (overlap \/ ApplyMid)
  /\ UNCHANGED <<lost, msgs, resolv, cache, pathStale, writer, faults>>
  /\ LoopFrame

RefreshResolver ==
  /\ loop.pc = "write"
  /\ resolv' = Render(loop.saved, loop.snap)
  /\ writer' = "refresh"
  /\ loop' = [loop EXCEPT !.pc = "cache"]
  /\ UNCHANGED <<lost, msgs, last, cache, pathStale, overlap, faults>>
  /\ LoopFrame

\* Mutant: a running server is not restarted with the new upstreams.
RefreshKeepsServer ==
  /\ loop.pc = "cache"
  /\ loop' = [loop EXCEPT !.pc = "idle", !.saved = None, !.snap = <<>>]
  /\ cache' = IF cache # None THEN cache
              ELSE ApplyCacheConfig(loop.saved.cache, loop.snap)
  /\ UNCHANGED <<lost, msgs, last, resolv, pathStale, writer, overlap, faults>>
  /\ LoopFrame

\* The worker stops the old server before it starts the new one, so a
\* failed start leaves no server.  A new server has no dead upstreams.
RefreshCache ==
  /\ loop.pc = "cache"
  /\ loop' = [loop EXCEPT !.pc = "idle", !.saved = None, !.snap = <<>>]
  /\ \/ /\ cache' = ApplyCacheConfig(loop.saved.cache, loop.snap)
        /\ pathStale' = (pathStale /\ loop.saved.cache = "unset")
        /\ UNCHANGED faults
     \/ /\ loop.saved.cache = "on" /\ Fault
        /\ cache' = None /\ pathStale' = FALSE
  /\ UNCHANGED <<lost, msgs, last, resolv, writer, overlap>>
  /\ LoopFrame

\* The resolver cannot be written: the snapshot stays recorded.
RefreshFails ==
  /\ loop.pc = "write"
  /\ Fault
  /\ loop' = [loop EXCEPT !.pc = "idle", !.saved = None, !.snap = <<>>]
  /\ UNCHANGED <<lost, msgs, last, resolv, cache, pathStale, writer, overlap>>
  /\ LoopFrame

-----------------------------------------------------------------------------
(***************************************************************************)
(* The apply, holding the transaction lock.                                *)
(***************************************************************************)
ApplyFrame == UNCHANGED <<gateway, lost, msgs, loop, last, leases>>

\* Boot restores the saved resolver and starts the cache; a failure is
\* logged and does not stop the boot.
RestoreSavedDns ==
  /\ apply.pc = "boot"
  /\ apply' = [apply EXCEPT !.pc = "idle"]
  /\ \/ /\ saved = [static |-> {}, cache |-> "unset"]
        /\ UNCHANGED <<resolv, writer, cache, faults>>
     \/ /\ saved # [static |-> {}, cache |-> "unset"]
        /\ resolv' = Render(saved, CollectAutoDns)
        /\ writer' = "apply"
        /\ \/ cache' = ApplyCacheConfig(saved.cache, CollectAutoDns)
              /\ UNCHANGED faults
           \/ saved.cache = "on" /\ Fault /\ cache' = None
  /\ UNCHANGED <<thread, client, born, saved, pathStale, overlap, applies>>
  /\ ApplyFrame

\* A request arrives: the resolver of the host is captured for a rollback.
BeginApply(r) ==
  /\ apply.pc = "idle" /\ EventLeft /\ born + 2 =< MaxClients
  /\ applies' = applies + 1
  /\ apply' = [NoApply EXCEPT
                 !.pc = "collect", !.want = r, !.had = (thread[r.iface] # 0),
                 !.before = (resolv.static \cup resolv.dynamic)
                              \ (saved.static \cup MergeDns(r.dns).static)]
  /\ UNCHANGED <<thread, client, born, saved, resolv, cache, pathStale,
                 writer, overlap, faults>>
  /\ ApplyFrame

ApplyCollect ==
  /\ apply.pc = "collect"
  /\ apply' = [apply EXCEPT !.pc = "write", !.snap = CollectAutoDns]
  /\ overlap' = (overlap \/ LoopMid)
  /\ UNCHANGED <<thread, client, born, saved, resolv, cache, pathStale,
                 writer, applies, faults>>
  /\ ApplyFrame

\* apply_dns: resolv.conf is written even when dns-resolver is not mentioned.
ApplyResolver ==
  /\ apply.pc = "write"
  /\ resolv' = Render(MergeDns(apply.want.dns), apply.snap)
  /\ writer' = "apply"
  /\ apply' = [apply EXCEPT !.pc = IF apply.want.dns = None THEN "dhcp"
                                                            ELSE "cache"]
  /\ UNCHANGED <<thread, client, born, saved, cache, pathStale, overlap,
                 applies, faults>>
  /\ ApplyFrame

\* Only the cache section of the request is applied.
ApplyCache ==
  /\ apply.pc = "cache"
  /\ apply' = [apply EXCEPT !.pc = "dhcp"]
  /\ cache' = ApplyCacheConfig(apply.want.dns.cache, apply.snap)
  /\ pathStale' = (pathStale /\ apply.want.dns.cache = "unset")
  /\ UNCHANGED <<thread, client, born, saved, resolv, writer, overlap,
                 applies, faults>>
  /\ ApplyFrame

\* threads.remove and threads.insert drop the sender the old task watches.
StopClient(i) ==
  /\ thread' = [thread EXCEPT ![i] = 0]
  /\ client' = [c \in Clients |->
                  IF c = thread[i] THEN [client[c] EXCEPT !.quit = TRUE]
                  ELSE client[c]]
  /\ UNCHANGED born

StartClient(i) ==
  /\ born < MaxClients
  /\ born' = born + 1
  /\ thread' = [thread EXCEPT ![i] = born + 1]
  /\ client' = [c \in Clients |->
                  CASE c = born + 1 -> [Unborn EXCEPT !.iface = i,
                                                      !.pc = "carrier"]
                    [] c = thread[i] -> [client[c] EXCEPT !.quit = TRUE]
                    [] OTHER -> client[c]]

DhcpConfig(op, i) ==
  \/ op = "start" /\ StartClient(i)
  \/ op = "stop" /\ StopClient(i)
  \/ op = "keep" /\ UNCHANGED <<thread, client, born>>

ApplyDhcp ==
  /\ apply.pc = "dhcp"
  /\ apply' = [apply EXCEPT !.pc = "verify", !.ran = TRUE]
  /\ DhcpConfig(apply.want.dhcp, apply.want.iface)
  /\ UNCHANGED <<saved, resolv, cache, pathStale, writer, overlap, applies,
                 faults>>
  /\ ApplyFrame

\* verify_dns: a mentioned resolver must still be in /etc/resolv.conf.
VerifyDns ==
  apply.want.dns # None =>
    /\ MergeDns(apply.want.dns).static
         \subseteq resolv.static \cup resolv.dynamic
    /\ apply.want.dns.cache = "on" => resolv.bind

\* Verified: the merged state is saved.
ApplySave ==
  /\ apply.pc = "verify" /\ VerifyDns
  /\ saved' = MergeDns(apply.want.dns)
  /\ apply' = NoApply
  /\ UNCHANGED <<thread, client, born, resolv, cache, pathStale, writer,
                 overlap, applies, faults>>
  /\ ApplyFrame

\* The whole apply is tried a second time for a retriable error.
RetryOrRollback ==
  \/ apply.attempt = 1
     /\ apply' = [apply EXCEPT !.pc = "collect", !.attempt = 2]
  \/ apply' = [apply EXCEPT !.pc = "rollback"]

\* A step fails.  A failed cache start has already stopped the old server.
ApplyFails ==
  /\ apply.pc \in {"write", "cache", "dhcp", "verify"}
  /\ Fault
  /\ RetryOrRollback
  /\ IF apply.pc = "cache" /\ apply.want.dns.cache = "on"
       THEN cache' = None /\ pathStale' = FALSE
       ELSE UNCHANGED <<cache, pathStale>>
  /\ UNCHANGED <<thread, client, born, saved, resolv, writer, overlap,
                 applies>>
  /\ ApplyFrame

\* Another writer replaced the resolver and the verification gives up.
VerifyFails ==
  /\ apply.pc = "verify" /\ ~VerifyDns
  /\ faults' = faults + 1
  /\ RetryOrRollback
  /\ UNCHANGED <<thread, client, born, saved, resolv, cache, pathStale,
                 writer, overlap, applies>>
  /\ ApplyFrame

\* The DHCP part of the revert state.
Undo ==
  CASE ~apply.ran -> "keep"
    [] apply.want.dhcp = "start" /\ ~apply.had -> "stop"
    [] apply.want.dhcp = "stop" /\ apply.had -> "start"
    [] OTHER -> "keep"

\* rollback: resolv.conf from the captured resolver, which carries no static
\* section and no cache, so the running cache is kept; then DHCP.  A failure
\* on the way leaves the rest undone.
Rollback ==
  /\ apply.pc = "rollback"
  /\ apply' = NoApply
  /\ \/ /\ resolv' = WriteStaticDns(FALSE, {}, apply.before)
        /\ writer' = "rollback"
        /\ DhcpConfig(Undo, apply.want.iface)
        /\ UNCHANGED faults
     \/ /\ Fault
        /\ UNCHANGED <<resolv, writer, thread, client, born>>
  /\ UNCHANGED <<saved, cache, pathStale, overlap, applies>>
  /\ ApplyFrame

-----------------------------------------------------------------------------
ClientStep(c) ==
  \/ CarrierUp(c) \/ CarrierFails(c)
  \/ \E l \in Leases : GetLease(c, l)
  \/ InstallLease(c) \/ InstallFails(c)
  \/ RunFails(c) \/ WakeUp(c) \/ Reinit(c) \/ ReinitFails(c) \/ Quit(c)

LoopStep ==
  \/ HandleLeaseApplied \/ HandleGatewayChanged \/ RefreshAutoDns
  \/ RefreshResolver \/ RefreshCache \/ RefreshFails

ApplyStep ==
  \/ RestoreSavedDns
  \/ \E r \in Requests : BeginApply(r)
  \/ ApplyCollect \/ ApplyResolver \/ ApplyCache \/ ApplyDhcp \/ ApplySave
  \/ ApplyFails \/ VerifyFails \/ Rollback

Next ==
  \/ \E c \in Clients : ClientStep(c)
  \/ LoopStep
  \/ ApplyStep

Spec == Init /\ [][Next]_vars

\* The main loop keeps running: it takes its messages in order, serves its
\* timer and ends a refresh it has begun.  Carriers, leases and failures are up
\* to the world.
FairSpec == Spec /\ WF_vars(LoopStep)

-----------------------------------------------------------------------------
Quiet == loop.pc = "idle" /\ apply.pc = "idle" /\ faults = 0 /\ ~overlap

\* refresh_auto_dns (daemon.rs) keeps the host resolver current: when the
\* loop and the apply are idle, nothing failed, the two never met inside the
\* resolver and no later writer replaced the file, resolv.conf holds the
\* saved static section with the nameservers of the current leases, and the
\* cache serves those upstreams.
RefreshedResolverIsCurrent ==
  (Quiet /\ writer = "refresh" /\ last = CollectAutoDns)
    => /\ resolv = Render(saved, last)
       /\ saved.cache = "on" => cache = [auto |-> SnapshotServers(last)]
       /\ saved.cache = "off" => cache = None

Unrouted(i) == i \in lost /\ faults = 0

\* DhcpV4LeaseApplied (daemon.rs): saved routes the kernel removed with an
\* old address come back without another apply, unless a call failed.
SavedRoutesRestored == \A i \in Ifaces : Unrouted(i) ~> ~Unrouted(i)

\* dns.md: the resolver of the host is the static configuration combined
\* with what the leases teach.  In a settled, fault-free daemon resolv.conf
\* should be that combination whoever wrote it last.
ResolverKeepsSaved ==
  (Quiet /\ msgs = <<>> /\ last = CollectAutoDns
     /\ \A c \in Clients : client[c].pc # "install")
    => resolv = Render(saved, last)
=============================================================================
