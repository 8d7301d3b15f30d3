----------------------------- MODULE Addressing -----------------------------
(***************************************************************************)
(* The IPv4 or IPv6 configuration of one interface.  A request is merged   *)
(* with the profile and with what the kernel and the DHCP client report,   *)
(* and turned into a list of address removals and additions; then the DHCP *)
(* client is started or stopped.  The client installs its leases from a    *)
(* task of its own, which stopping it does not interrupt.                  *)
(*                                                                         *)
(* A configuration is a partial function over enabled, dhcp, autoconf and  *)
(* addresses, a sequence of [ip, life].                                    *)
(***************************************************************************)
EXTENDS Integers, Sequences, Functions, TLC

CONSTANTS
    IpRequests,   \* per family, the requests explored
    MaxIpApplies, \* bound on the requests sent
    MaxLeases,    \* bound on the leases obtained and router advertisements
    MaxIpFaults,  \* bound on the messages the kernel refuses
    MaxIpTries,   \* APPLY_RETRY_MAX
    Nothing       \* no profile, nothing to do

VARIABLES
    family,  \* "ipv4" or "ipv6"
    kern,    \* the addresses of the interface, in kernel order
    client,  \* a DHCP client runs
    job,     \* what a client still has to do to install its lease
    late,    \* that client was stopped meanwhile
    ra,      \* router advertisements are accepted
    profile, \* the saved profile, or Nothing
    tx,      \* the apply in progress
    before,  \* kernel addresses and client at its start
    last,    \* how the last one ended
    used     \* requests and leases so far

addressVars == <<family, kern, client, job, late, ra, profile, tx, before, last, used>>

Address == [ip : STRING, life : {"forever", "lease"}]

Forever(ip) == [ip |-> ip, life |-> "forever"]
Leased(ip) == [ip |-> ip, life |-> "lease"]
LinkLocal == Forever("fe80")
IsAuto(a) == a.life = "lease"

Has(c, o) == o \in DOMAIN c
Is(c, o, v) == Has(c, o) /\ c[o] = v
Without(c, S) == Restrict(c, DOMAIN c \ S)
Over(new, old) == [o \in DOMAIN new \cup DOMAIN old |-> IF o \in DOMAIN new THEN new[o] ELSE old[o]]
Addrs(c) == IF Has(c, "addresses") THEN c["addresses"] ELSE <<>>

\* Requests list addresses.
AddressAssumption ==
    \A f \in DOMAIN IpRequests : \A r \in IpRequests[f] : Addrs(r) \in Seq(Address)

IsEnabled(c) == ~Is(c, "enabled", FALSE)
IsDynamic(c) == IsEnabled(c) /\ (Is(c, "dhcp", TRUE) \/ Is(c, "autoconf", TRUE))
IsStatic(c) == IsEnabled(c) /\ ~IsDynamic(c) /\ Addrs(c) # <<>>

-----------------------------------------------------------------------------
(* What is reported: lifetimes tell static from dynamic addresses. *)

InterfaceIp ==
    LET leased == {a \in Range(kern) : IsAuto(a)}
        dhcp == \E a \in leased : a.ip = "lease"
        slaac == \E a \in leased : a.ip = "slaac"
        flags == IF family = "ipv4" THEN "dhcp" :> dhcp
                 ELSE IF ~dhcp /\ ~slaac THEN "dhcp" :> FALSE @@ "autoconf" :> FALSE
                 ELSE (IF dhcp THEN "dhcp" :> TRUE ELSE <<>>)
                      @@ (IF slaac THEN "autoconf" :> TRUE ELSE <<>>)
    IN  IF kern = <<>> THEN "enabled" :> FALSE
        ELSE "enabled" :> TRUE @@ "addresses" :> kern @@ flags

FillDhcpStates(c) == IF client THEN "enabled" :> TRUE @@ "dhcp" :> TRUE @@ c ELSE c

-----------------------------------------------------------------------------
(* Merging *)

\* From dynamic to static, the addresses kept lose their lifetimes, and the
\* DHCP options go.
PostMerge(new, old) ==
    LET kept == IF IsDynamic(new) THEN new ELSE Without(new, {"auto-gateway"})
    IN
    IF /\ IsDynamic(old) /\ Has(old, "addresses") /\ IsEnabled(new) /\ ~IsDynamic(new)
       /\ \A a \in Range(old["addresses"]) : IsAuto(a) \/ a = LinkLocal
       /\ Has(new, "addresses")
    THEN [kept EXCEPT !["addresses"] = [i \in DOMAIN @ |-> Forever(@[i].ip)]]
    ELSE kept

Merge(des, old) == PostMerge(Over(des, old), old)

Difference(des, cur) ==
    Restrict(des, {o \in DOMAIN des : Has(cur, o) => des[o] # cur[o]})

\* Mutant: the running state tells what is switched from.
FillForApplyFromCurrent(des, cur, old, save) ==
    LET full == IF old = Nothing /\ Has(cur, "addresses") THEN Over(save, Restrict(cur, {"addresses"}))
                ELSE save
        toDynamic == (Is(des, "dhcp", TRUE) \/ Is(des, "autoconf", TRUE)) /\ IsStatic(cur)
        toStatic == /\ IsDynamic(cur) /\ Is(des, "dhcp", FALSE) /\ ~Has(des, "addresses")
                    /\ family = "ipv6" => Is(des, "autoconf", FALSE)
    IN  IF toDynamic \/ toStatic THEN Without(full, {"addresses"}) ELSE full

\* The full configuration: dynamic addresses do not outlive a switch to
\* static, nor static ones a switch to dynamic.
FillForApply(des, cur, old, save) ==
    LET full == IF old = Nothing /\ Has(cur, "addresses") THEN Over(save, Restrict(cur, {"addresses"}))
                ELSE save
        prev == IF old = Nothing THEN cur ELSE old
        toDynamic == (Is(des, "dhcp", TRUE) \/ Is(des, "autoconf", TRUE)) /\ IsStatic(prev)
        toStatic == /\ IsDynamic(prev) /\ Is(des, "dhcp", FALSE) /\ ~Has(des, "addresses")
                    /\ family = "ipv6" => Is(des, "autoconf", FALSE)
    IN  IF toDynamic \/ toStatic THEN Without(full, {"addresses"}) ELSE full

\* IPv6: addresses with a lifetime and link-local ones are not configured.
Kept(a) == family = "ipv4" \/ (~IsAuto(a) /\ a # LinkLocal)

KeptAddrs(s) ==
    LET Upto[n \in 0..Len(s)] ==
          IF n = 0 THEN <<>> ELSE IF Kept(s[n]) THEN Append(Upto[n - 1], s[n]) ELSE Upto[n - 1]
    IN  Upto[Len(s)]

Sanitize(c) ==
    LET void == IF Is(c, "dhcp", TRUE) THEN {} ELSE {"auto-gateway"}
        kept == Without(c, void)
    IN  IF ~IsEnabled(c) THEN [enabled |-> FALSE]
        ELSE IF Has(c, "addresses") THEN [kept EXCEPT !["addresses"] = KeptAddrs(@)]
        ELSE kept

\* for_apply is empty when nothing changes; the profile then stays as merged.
MergedIp(des, cur, old) ==
    LET save == IF old = Nothing THEN des ELSE Merge(des, old)
        full == FillForApply(des, cur, old, save)
    IN  IF Difference(save, cur) = <<>> THEN [apply |-> Nothing, verify |-> des, save |-> save]
        ELSE [apply |-> Sanitize(full), verify |-> Sanitize(des),
              save |-> Sanitize(IF old = Nothing THEN save ELSE full)]

-----------------------------------------------------------------------------
(* The address list *)

Removal(a) == [remove |-> TRUE, addr |-> a]
Addition(a) == [remove |-> FALSE, addr |-> a]
Each(s, Op(_)) == [i \in DOMAIN s |-> Op(s[i])]
Ips(s) == {s[i].ip : i \in DOMAIN s}

\* Addresses are appended, or only their lifetimes change, or all are purged
\* so that they are added in order.
AddressListActions(des, cur) ==
    IF Len(cur) < Len(des) /\ SubSeq(des, 1, Len(cur)) = cur
    THEN Each(SubSeq(des, Len(cur) + 1, Len(des)), Addition)
    ELSE IF Len(cur) = Len(des) /\ Ips(des) \subseteq Ips(cur)
    THEN Each(des, Addition)
    ELSE Each(cur, Removal) \o Each(des, Addition)

\* The link-local address stays while IPv6 does.
IpAddressActions(des, cur) ==
    LET Mine(a) == family = "ipv4" \/ ~IsEnabled(des) \/ a # LinkLocal
        now == IF IsEnabled(cur) THEN SelectSeq(Addrs(cur), Mine) ELSE <<>>
    IN  IF des = Nothing \/ des = cur THEN <<>>
        ELSE AddressListActions(IF IsEnabled(des) THEN Addrs(des) ELSE <<>>, now)

\* The kernel: adding replaces an address where it is; removing the first
\* IPv4 address of a subnet takes the others of it along.
KernelAct(act) ==
    LET at == {i \in DOMAIN kern : kern[i].ip = act.addr.ip}
        Subnet(ip) == IF ip \in {"a", "b"} THEN "static" ELSE ip
        first == \E i \in at : \A j \in 1..(i - 1) : Subnet(kern[j].ip) # Subnet(act.addr.ip)
        Stays(a) == IF family = "ipv4" /\ first THEN Subnet(a.ip) # Subnet(act.addr.ip)
                    ELSE a.ip # act.addr.ip
    IN  IF act.remove THEN SelectSeq(kern, Stays)
        ELSE IF at # {} THEN [i \in DOMAIN kern |-> IF i \in at THEN act.addr ELSE kern[i]]
        ELSE Append(kern, act.addr)

-----------------------------------------------------------------------------
(* An apply: addresses, then the DHCP client, then verification *)

Idle == [pc |-> "idle"]
NotRun == [result |-> "none", des |-> <<>>, persist |-> FALSE, disturbed |-> FALSE,
           since |-> FALSE]
Ended(result) == [result |-> result, des |-> tx.des, persist |-> tx.persist,
                  disturbed |-> tx.disturbed, since |-> FALSE]
Current == FillDhcpStates(InterfaceIp)

AddressInit ==
    /\ family \in DOMAIN IpRequests
    /\ kern = IF family = "ipv6" THEN <<LinkLocal>> ELSE <<>>
    /\ client = FALSE /\ job = Nothing /\ late = FALSE /\ ra = FALSE
    /\ profile = Nothing
    /\ tx = Idle
    /\ before = [kern |-> kern, client |-> FALSE]
    /\ last = NotRun
    /\ used = [applies |-> 0, leases |-> 0, faults |-> 0]

\* apply_ifaces_ip_changes: router advertisements are turned on, never off.
Plan(des, old) ==
    LET m == MergedIp(des, Current, old)
    IN  [apply |-> m.apply, verify |-> m.verify, save |-> m.save,
         acts |-> IpAddressActions(m.apply, Current)]

Request(r, persist) ==
    LET plan == Plan(r, profile)
    IN  /\ tx.pc = "idle" /\ used.applies < MaxIpApplies
        /\ used' = [used EXCEPT !.applies = @ + 1]
        /\ tx' = [pc |-> "addr", des |-> r, persist |-> persist, plan |-> plan,
                  todo |-> plan.acts, tries |-> 1, undo |-> FALSE, disturbed |-> job # Nothing,
                  revert |-> IF plan.apply = Nothing THEN Nothing ELSE Current]
        /\ before' = [kern |-> kern, client |-> client]
        /\ last' = NotRun
        /\ ra' = (ra \/ Is(r, "autoconf", TRUE))
        /\ late' = (late /\ job # Nothing)
        /\ UNCHANGED <<family, kern, client, job, profile>>

AddressStep ==
    /\ tx.pc = "addr"
    /\ kern' = IF tx.todo = <<>> THEN kern ELSE KernelAct(Head(tx.todo))
    /\ tx' = IF tx.todo = <<>> THEN [tx EXCEPT !.pc = "dhcp"]
             ELSE [tx EXCEPT !.todo = Tail(@)]
    /\ UNCHANGED <<family, client, job, late, ra, profile, before, last, used>>

\* The revert is merged with what is now reported and no profile.
BeginRollback ==
    LET plan == Plan(tx.revert, Nothing)
    IN  /\ tx' = IF tx.revert = Nothing THEN Idle
                 ELSE [tx EXCEPT !.pc = "addr", !.plan = plan, !.todo = plan.acts, !.undo = TRUE]
        /\ last' = IF tx.revert = Nothing THEN Ended("failed") ELSE last

\* A refused message is not retried.
AddressRefused ==
    /\ tx.pc = "addr" /\ tx.todo # <<>> /\ ~tx.undo
    /\ used.faults < MaxIpFaults
    /\ used' = [used EXCEPT !.faults = @ + 1]
    /\ BeginRollback
    /\ UNCHANGED <<family, kern, client, job, late, ra, profile, before>>

\* A started client replaces the one running; a stopped one still installs
\* the lease it holds.
ApplyDhcpConfig ==
    LET conf == tx.plan.apply
        touched == conf # Nothing
    IN  /\ tx.pc = "dhcp"
        /\ client' = IF touched THEN IsEnabled(conf) /\ Is(conf, "dhcp", TRUE) ELSE client
        /\ late' = (late \/ (touched /\ job # Nothing))
        /\ tx' = IF tx.undo THEN Idle ELSE [tx EXCEPT !.pc = "verify"]
        /\ last' = IF tx.undo THEN Ended("rolled back") ELSE last
        /\ UNCHANGED <<family, kern, job, ra, profile, before, used>>

\* Order and lifetimes of addresses, and link-local ones, are not compared.
AddressesVerified(des) ==
    LET now == Current @@ "dhcp" :> FALSE
        Set(s) == Ips(s) \ {LinkLocal.ip}
    IN  \A o \in DOMAIN des \ {"auto-gateway"} :
            IF o = "addresses" THEN Set(des[o]) = Set(Addrs(now)) ELSE Is(now, o, des[o])

VerifyAndSave ==
    /\ tx.pc = "verify" /\ AddressesVerified(tx.plan.verify)
    /\ profile' = IF tx.persist THEN tx.plan.save ELSE profile
    /\ last' = Ended("ok")
    /\ tx' = Idle
    /\ UNCHANGED <<family, kern, client, job, late, ra, before, used>>

\* The second attempt repeats the messages of the first.
RetryApply ==
    /\ tx.pc = "verify" /\ ~AddressesVerified(tx.plan.verify) /\ tx.tries < MaxIpTries
    /\ tx' = [tx EXCEPT !.pc = "addr", !.tries = @ + 1, !.todo = tx.plan.acts]
    /\ UNCHANGED <<family, kern, client, job, late, ra, profile, before, last, used>>

Rollback ==
    /\ tx.pc = "verify" /\ ~AddressesVerified(tx.plan.verify) /\ tx.tries = MaxIpTries
    /\ BeginRollback
    /\ UNCHANGED <<family, kern, client, job, late, ra, profile, before, used>>

-----------------------------------------------------------------------------
(* The DHCP client and the router, at any moment *)

\* The applies during which, and after which, an address came from outside.
Disturbed ==
    /\ tx' = IF tx.pc = "idle" THEN tx ELSE [tx EXCEPT !.disturbed = TRUE]
    /\ last' = IF tx.pc = "idle" THEN [last EXCEPT !.since = TRUE] ELSE last

\* A DHCPv4 lease is applied like a request, without profile; a DHCPv6 one
\* is only added, by a client that first has a link-local address made.
ApplyLease ==
    LET conf == "enabled" :> TRUE @@ "dhcp" :> TRUE @@ "addresses" :> <<Leased("lease")>>
    IN  /\ client /\ job = Nothing /\ used.leases < MaxLeases
        /\ used' = [used EXCEPT !.leases = @ + 1]
        /\ job' = IF family = "ipv4"
                  THEN IpAddressActions(MergedIp(conf, InterfaceIp, Nothing).apply, InterfaceIp)
                  ELSE IpAddressActions(conf, <<>>)
        /\ kern' = IF family = "ipv6" /\ LinkLocal \notin Range(kern)
                   THEN Append(kern, LinkLocal) ELSE kern
        /\ late' = FALSE
        /\ Disturbed
        /\ UNCHANGED <<family, client, ra, profile, before>>

LeaseStep ==
    /\ job # Nothing
    /\ kern' = IF job = <<>> THEN kern ELSE KernelAct(Head(job))
    /\ job' = IF job = <<>> THEN Nothing ELSE Tail(job)
    /\ Disturbed
    /\ UNCHANGED <<family, client, late, ra, profile, before, used>>

RouterAdvertisement ==
    /\ ra /\ LinkLocal \in Range(kern) /\ "slaac" \notin Ips(kern)
    /\ used.leases < MaxLeases
    /\ used' = [used EXCEPT !.leases = @ + 1]
    /\ kern' = Append(kern, Leased("slaac"))
    /\ Disturbed
    /\ UNCHANGED <<family, client, job, late, ra, profile, before>>

AddressNext ==
    \/ \E r \in IpRequests[family], persist \in BOOLEAN : Request(r, persist)
    \/ AddressStep \/ AddressRefused \/ ApplyDhcpConfig
    \/ VerifyAndSave \/ RetryApply \/ Rollback
    \/ ApplyLease \/ LeaseStep \/ RouterAdvertisement

AddressSpec == AddressInit /\ [][AddressNext]_addressVars

-----------------------------------------------------------------------------
(* Properties *)

StaticIps(c) == {a.ip : a \in {b \in Range(Addrs(c)) : ~IsAuto(b) /\ b # LinkLocal}}

\* Static addresses leave a static profile only by a request that lists
\* addresses, turns the family off or switches it to automatic: what a partial
\* request leaves out stays saved (BaseInterface::sanitize).
AddressesStayStep ==
    profile # Nothing /\ profile' # profile =>
        \/ StaticIps(profile) \subseteq StaticIps(profile')
        \/ ~IsStatic(profile) \/ Has(tx.des, "addresses") \/ ~IsEnabled(tx.des)
        \/ IsDynamic(tx.des)
SavedAddressesStay == [][AddressesStayStep]_addressVars

=============================================================================
