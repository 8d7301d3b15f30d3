----------------------------- MODULE LinkConfig -----------------------------
(***************************************************************************)
(* The life of one interface's configuration: a partial request is merged  *)
(* with the saved profile, cut down to what differs from the kernel,       *)
(* sanitized by the interface's type, sent as netlink messages (after      *)
(* deleting a link that cannot be changed in place), verified against what *)
(* the kernel reports, and saved or rolled back.  The host may restart at  *)
(* any point, which loses every virtual link and applies the saved profile.*)
(*                                                                         *)
(* A configuration is a partial function from options to values: an option *)
(* outside its domain is a `None` field.  Every option stands for the      *)
(* fields of the type that the code treats alike; 0 is the kernel's        *)
(* default (false, an empty list), other numbers are distinct values.      *)
(***************************************************************************)
EXTENDS Integers, Functions, TLC

CONSTANTS
    Types,       \* the interface types explored
    Requests,    \* Requests[t]: the configurations clients may ask of a t
    MaxApplies,  \* bound on the requests sent
    MaxFaults,   \* bound on the netlink messages the kernel refuses
    MaxTries,    \* APPLY_RETRY_MAX: how often an apply is attempted
    None         \* no link, no profile, nothing to do

VARIABLES
    type,    \* the interface type
    link,    \* the kernel link: None or [id, opts]
    saved,   \* the saved profile: None or a configuration
    tx,      \* the apply transaction in progress
    asked,   \* what the accepted persistent requests asked, since creation
    before,  \* the link at the start of the transaction
    last,    \* how the last transaction ended
    used     \* requests, faults and links so far

vars == <<type, link, saved, tx, asked, before, last, used>>

-----------------------------------------------------------------------------
(* The options of each type. *)

BaseInterface == {"state", "mtu"}

\* miimon stands for the options any mode accepts.
BondConfig == {"mode", "miimon", "lacp-rate", "ports"}
BondOptions == {"miimon", "lacp-rate"}
LACP == 2

\* forward-delay stands for the STP timers, hash-max for the plain options.
LinuxBridgeConfig == {"stp", "forward-delay", "hash-max", "ports"}

\* flags stands for reorder-headers, loose-binding, bridge-binding and the
\* registration protocol.
VlanConfig == {"id", "base-iface", "flags", "qos-map"}

VrfConfig == {"table-id", "ports"}

\* learning stands for the options changed in place, gbp for the flags only
\* their presence sets.
VxlanConfig == {"id", "base-iface", "learning", "gbp", "src-port-min", "src-port-max"}

\* encrypt stands for the options changed in place; the port component of an
\* SCI is the SCI itself.
MacSecConfig == {"base-iface", "port", "sci", "encrypt", "mka"}

WireguardConfig == {"private-key", "listen-port", "peers"}

VethConfig == {"peer"}

Section(t) ==
    CASE t = "bond" -> BondConfig       [] t = "linux-bridge" -> LinuxBridgeConfig
      [] t = "vlan" -> VlanConfig       [] t = "vrf" -> VrfConfig
      [] t = "vxlan" -> VxlanConfig     [] t = "mac-sec" -> MacSecConfig
      [] t = "wireguard" -> WireguardConfig
      [] t = "veth" -> VethConfig       [] OTHER -> {}

IsVirtual(t) == t # "ethernet"

Has(c, o) == o \in DOMAIN c
Lacks(c, o) == o \notin DOMAIN c
Only(c, S) == Restrict(c, DOMAIN c \cap S)
Without(c, S) == Restrict(c, DOMAIN c \ S)
HasSection(t, c) == DOMAIN c \cap Section(t) # {}

-----------------------------------------------------------------------------
(* Merging, diffing and reverting configurations. *)

\* Changing the bond mode drops the options of the old mode, not its ports.
PostMergeBond(merged, new, old) ==
    IF Has(new, "mode") /\ (Has(old, "mode") => old["mode"] # new["mode"])
    THEN Without(merged, BondOptions \ DOMAIN new)
    ELSE merged

Merge(t, new, old) ==
    IF t = "bond" THEN PostMergeBond(new @@ old, new, old) ELSE new @@ old

Difference(des, cur) ==
    Restrict(des, {o \in DOMAIN des : Has(cur, o) => des[o] # cur[o]})

\* A VLAN or MACsec section that differs is sent whole, with its parent.
IncludeDiffContext(t, diff, des, cur) ==
    LET context == CASE t = "vlan" -> {"id", "base-iface"}
                     [] t = "mac-sec" -> {"base-iface"}
                     [] OTHER -> {}
    IN  IF context # {} /\ HasSection(t, des)
           /\ Only(des, Section(t)) # Only(cur, Section(t))
        THEN Only(des, Section(t)) @@ diff @@ Only(cur, context)
        ELSE diff

GenDiff(t, des, cur) ==
    IF des["state"] = "absent" THEN "state" :> "absent" @@ cur
    ELSE IF DOMAIN Difference(des, cur) = {} THEN None
    ELSE IncludeDiffContext(t, Difference(des, cur) @@ Only(des, {"state"}), des, cur)

\* Mutant: the options shared by all types are not put back.
GenerateRevertSection(apply, cur) ==
    CASE apply = None -> None
      [] apply # None /\ cur = None -> "state" :> "absent"
      [] apply # None /\ cur # None ->
           IF apply["state"] = "absent" THEN cur ELSE Only(cur, DOMAIN apply \ {"mtu"})

\* Only the options the change names, and that the kernel reported, are put
\* back; a change that created the link is undone by removing it.
GenerateRevert(apply, cur) ==
    CASE apply = None -> None
      [] apply # None /\ cur = None -> "state" :> "absent"
      [] apply # None /\ cur # None ->
           IF apply["state"] = "absent" THEN cur
           ELSE LET revert == Only(cur, DOMAIN apply)
                IN  IF revert = apply THEN None ELSE revert

-----------------------------------------------------------------------------
(* What each type's sanitizer checks and completes.  A plan holds for_save, *)
(* for_apply and for_verify; ok is FALSE once the request is refused.       *)

Refuse(p, bad) == [p EXCEPT !.ok = @ /\ ~bad]
Absent(c) == c["state"] = "absent"

SanitizeBond(des, cur, p) ==
    LET mode == IF Has(des, "mode") THEN des["mode"]
                ELSE IF cur # None THEN cur["mode"] ELSE None
        apply == IF HasSection("bond", p.apply) THEN "mode" :> mode @@ p.apply ELSE p.apply
        section == Only(apply, BondConfig)
        Copy(c) == section @@ Without(c, BondConfig)
    IN  IF Absent(des) THEN p
        ELSE IF mode = None THEN Refuse(p, TRUE)
        ELSE Refuse([p EXCEPT !.apply = apply, !.save = Copy(@), !.verify = Copy(@)],
                    Has(apply, "lacp-rate") /\ mode # LACP)

SanitizeLinuxBridge(des, cur, p) ==
    LET section == Only(p.apply, LinuxBridgeConfig)
        Copy(c) == section @@ Without(c, LinuxBridgeConfig)
    IN  [p EXCEPT !.save = Copy(@), !.verify = Copy(@)]

SanitizeVlan(des, cur, p) ==
    LET context == IF cur # None THEN Only(cur, {"id", "base-iface"}) ELSE <<>>
        apply == IF HasSection("vlan", p.apply) THEN p.apply @@ context ELSE p.apply
        save == IF cur # None /\ HasSection("vlan", p.apply) /\ HasSection("vlan", p.save)
                THEN Only(apply, {"id", "base-iface"}) @@ p.save ELSE p.save
    IN  IF Absent(des) THEN p
        ELSE Refuse([p EXCEPT !.apply = apply, !.save = save],
                    cur = None /\ (Lacks(des, "id") \/ Lacks(des, "base-iface")))

\* Table 0 means undefined; the saved section is completed from the kernel.
SanitizeVrf(des, cur, p) ==
    LET NoTable(c) == Lacks(c, "table-id") \/ c["table-id"] = 0
        Fill(c) == IF cur # None /\ HasSection("vrf", c) /\ NoTable(c)
                   THEN "table-id" :> cur["table-id"] @@ c ELSE c
        Complete(c) == IF cur # None THEN c @@ Only(cur, VrfConfig) ELSE c
    IN  IF Absent(des) THEN p
        ELSE Refuse([p EXCEPT !.apply = Fill(@), !.verify = Fill(@),
                              !.save = Complete(Fill(@))],
                    cur = None /\ NoTable(des))

SanitizeVxlan(des, cur, p) ==
    LET Parent(c) == IF cur # None /\ HasSection("vxlan", c)
                     THEN c @@ Only(cur, {"base-iface"}) ELSE c
    IN  IF Absent(des) THEN p
        ELSE Refuse([p EXCEPT !.apply = Parent(@), !.verify = Parent(@)],
                    cur = None /\ Lacks(des, "id"))

\* An explicit SCI decides the port; an explicit port drops a saved SCI.  MKA
\* keys exclude an SCI and need port 1, and no kernel reports them.
SanitizeMacSec(des, cur, p) ==
    LET Ids(c) == CASE ~HasSection("mac-sec", c) -> c
                    [] HasSection("mac-sec", c) /\ Has(des, "sci") ->
                         "sci" :> des["sci"] @@ "port" :> des["sci"] @@ c
                    [] HasSection("mac-sec", c) /\ Lacks(des, "sci") /\ Has(des, "port") ->
                         "port" :> des["port"] @@ Without(c, {"sci"})
                    [] OTHER -> c
        apply == Ids(p.apply)
    IN  IF Absent(des) THEN p
        ELSE Refuse([p EXCEPT !.apply = apply, !.save = Ids(@),
                              !.verify = Without(Ids(@), {"mka"})],
                    \/ cur = None /\ Lacks(des, "base-iface")
                    \/ Has(des, "sci") /\ Has(des, "port") /\ des["sci"] # des["port"]
                    \/ Has(apply, "mka") /\ (Has(apply, "sci")
                                             \/ (Has(apply, "port") /\ apply["port"] # 1)))

\* With a section to apply, the whole saved section is verified.
SanitizeWireguard(des, cur, p) ==
    LET section == Only(p.save, WireguardConfig)
    IN  IF Absent(des) THEN p
        ELSE Refuse(IF HasSection("wireguard", p.apply)
                    THEN [p EXCEPT !.verify = section @@ @] ELSE p,
                    cur = None /\ Lacks(p.apply, "private-key"))

SanitizeEthernet(des, cur, p) ==
    Refuse(p, des["state"] = "up" /\ cur = None /\ Lacks(des, "peer"))

Sanitize(t, des, cur, p) ==
    CASE t = "bond" -> SanitizeBond(des, cur, p)
      [] t = "linux-bridge" -> SanitizeLinuxBridge(des, cur, p)
      [] t = "vlan" -> SanitizeVlan(des, cur, p)
      [] t = "vrf" -> SanitizeVrf(des, cur, p)
      [] t = "vxlan" -> SanitizeVxlan(des, cur, p)
      [] t = "mac-sec" -> SanitizeMacSec(des, cur, p)
      [] t = "wireguard" -> SanitizeWireguard(des, cur, p)
      [] t \in {"veth", "ethernet"} -> SanitizeEthernet(des, cur, p)
      [] OTHER -> p

\* A real NIC cannot be removed: asking it absent brings it down.
AbsentIsDown(t, apply) ==
    IF Absent(apply) /\ ~IsVirtual(t) THEN "state" :> "down" @@ apply ELSE apply

MergedInterface(t, des, cur, old) ==
    LET save == IF old = None THEN des ELSE Merge(t, des, old)
        diff == IF cur = None THEN save ELSE GenDiff(t, save, cur)
        draft == [ok |-> TRUE, save |-> save, verify |-> des,
                  apply |-> IF diff = None /\ des["state"] = "ignore" THEN save ELSE diff]
        p == IF draft.apply = None THEN draft
             ELSE Sanitize(t, des, cur, [draft EXCEPT !.apply = AbsentIsDown(t, @)])
        kept == IF old = None THEN "up" ELSE old["state"]
    IN  CASE des["state"] = "ignore" -> [p EXCEPT !.apply = None, !.verify = None]
          [] des["state"] = "saved" ->
               [p EXCEPT !.apply = None, !.verify = None, !.save = "state" :> kept @@ @]
          [] OTHER -> p

-----------------------------------------------------------------------------
(* What the kernel is sent.  ok is FALSE when the message cannot be built. *)

Message(opts) == [ok |-> TRUE, opts |-> opts]
Unbuilt == [ok |-> FALSE, opts |-> <<>>]

\* The mode goes with the creation, or by detaching and reattaching the ports.
BondLink(a, cur) == Message(Only(a, BondConfig))

\* The STP state goes with any STP option, and is off unless `a` turns it on.
LinuxBridgeLink(a, cur) ==
    LET stp == IF Has(a, "stp") \/ Has(a, "forward-delay")
               THEN "stp" :> (IF Has(a, "stp") /\ a["stp"] = 1 THEN 1 ELSE 0)
               ELSE <<>>
    IN  Message(stp @@ Only(a, LinuxBridgeConfig))

VlanLink(a, cur) ==
    IF HasSection("vlan", a) /\ cur = None /\ (Lacks(a, "id") \/ Lacks(a, "base-iface"))
    THEN Unbuilt ELSE Message(Only(a, VlanConfig))

VrfLink(a, cur) ==
    CASE Lacks(a, "table-id") -> IF cur = None THEN Unbuilt ELSE Message(Only(a, {"ports"}))
      [] Has(a, "table-id") ->
           IF a["table-id"] = 0 \/ (cur # None /\ cur["table-id"] # a["table-id"])
           THEN Unbuilt ELSE Message(Only(a, VrfConfig))

\* The source ports go together, and gbp only when set.
VxlanLink(a, cur) ==
    LET ports == {"src-port-min", "src-port-max"}
        held == (IF ports \subseteq DOMAIN a THEN {} ELSE ports)
                \cup (IF Has(a, "gbp") /\ a["gbp"] = 1 THEN {} ELSE {"gbp"})
    IN  IF ~HasSection("vxlan", a) \/ (cur = None /\ Lacks(a, "id")) THEN Unbuilt
        ELSE Message(Only(a, VxlanConfig \ held))

\* The identity goes with the creation only, an SCI before a port.
MacSecLink(a, cur) ==
    LET ident == IF cur # None THEN {} ELSE {"base-iface", "port", "sci"}
    IN  IF cur = None /\ Lacks(a, "base-iface") THEN Unbuilt
        ELSE Message(Only(a, {"encrypt"} \cup ident))

WireguardLink(a, cur) == Message(Only(a, WireguardConfig))

VethLink(a, cur) ==
    IF cur # None /\ Has(a, "peer") /\ a["peer"] # cur["peer"]
    THEN Unbuilt ELSE Message(Only(a, VethConfig))

LinkMessage(t, a, cur) ==
    LET m == CASE t = "bond" -> BondLink(a, cur)
               [] t = "linux-bridge" -> LinuxBridgeLink(a, cur)
               [] t = "vlan" -> VlanLink(a, cur)     [] t = "vrf" -> VrfLink(a, cur)
               [] t = "vxlan" -> VxlanLink(a, cur)   [] t = "mac-sec" -> MacSecLink(a, cur)
               [] t = "wireguard" -> WireguardLink(a, cur)
               [] t = "veth" -> VethLink(a, cur)     [] OTHER -> Message(<<>>)
    IN  [m EXCEPT !.opts = @ @@ Only(a, BaseInterface)]

-----------------------------------------------------------------------------
(* The kernel: what it needs to create a link, what it cannot change. *)

Mandatory(t) ==
    CASE t = "vlan" -> {"id", "base-iface"} [] t = "vrf" -> {"table-id"}
      [] t = "vxlan" -> {"id"} [] t = "mac-sec" -> {"base-iface"}
      [] t = "veth" -> {"peer"} [] OTHER -> {}

Fixed(t) == Mandatory(t) \cup
    CASE t = "vxlan" -> {"base-iface", "gbp", "src-port-min", "src-port-max"}
      [] t = "mac-sec" -> {"port", "sci"} [] OTHER -> {}

Defaults(t) ==
    [o \in Section(t) \ {"mka"} |-> IF o \in {"port", "sci"} THEN 1 ELSE 0]
    @@ "mtu" :> 0 @@ "state" :> "down"

\* An SCI and its port are one identity.
Paired(t, opts) ==
    IF t = "mac-sec" /\ Has(opts, "sci") THEN "port" :> opts["sci"] @@ opts
    ELSE IF t = "mac-sec" /\ Has(opts, "port") THEN "sci" :> opts["port"] @@ opts
    ELSE opts

Accepts(t, opts) ==
    IF link = None
    THEN IsVirtual(t) /\ Mandatory(t) \subseteq DOMAIN opts
    ELSE \A o \in DOMAIN opts \cap Fixed(t) : opts[o] = link.opts[o]

Configured(t, opts) ==
    LET new == Paired(t, opts)
    IN  IF link = None THEN [id |-> used.links + 1, opts |-> new @@ Defaults(t)]
        ELSE [link EXCEPT !.opts = new @@ @]

\* The kernel dumps no empty QoS map.
Query(t) ==
    IF link = None THEN None
    ELSE IF t = "vlan" /\ link.opts["qos-map"] = 0 THEN Without(link.opts, {"qos-map"})
    ELSE link.opts

-----------------------------------------------------------------------------
(* When a link must be deleted before it can be changed. *)

Changes(a, cur, o) == Has(a, o) /\ a[o] # cur[o]

VlanNeedsDelete(a, cur) ==
    \/ \E o \in {"id", "base-iface"} : Changes(a, cur, o)
    \/ Has(a, "qos-map") /\ a["qos-map"] = 0 /\ Has(cur, "qos-map")

VrfNeedsDelete(a, cur) == Has(a, "table-id") /\ a["table-id"] # 0 /\ Changes(a, cur, "table-id")

VxlanNeedsDelete(a, cur) == \E o \in VxlanConfig \ {"learning"} : Changes(a, cur, o)

MacSecNeedsDelete(a, cur) == \E o \in {"base-iface", "port", "sci"} : Changes(a, cur, o)

VethNeedsDelete(a, cur) == Changes(a, cur, "peer")

NeedDelete(t, a, cur) ==
    CASE t = "vlan" -> VlanNeedsDelete(a, cur)     [] t = "vrf" -> VrfNeedsDelete(a, cur)
      [] t = "vxlan" -> VxlanNeedsDelete(a, cur)   [] t = "mac-sec" -> MacSecNeedsDelete(a, cur)
      [] t = "veth" -> VethNeedsDelete(a, cur)     [] OTHER -> FALSE

-----------------------------------------------------------------------------
(* Verification: every option asked for is what the kernel reports.  SecretKeys *)
(* are hidden first; a virtual link asked down must be gone.                 *)

Verified(t, v) ==
    LET cur == IF t = "vlan" /\ link # None THEN link.opts ELSE Query(t)
    IN  CASE v = None -> TRUE
          [] v # None /\ (Absent(v) \/ (IsVirtual(t) /\ v["state"] = "down")) ->
               link = None \/ ~IsVirtual(t)
          [] OTHER -> v["state"] = "up" =>
               /\ link # None
               /\ \A o \in DOMAIN v \ {"private-key", "mka"} : v[o] = cur[o]

-----------------------------------------------------------------------------
(* One transaction at a time: the commander runs applies one by one. *)

Idle == [pc |-> "idle"]

Ended(result) ==
    [result |-> result, des |-> tx.des, persist |-> tx.persist, boot |-> tx.boot,
     faulty |-> tx.faulty, recreated |-> tx.recreated, managed |-> tx.managed]

NotRun == [result |-> "none", des |-> <<>>, persist |-> FALSE, boot |-> FALSE,
           faulty |-> FALSE, recreated |-> FALSE, managed |-> FALSE]

\* Hidden from every query, so never compared.
SecretKeys == {"private-key", "mka"}

\* What a profile needs to create its link.
Needed(t) ==
    CASE t = "bond" -> {"mode"} [] t = "wireguard" -> {"private-key"} [] OTHER -> Mandatory(t)

\* There is no link, or a complete profile of it is in effect.
Managed ==
    link = None \/ /\ saved # None /\ Needed(type) \subseteq DOMAIN saved
                   /\ \A o \in DOMAIN saved \ SecretKeys : saved[o] = link.opts[o]

Transaction(des, plan, cur, persist, boot) ==
    [pc |-> "delete", des |-> des, plan |-> plan, apply |-> plan.apply,
     verify |-> plan.verify, cur |-> cur, org |-> cur,
     revert |-> GenerateRevert(plan.apply, cur), persist |-> persist, boot |-> boot,
     tries |-> 1, faulty |-> FALSE, undo |-> FALSE, recreated |-> FALSE, failed |-> FALSE,
     managed |-> boot \/ Managed]

Fresh(t) == IF IsVirtual(t) THEN None ELSE [id |-> 0, opts |-> Defaults(t)]

Init ==
    /\ type \in Types
    /\ link = Fresh(type)
    /\ saved = None
    /\ tx = Idle
    /\ asked = <<>>
    /\ before = Fresh(type)
    /\ last = NotRun
    /\ used = [applies |-> 0, faults |-> 0, links |-> 0]

Request(r, persist) ==
    LET plan == MergedInterface(type, r, Query(type), saved)
    IN  /\ tx.pc = "idle"
        /\ used.applies < MaxApplies
        /\ used' = [used EXCEPT !.applies = @ + 1]
        /\ tx' = IF plan.ok THEN Transaction(r, plan, Query(type), persist, FALSE) ELSE Idle
        /\ last' = IF plan.ok THEN NotRun ELSE [NotRun EXCEPT !.result = "refused"]
        /\ before' = link
        /\ UNCHANGED <<type, link, saved, asked>>

Recreates ==
    /\ tx.apply # None /\ tx.cur # None /\ tx.verify # None
    /\ tx.verify["state"] = "up" /\ NeedDelete(type, tx.apply, tx.cur)

Deletes == Recreates \/ (tx.apply # None /\ Absent(tx.apply))

\* Mutant: what is recreated is built from the difference.
DeleteLinkKeepsDiff ==
    /\ tx.pc = "delete"
    /\ link' = IF Deletes THEN None ELSE link
    /\ tx' = [tx EXCEPT !.pc = "link", !.cur = IF Recreates THEN None ELSE @]
    /\ UNCHANGED <<type, saved, asked, before, last, used>>

\* delete_ifaces_before_apply: what is recreated is built from for_save, and
\* verified against it.
DeleteLink ==
    /\ tx.pc = "delete"
    /\ link' = IF Deletes THEN None ELSE link
    /\ tx' = IF Recreates
             THEN [tx EXCEPT !.pc = "link", !.apply = tx.plan.save, !.cur = None,
                             !.verify = tx.plan.save, !.recreated = TRUE]
             ELSE [tx EXCEPT !.pc = "link"]
    /\ UNCHANGED <<type, saved, asked, before, last, used>>

\* A deletion the kernel refuses fails the apply, and is not retried.
DeleteRefused ==
    /\ tx.pc = "delete" /\ used.faults < MaxFaults /\ Deletes /\ link # None
    /\ used' = [used EXCEPT !.faults = @ + 1]
    /\ tx' = IF tx.undo THEN Idle
             ELSE [tx EXCEPT !.pc = "verify", !.failed = TRUE, !.faulty = TRUE]
    /\ last' = IF tx.undo THEN [Ended("rollback failed") EXCEPT !.faulty = TRUE] ELSE last
    /\ UNCHANGED <<type, link, saved, asked, before>>

\* A message that cannot be built, or that the kernel refuses, is only logged.
\* A link that already exists cannot be added.
Sendable(m) ==
    /\ tx.apply # None /\ ~Absent(tx.apply) /\ (IsVirtual(type) \/ tx.cur # None)
    /\ m.ok /\ (tx.cur = None) = (link = None) /\ Accepts(type, m.opts)

SendLink ==
    LET m == LinkMessage(type, tx.apply, tx.cur)
    IN  /\ tx.pc = "link"
        /\ link' = IF Sendable(m) THEN Configured(type, m.opts) ELSE link
        /\ used' = IF Sendable(m) /\ link = None THEN [used EXCEPT !.links = @ + 1] ELSE used
        /\ tx' = IF tx.undo THEN Idle ELSE [tx EXCEPT !.pc = "verify"]
        /\ last' = IF tx.undo THEN Ended("rolled back") ELSE last
        /\ UNCHANGED <<type, saved, asked, before>>

\* The kernel refuses the first message, or the last one, which brings the
\* link up or down.
KernelRefuses(first) ==
    LET m == LinkMessage(type, tx.apply, tx.cur)
    IN  /\ tx.pc = "link" /\ used.faults < MaxFaults /\ Sendable(m)
        /\ link' = IF first THEN link ELSE Configured(type, Without(m.opts, {"state"}))
        /\ used' = [used EXCEPT !.faults = @ + 1,
                                !.links = IF ~first /\ link = None THEN @ + 1 ELSE @]
        /\ tx' = IF tx.undo THEN Idle ELSE [tx EXCEPT !.pc = "verify", !.faulty = TRUE]
        /\ last' = IF tx.undo THEN [Ended("rollback failed") EXCEPT !.faulty = TRUE] ELSE last
        /\ UNCHANGED <<type, saved, asked, before>>

\* What the profile owes to the requests accepted since it was created.  An
\* SCI and a port replace each other; table 0 asks for the running table.
Asked(r) ==
    LET void == (IF Has(r, "port") THEN {"sci"} \ DOMAIN r ELSE {})
                \cup (IF Has(r, "sci") THEN {"port"} \ DOMAIN r ELSE {})
                \cup (IF Has(r, "table-id") /\ r["table-id"] = 0 THEN {"table-id"} ELSE {})
    IN  IF Absent(r) THEN <<>>
        ELSE Without(Merge(type, Only(r, Section(type) \cup {"mtu"}), asked), void)

\* The boot apply is neither verified nor saved.
Passed == ~tx.failed /\ (tx.boot \/ Verified(type, tx.verify))

VerifyAndSave ==
    /\ tx.pc = "verify" /\ Passed
    /\ saved' = IF ~tx.persist THEN saved
                ELSE IF Absent(tx.plan.save) THEN None ELSE tx.plan.save
    /\ asked' = IF tx.persist THEN Asked(tx.des) ELSE asked
    /\ last' = Ended("ok")
    /\ tx' = Idle
    /\ UNCHANGED <<type, link, before, used>>

\* The second attempt starts from the same plan, whatever the first one did.
RetryApply ==
    /\ tx.pc = "verify" /\ ~Passed /\ ~tx.failed
    /\ tx.tries < MaxTries
    /\ tx' = [tx EXCEPT !.pc = "delete", !.tries = @ + 1, !.apply = tx.plan.apply,
                        !.verify = tx.plan.verify, !.cur = tx.org]
    /\ UNCHANGED <<type, link, saved, asked, before, last, used>>

\* The revert is itself a request, merged with what the kernel now reports
\* and with no saved profile; it is not verified.
Rollback ==
    LET plan == MergedInterface(type, tx.revert, Query(type), None)
    IN  /\ tx.pc = "verify" /\ ~Passed
        /\ tx.failed \/ tx.tries = MaxTries
        /\ tx' = IF tx.revert = None \/ ~plan.ok THEN Idle
                 ELSE [tx EXCEPT !.pc = "delete", !.plan = plan, !.apply = plan.apply,
                                 !.verify = plan.verify, !.cur = Query(type), !.undo = TRUE]
        /\ last' = IF tx.revert = None \/ ~plan.ok THEN Ended("rollback failed") ELSE last
        /\ UNCHANGED <<type, link, saved, asked, before, used>>

\* A restart loses the virtual links; the daemon then applies the profile.
Reboot ==
    LET cur == IF IsVirtual(type) THEN None ELSE Defaults(type)
        plan == MergedInterface(type, saved, cur, saved)
        skipped == saved = None \/ (saved # None /\ saved["state"] = "ignore")
    IN  /\ used.applies < MaxApplies
        /\ used' = [used EXCEPT !.applies = @ + 1]
        /\ link' = Fresh(type)
        /\ before' = Fresh(type)
        /\ tx' = IF skipped \/ (~skipped /\ ~plan.ok) THEN Idle
                 ELSE Transaction(saved, plan, cur, FALSE, TRUE)
        /\ last' = IF ~skipped /\ ~plan.ok
                   THEN [NotRun EXCEPT !.result = "refused", !.boot = TRUE] ELSE NotRun
        /\ UNCHANGED <<type, saved, asked>>

Next ==
    \/ \E r \in Requests[type], persist \in BOOLEAN : Request(r, persist)
    \/ DeleteLink \/ DeleteRefused \/ SendLink \/ \E first \in BOOLEAN : KernelRefuses(first)
    \/ VerifyAndSave \/ RetryApply \/ Rollback
    \/ Reboot

Spec == Init /\ [][Next]_vars

-----------------------------------------------------------------------------
(* Properties *)

(* The profile holds every option that the persistent requests accepted    *)
(* since its creation asked for, whichever of them named it: for_save is   *)
(* documented to contain the previous saved changes.                       *)
AskedIsSaved == saved # None => \A o \in DOMAIN asked : Has(saved, o) /\ saved[o] = asked[o]

(* A persistent apply that succeeds leaves the link running the whole      *)
(* profile, not only the options the request named, also when the link had *)
(* to be deleted and built anew.                                           *)
SavedIsRunning ==
    last.result = "ok" /\ last.persist /\ last.des["state"] = "up" /\ ~last.faulty /\ last.managed =>
        /\ link # None
        /\ \A o \in DOMAIN saved \ SecretKeys : saved[o] = link.opts[o]

(* A rolled back change of a link whose profile was in effect, and which   *)
(* was not deleted to be changed, leaves the link as it was before, no     *)
(* matter which of the two attempts the kernel accepted in part.           *)
RollbackRestores ==
    last.result = "rolled back" /\ ~last.recreated /\ last.managed =>
        IF before = None THEN link = None
        ELSE link # None /\ \A o \in DOMAIN before.opts : before.opts[o] = link.opts[o]

=============================================================================
