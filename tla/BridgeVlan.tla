------------------------------- MODULE BridgeVlan -------------------------------
(***************************************************************************)
(* VLAN filtering of a Linux bridge: the `vlan` section of the bridge      *)
(* itself and of a port (lib/schema/ifaces/bridge_vlan.rs, linux_bridge.rs) *)
(* from the request to the messages sent to the kernel, and back from the  *)
(* kernel's dump to the section that verification compares                 *)
(* (lib/netlink/link/bridge.rs).                                           *)
(*                                                                         *)
(* An apply that fails verification ends the behaviour: what follows it is *)
(* the subject of LinkConfig.                                              *)
(***************************************************************************)
EXTENDS Naturals

CONSTANTS
    NotSet,         \* a field or a section that is not set
    MaxVid,         \* the largest VLAN id
    Sections,       \* the `vlan` sections that requests use
    MaxVlanApplies  \* bound on applies

VARIABLES
    table,          \* "self" or "port" |-> VLAN id |-> "no", "tagged" or "untagged"
    pvid,           \* "self" or "port" |-> VLAN id, or 0
    filtering,      \* whether the bridge filters
    read,           \* the sections as they are queried
    asked,          \* the sections of the last request
    sent,           \* the sections of it that differ from the current state
    outcome,        \* "none", "ok", "refused" or "failed"
    applies

vlanVars == <<table, pvid, filtering, read, asked, sent, outcome, applies>>

Vid == 1..MaxVid
Where == {"self", "port"}
DefaultPvid == 1
Empty == [mode |-> NotSet, native |-> NotSet, tag |-> NotSet, tags |-> NotSet]

SectionType == [mode : {"access", "trunk", NotSet}, native : BOOLEAN \cup {NotSet},
                tag : Vid \cup {NotSet}, tags : {NotSet} \cup SUBSET (Vid \X Vid)]

(* Sections are well-typed, and what is not set is unlike anything that is.  *)
VlanAssumption ==
    /\ MaxVid \in Nat
    /\ Sections \subseteq SectionType \cup {NotSet}
    /\ NotSet \notin SectionType \cup {"access", "trunk"} \cup BOOLEAN \cup Vid

(* `tags` is a set of ranges <<lo, hi>>.                                     *)
Ids(tags) == UNION {tag[1]..tag[2] : tag \in tags}

(* The ids as the ranges that no id continues.                              *)
compress_vlan_ids(vids) ==
    {r \in vids \X vids : /\ r[1] <= r[2] /\ r[1]..r[2] \subseteq vids
                         /\ r[1] - 1 \notin vids /\ r[2] + 1 \notin vids}

compress_port_vlan_ranges(cfg) ==
    IF cfg = NotSet \/ cfg.tags = NotSet THEN cfg
    ELSE [cfg EXCEPT !.tags = compress_vlan_ids(Ids(cfg.tags))]

Overlapping(tags) == \E s, t \in tags : s # t /\ Ids({s}) \cap Ids({t}) # {}

Refused(cfg) ==
    \/ cfg.mode = "trunk" /\ cfg.tag # NotSet /\ cfg.native # TRUE
    \/ cfg.mode = "access" /\ cfg.native = TRUE
    \/ cfg.mode = "access" /\ cfg.tags \notin {NotSet, {}}
    \/ cfg.mode = "trunk" /\ cfg.tags = NotSet
    \/ cfg.tags # NotSet /\ Overlapping(cfg.tags)

DefaultMode(cfg) ==
    IF cfg # NotSet /\ cfg.tags # NotSet /\ cfg.mode = NotSet THEN [cfg EXCEPT !.mode = "trunk"] ELSE cfg

(***************************************************************************)
(* From a section to the kernel.                                           *)
(***************************************************************************)
VlanEntry(lo, hi, native) == [lo |-> lo, hi |-> hi, native |-> native]

bridge_vlan_entries_from_config(cfg) ==
    IF cfg = NotSet \/ cfg.mode = NotSet THEN {}
    ELSE (IF cfg.mode = "trunk" /\ cfg.tags # NotSet
          THEN {VlanEntry(tag[1], tag[2], FALSE) : tag \in cfg.tags} ELSE {})
         \cup (IF cfg.tag # NotSet THEN {VlanEntry(cfg.tag, cfg.tag, TRUE)} ELSE {})

Covered(entries) == UNION {e.lo..e.hi : e \in entries}

RemovedKeepsNative(des, cur) ==
    {e \in bridge_vlan_entries_from_config(cur) : e.native => des.mode = "access"}
        \ bridge_vlan_entries_from_config(des)

(* gen_bridge_vlan_entries(): entries of the current section that the       *)
(* desired one does not have go first.                                      *)
Removed(des, cur) == bridge_vlan_entries_from_config(cur) \ bridge_vlan_entries_from_config(des)

(* The kernel: a VLAN that is set anew loses what it was; the native one is *)
(* set last.                                                                *)
TableAfter(t, des, cur) ==
    LET add == bridge_vlan_entries_from_config(des)
    IN [v \in Vid |-> IF v \in Covered({e \in add : e.native}) THEN "untagged"
                      ELSE IF v \in Covered(add) THEN "tagged"
                      ELSE IF v \in Covered(Removed(des, cur)) THEN "no"
                      ELSE t[v]]

PvidAfter(p, des, cur) ==
    LET add == bridge_vlan_entries_from_config(des)
        native == {e.lo : e \in {f \in add : f.native}}
    IN IF native # {} THEN CHOOSE v \in native : TRUE
       ELSE IF p \in Covered(add \cup Removed(des, cur)) THEN 0 ELSE p

(***************************************************************************)
(* From the kernel to a section.                                           *)
(***************************************************************************)
(* The dump names the first and the last VLAN of every run of the same      *)
(* flags.                                                                   *)
Same(t, p, v, u) == t[v] = t[u] /\ (p = v <=> p = u)
Run(t, p, lo, hi) == lo <= hi /\ t[lo] # "no" /\ \A v \in lo..hi : Same(t, p, v, lo)
Ends(t, p, v, u) == u \notin Vid \/ ~Same(t, p, v, u)

merge_vlan_range(t, p) ==
    {VlanEntry(r[1], r[2], t[r[1]] = "untagged" /\ p = r[1]) :
        r \in {s \in Vid \X Vid : /\ Run(t, p, s[1], s[2])
                                /\ Ends(t, p, s[1], s[1] - 1) /\ Ends(t, p, s[2], s[2] + 1)}}

NotDefault(e) == ~(e.lo = DefaultPvid /\ e.hi = DefaultPvid)

bridge_vlan_config(t, p) ==
    LET kept == {e \in merge_vlan_range(t, p) : NotDefault(e)}
        trunk == {e \in kept : ~e.native}
        native == kept \ trunk
    IN IF kept = {} THEN NotSet
       ELSE [mode |-> IF trunk = {} THEN "access" ELSE "trunk",
             native |-> IF trunk = {} THEN NotSet ELSE native # {},
             tag |-> IF native = {} THEN NotSet ELSE (CHOOSE e \in native : TRUE).hi,
             tags |-> {<<e.lo, e.hi>> : e \in trunk}]

Query(t, p, filters) ==
    [w \in Where |-> IF filters THEN bridge_vlan_config(t[w], p[w]) ELSE NotSet]

(***************************************************************************)
(* One apply.                                                              *)
(***************************************************************************)
(* gen_diff_json_value() compares the keys of the request; the whole        *)
(* section goes out when one of them differs.                               *)
Keys(cfg) == {k \in DOMAIN Empty : cfg[k] # NotSet}
Differs(cfg, cur) ==
    IF cfg = NotSet THEN FALSE
    ELSE cur = NotSet \/ \E k \in Keys(cfg) : cfg[k] # cur[k]

(* A list of ports is always sent: the current one has more keys.  Next to      *)
(* anything that is sent, include_diff_context() adds a section that is not *)
(* the current one.                                                         *)
Sent(req) ==
    LET cur == read["self"]
        changed == (req["port"] # NotSet /\ req["self"] # cur) \/ Differs(req["self"], cur)
    IN [req EXCEPT !["self"] = IF changed THEN @ ELSE NotSet]

(* bridge_link_builder(): only a section of the bridge itself turns         *)
(* filtering on or off.                                                     *)
Filtering(out) ==
    IF out["self"] = NotSet THEN filtering
    ELSE out["self"] # Empty \/ out["port"] \notin {NotSet, Empty}

Verified(cfg, cur) ==
    cfg # NotSet => cur # NotSet /\ \A k \in Keys(cfg) : cfg[k] = cur[k]

apply_bridge_vlans(req) ==
    LET out == [w \in Where |-> IF w = "port" THEN DefaultMode(compress_port_vlan_ranges(Sent(req)[w]))
                                ELSE compress_port_vlan_ranges(Sent(req)[w])]
    IN /\ outcome \in {"none", "ok", "refused"} /\ applies < MaxVlanApplies
       /\ applies' = applies + 1
       /\ asked' = req
       /\ IF out["port"] # NotSet /\ Refused(compress_port_vlan_ranges(req["port"]))
          THEN /\ outcome' = "refused"
               /\ sent' = [w \in Where |-> NotSet]
               /\ UNCHANGED <<table, pvid, filtering, read>>
          ELSE /\ sent' = out
               /\ filtering' = Filtering(out)
               /\ table' = [w \in Where |-> IF out[w] = NotSet THEN table[w]
                               ELSE TableAfter(table[w], out[w], read[w])]
               /\ pvid' = [w \in Where |-> IF out[w] = NotSet THEN pvid[w]
                              ELSE PvidAfter(pvid[w], out[w], read[w])]
               /\ read' = Query(table', pvid', filtering')
               /\ outcome' = IF \A w \in Where : Verified(out[w], read'[w])
                             THEN "ok" ELSE "failed"

(***************************************************************************)
(* The specification.                                                      *)
(***************************************************************************)
VlanInit ==
    /\ table = [w \in Where |-> [v \in Vid |-> IF v = DefaultPvid THEN "untagged" ELSE "no"]]
    /\ pvid = [w \in Where |-> DefaultPvid]
    /\ filtering = FALSE
    /\ read = [w \in Where |-> NotSet]
    /\ asked = [w \in Where |-> NotSet] /\ sent = asked
    /\ outcome = "none"
    /\ applies = 0

VlanNext == \E req \in [Where -> Sections] : apply_bridge_vlans(req)

VlanSpec == VlanInit /\ [][VlanNext]_vlanVars

(* The VLANs a section asks for, by its documentation.                      *)
Meant(cfg, v) ==
    IF cfg.tag = v THEN "untagged"
    ELSE IF cfg.tags # NotSet /\ v \in Ids(cfg.tags) THEN "tagged" ELSE "no"

(* gen_bridge_vlan_entries() and bridge_vlan_config(): when the kernel reads *)
(* back as asked, the VLANs other than the default one are those asked for,  *)
(* whatever was configured before.                                           *)
VerifiedIsExact ==
    outcome = "ok" => \A w \in Where : sent[w] # NotSet /\ Keys(sent[w]) \ {"tag"} # {} =>
        \A v \in Vid \ {DefaultPvid} : table[w][v] = Meant(sent[w], v)

(* bridge.md: `vlan: {}` removes all VLANs.                                  *)
EmptyRemovesAll ==
    outcome = "ok" /\ asked["self"] = Empty =>
        \A v \in Vid \ {DefaultPvid} : table["self"][v] = "no"

===============================================================================
