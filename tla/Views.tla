--------------------------------- MODULE Views ---------------------------------
(***************************************************************************)
(* The views of the network state that the daemon answers queries with     *)
(* (daemon/query.rs): what the kernel runs, joined with the saved          *)
(* profiles.  Saved profiles come out of a hash map, in any order; so do   *)
(* the interfaces that a MAC address or the name of a rule is looked up    *)
(* in.                                                                     *)
(***************************************************************************)
EXTENDS Naturals, FiniteSets

CONSTANTS
    Unset,          \* a field that is not set
    Hosts           \* the hosts of the instance: [nics, saved, routes, rules, kroutes, krules]

(* Interfaces::kernel_ifaces is a map from names.                            *)
HostsAssumption ==
    \A h \in Hosts : \A p, q \in h.saved : p.name = q.name => p = q

VARIABLES
    host,           \* the host that is queried
    pc,             \* "merge", "rules" or "done"
    pending,        \* saved profiles still to be merged
    view,           \* key |-> [name, kname, profile, state, auto, by]
    managed,        \* kernel names of NICs with an active profile
    savedOnly,      \* profiles without a NIC
    rules,          \* saved rules still to be shown
    shown           \* [routes, rules] of the view

viewVars == <<host, pc, pending, view, managed, savedOnly, rules, shown>>

(* A NIC is [name, mac, perm]; a profile is [name, profile, by, mac, state, auto]. *)
Entry(nic) ==
    [name |-> nic.name, kname |-> nic.name, profile |-> Unset, state |-> "up", auto |-> Unset, by |-> {}]

Nics == {nic.name : nic \in host.nics}

(* Interface::is_match(): either address of the NIC will do.                *)
IsMatch(p, nic) ==
    IF p.by = "name" THEN p.name = nic.name ELSE p.mac \in {nic.perm, nic.mac}

Matches(p) == {nic.name : nic \in {n \in host.nics : IsMatch(p, n)}}

Filled(old, new) == IF old = Unset THEN new ELSE old

MergeSaved(p) ==
    /\ pc = "merge" /\ p \in pending
    /\ pending' = pending \ {p}
    /\ IF Matches(p) = {}
       THEN /\ savedOnly' = savedOnly \cup {p}
            /\ UNCHANGED <<view, managed>>
       ELSE \E n \in Matches(p) :
              /\ UNCHANGED savedOnly
              /\ IF p.state = "ignore"
                 THEN /\ view' = [view EXCEPT ![n].state = "ignore"]
                      /\ UNCHANGED managed
                 ELSE /\ managed' = managed \cup {n}
                      /\ view' = [view EXCEPT ![n].auto = Filled(@, p.auto),
                                              ![n].profile = Filled(@, p.profile),
                                              ![n].by = @ \cup {p}]
    /\ UNCHANGED <<host, pc, rules, shown>>

(***************************************************************************)
(* query_running_and_saved_state() after the merge.                        *)
(***************************************************************************)
(* push(): a profile found by its MAC address has no kernel name.           *)
SavedEntry(p) ==
    [name |-> p.name, kname |-> IF p.by = "name" THEN p.name ELSE "", profile |-> p.profile,
     state |-> IF p.state = "ignore" THEN "ignore" ELSE "saved", auto |-> p.auto, by |-> {p}]

StateOfNicAny(n) == "up"
StateOfNic(n) == IF n \in managed THEN "up" ELSE "ignore"

append_saved_only_routes ==
    {r \in host.routes :
        /\ r.state # "absent"
        /\ r.state = "saved" \/ \E p \in savedOnly : r.via = p.name
        /\ ~\E k \in host.kroutes : k.dst = r.dst /\ k.via = r.via}

PushSavedOnly ==
    /\ pc = "merge" /\ pending = {}
    /\ pc' = "rules"
    /\ view' = [key \in Nics \cup {p.name : p \in savedOnly} |->
                  IF \E p \in savedOnly : p.name = key
                  THEN SavedEntry(CHOOSE p \in savedOnly : p.name = key)
                  ELSE [view[key] EXCEPT !.state = StateOfNic(key)]]
    /\ shown' = [shown EXCEPT !.routes = host.kroutes \cup {[r EXCEPT !.state = "saved"] :
                                                              r \in append_saved_only_routes}]
    /\ UNCHANGED <<host, pending, managed, savedOnly, rules>>

(* The kernel name of any interface that bears the name.                    *)
resolve_rule_iif(iif) ==
    LET named == {key \in DOMAIN view :
                    iif \in {view[key].kname, view[key].name, view[key].profile}}
    IN IF iif = Unset \/ named = {} THEN {iif} ELSE {view[key].kname : key \in named}

append_saved_only_route_rules(r) ==
    /\ pc = "rules" /\ r \in rules
    /\ rules' = rules \ {r}
    /\ \E iif \in resolve_rule_iif(r.iif) :
          shown' = [shown EXCEPT !.rules = @ \cup
                      (IF \E k \in host.krules : k.table = r.table /\ iif \in {Unset, k.iif}
                       THEN {} ELSE {[iif |-> iif, table |-> r.table]})]
    /\ UNCHANGED <<host, pc, pending, view, managed, savedOnly>>

Answer ==
    /\ pc = "rules" /\ rules = {}
    /\ pc' = "done"
    /\ UNCHANGED <<host, pending, view, managed, savedOnly, rules, shown>>

(***************************************************************************)
(* The specification.                                                      *)
(***************************************************************************)
ViewInit ==
    /\ host \in Hosts
    /\ pc = "merge"
    /\ pending = host.saved
    /\ view = [n \in Nics |-> Entry(CHOOSE nic \in host.nics : nic.name = n)]
    /\ managed = {} /\ savedOnly = {}
    /\ rules = {r \in host.rules : r.state # "absent"}
    /\ shown = [routes |-> host.kroutes, rules |-> host.krules]

ViewNext ==
    \/ \E p \in pending : MergeSaved(p)
    \/ PushSavedOnly
    \/ \E r \in rules : append_saved_only_route_rules(r)
    \/ Answer

ViewSpec == ViewInit /\ [][ViewNext]_viewVars

(***************************************************************************)
(* Properties.                                                             *)
(***************************************************************************)
(* query_saved_state(): whether the other view shows a profile as active.   *)
saved_iface_has_kernel_match(p) ==
    IF p.by = "name" THEN p.name \in Nics ELSE \E nic \in host.nics : IsMatch(p, nic)

(* A saved profile found by its MAC address hides a NIC of the same name.    *)
Hidden(n) == \E p \in savedOnly : p.name = n

Agreed ==
    /\ \A p \in host.saved :
          /\ saved_iface_has_kernel_match(p) <=> p \notin savedOnly
          /\ p \in savedOnly => view[p.name].state = (IF p.state = "ignore" THEN "ignore" ELSE "saved")
          /\ p \notin savedOnly /\ p.state # "ignore" =>
               \E n \in Nics : Hidden(n) \/ p \in view[n].by
    /\ \A n \in Nics : Hidden(n) \/ (view[n].state = "up" <=> view[n].by # {})

(* query_saved_state() and query_running_and_saved_state(): both views agree *)
(* on which profiles are active, no profile is lost or shown twice, and a    *)
(* NIC is shown as up just when an active profile is on it.                  *)
ViewsAgree == pc = "done" => Agreed

===============================================================================
