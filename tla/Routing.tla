------------------------------ MODULE Routing ------------------------------
(***************************************************************************)
(* Static routes and policy rules: how a request is merged with the        *)
(* kernel's tables and with the saved configuration (MergedRoutes and      *)
(* MergedRouteRules), sent to the kernel one message at a time, verified,  *)
(* saved, and undone when a step fails.                                    *)
(*                                                                         *)
(* An entry is a record of fields; Undefined stands for a property that    *)
(* the entry leaves out (None, and the empty string where the code reads   *)
(* it so), Default for the explicit "use the default" numbers.  A request  *)
(* names an interface by kernel name or by profile name (KernelName).      *)
(***************************************************************************)
EXTENDS Integers, FiniteSets, SequencesExt, TLC

CONSTANTS
    Undefined, Default,
    Ifaces,        \* the kernel interfaces
    Names,         \* what a route or a rule may call its interface
    KernelName,    \* [Names -> Ifaces \cup {Pending, Unresolved}]
    Pending,       \* a wifi-cfg profile whose SSID no radio carries yet
    Unresolved,    \* a name no interface answers to
    V6,            \* the destinations and networks that are IPv6
    Reserved,      \* the destinations inside 0.0.0.0/8
    VrfTable,      \* [VRF names -> table, Undefined unless the VRF is up]
    Requests,      \* what may be asked: routes, rules (sequences), ifaces
    KernelStates,  \* the tables found: routes, rules (sets of entries)
    SavedStates,   \* the configurations found on disk
    MaxFaults      \* the netlink calls that may fail

VARIABLES
    ifaces,   \* what the merge knows of each interface
    kernel,   \* the kernel's tables: [routes, rules]
    saved,    \* the saved configuration: [routes, rules]
    req,      \* the request
    job,      \* the apply: phase, attempt, plan, messages left to send
    found,    \* the tables and the configuration the apply started from
    faults

vars == <<ifaces, kernel, saved, req, job, found, faults>>

(***************************************************************************)
(* Entries                                                                 *)
(***************************************************************************)
RouteFields == {"dst", "via", "addr", "metric", "table", "src", "mtu",
                "kind", "onlink", "vrf", "proto"}

RuleFields == {"from", "family", "prio", "table", "iif", "action"}

IsAbsent(e) == e.state = "absent"

RouteFamily(r) == IF r.dst \in V6 THEN "v6" ELSE "v4"

Undef(v) == v \in {Undefined, Default}

\* A property the pattern leaves out matches anything; the metric is ignored.
IsMatch(pattern, r) ==
    \A f \in RouteFields \ {"metric", "proto"} :
        Undef(pattern[f]) \/ pattern[f] = r[f]

\* Two routes with one key are one element of a HashSet: metric and VRF name
\* are not part of it, and neither is a state other than absent.
RouteKey(r) ==
    [f \in RouteFields \ {"metric", "vrf"} |-> r[f]] @@ [gone |-> IsAbsent(r)]

\* What is left of S when its members are inserted in a HashSet, in the order
\* of a kernel dump: one of the members with each key.
Inserted(S) ==
    {T \in SUBSET S : \A r \in S : Cardinality({t \in T : RouteKey(t) = RouteKey(r)}) = 1}

RuleMatch(pattern, r) ==
    /\ \A f \in RuleFields \ {"family", "prio"} :
           \/ Undef(pattern[f])
           \/ pattern[f] = r[f]
           \/ f = "from" /\ pattern[f] = "blank" /\ Undef(r[f])
    /\ Undef(pattern.family) \/ Undef(r.family) \/ pattern.family = r.family
    /\ Undef(pattern.prio) \/ pattern.prio = r.prio

\* resolve_route_next_hop, resolve_rule_iif: a name no interface answers to
\* stays as it is.
Resolve(e, field) ==
    IF Undef(e[field]) \/ KernelName[e[field]] \in {Pending, Unresolved}
    THEN e ELSE [e EXCEPT ![field] = KernelName[e[field]]]

\* Undefined properties are taken from the saved entry; a default metric or
\* priority counts as undefined, a default table does not.
FillUndefined(e, old) ==
    [f \in DOMAIN e |->
        IF f # "state" /\ (e[f] = Undefined \/ (f \in {"metric", "prio"} /\ Undef(e[f])))
        THEN old[f] ELSE e[f]]

\* Every entry of the request, in order, takes the properties it leaves out
\* from the first saved entry it matches that none before it has taken.
Inherit(entries, old, field, Match(_, _)) ==
    LET Take(acc, e) ==
            LET hits == {k \in DOMAIN old \ acc.used :
                            /\ ~IsAbsent(e) /\ ~IsAbsent(old[k])
                            /\ Match(Resolve(e, field), Resolve(old[k], field))}
                k    == CHOOSE k \in hits : \A l \in hits : k =< l
            IN  IF hits = {} THEN [acc EXCEPT !.out = Append(@, e)]
                ELSE [out |-> Append(acc.out, FillUndefined(e, old[k])),
                      used |-> acc.used \cup {k}]
    IN  FoldLeft(Take, [out |-> <<>>, used |-> {}], entries)

(***************************************************************************)
(* Routes: what a request may say                                          *)
(***************************************************************************)
RouteValid(r) ==
    /\ ~IsAbsent(r) =>
        IF r.kind = Undefined THEN r.via # Undefined
        ELSE r.via \in {Undefined, "lo"} /\ r.addr = Undefined
    /\ r.dst \in Reserved => r.kind # Undefined

VrfValid(r) ==
    r.vrf # Undefined =>
        /\ VrfTable[r.vrf] # Undefined
        /\ r.table \in {Undefined, VrfTable[r.vrf]}

ResolveVrf(r) == IF r.vrf = Undefined THEN r ELSE [r EXCEPT !.table = VrfTable[r.vrf]]

Plain ==
    [state |-> "up", desired |-> FALSE, on |-> {"v4", "v6"}, off |-> {},
     dhcp |-> FALSE, recreate |-> FALSE]

In(ifs, state) == {i \in Ifaces : ifs[i].state = state}
Recreated(ifs) == {i \in Ifaces : ifs[i].recreate}

\* Routes of the request that are neither saved only, nor waiting for a radio.
Applicable(routes, ifs) ==
    {Resolve(r, "via") : r \in
        {s \in ToSet(routes) :
            /\ s.state # "saved"
            /\ s.via # Undefined => /\ KernelName[s.via] # Pending
                                    /\ KernelName[s.via] \notin In(ifs, "saved")}}

\* Kernel rejects a gateway that no lease has made reachable yet.
Onlink(r, ifs) ==
    IF /\ r.onlink = Undefined /\ ~IsAbsent(r) /\ RouteFamily(r) = "v4"
       /\ r.addr # Undefined /\ r.via \in Ifaces /\ ifs[r.via].dhcp
    THEN [r EXCEPT !.onlink = "yes"] ELSE r

RouteAllowed(r, ifs) ==
    /\ r.via # Undefined => KernelName[r.via] # Unresolved
    /\ ~IsAbsent(r) /\ r.via \in Ifaces =>
        ifs[r.via].state # "absent" /\ RouteFamily(r) \in ifs[r.via].on

\* The request takes the interface of this current route away from its family.
IpDisabled(r, ifs) == ifs[r.via].desired /\ RouteFamily(r) \notin ifs[r.via].on

\* Current routes that the request removes: the kernel purges those of a link
\* that is deleted, so they are left alone here.
Removed(wanted, current, ifs) ==
    {r \in current :
        /\ r.via \in Ifaces \ (In(ifs, "absent") \cup Recreated(ifs))
        /\ IpDisabled(r, ifs) \/ \E a \in wanted : IsAbsent(a) /\ IsMatch(a, r)}


\* Routes of the request that no current route matches yet.
Added(wanted, current, ifs) ==
    {r \in wanted :
        /\ ~IsAbsent(r)
        /\ r.via \in Recreated(ifs) \/ ~\E c \in current : IsMatch(r, c)}

\* Saved routes of a link that is created anew, unless the request has them.
Reinstated(old, used, changed, ifs) ==
    {old[k] : k \in {l \in DOMAIN old \ used :
        /\ ~IsAbsent(old[l]) /\ old[l].via \in Recreated(ifs)
        /\ ~\E c \in changed : IsMatch(old[l], c)}}


SavedRouteRemoved(r, routes, ifs) ==
    LET k == Resolve(r, "via").via
    IN  \/ \E a \in routes : IsAbsent(a) /\ IsMatch(Resolve(a, "via"), Resolve(r, "via"))
        \/ /\ k \in Ifaces
           /\ \/ ifs[k].state \in {"ignore", "absent"}
              \/ ifs[k].desired /\ RouteFamily(r) \in ifs[k].off

MergeRoutes(request, current, savedRoutes, ifs) ==
    LET desired  == SelectSeq(request, LAMBDA r : r.state # "ignore")
        old      == SetToSeq(savedRoutes)
        inherit  == Inherit([k \in DOMAIN desired |-> ResolveVrf(desired[k])],
                            old, "via", IsMatch)
        wanted   == {Onlink(r, ifs) : r \in Applicable(inherit.out, ifs)}
        removed  == Removed(wanted, current, ifs)
        changed  == {[r EXCEPT !.state = "absent"] : r \in removed}
                        \cup Added(wanted, current, ifs)
        anew     == Reinstated(old, inherit.used, changed, ifs)
    IN  [ok      |-> /\ \A k \in DOMAIN desired :
                            RouteValid(desired[k]) /\ VrfValid(desired[k])
                     /\ \A r \in wanted : RouteAllowed(r, ifs),
         changed |-> changed \cup anew,
         touched |-> {r.via : r \in {w \in wanted : ~IsAbsent(w)} \cup changed \cup anew}
                        \ In(ifs, "ignore"),
         merged  |-> {r \in (current \ removed) \cup Added(wanted, current, ifs) \cup anew :
                        /\ r.via \notin In(ifs, "absent") \cup In(ifs, "ignore")
                        /\ r.via \in Recreated(ifs) => r \notin current
                        /\ r \in current => r.proto = "static"},
         save    |-> {r \in ToSet(inherit.out) : ~IsAbsent(r)}
                        \cup {old[k] : k \in {l \in DOMAIN old \ inherit.used :
                                ~IsAbsent(old[l])
                                /\ ~SavedRouteRemoved(old[l], ToSet(inherit.out), ifs)}}]

\* validate_routes: the kernel cannot hold two routes of one interface to one
\* destination with one metric; a route type or a VRF-wide table is refused.
Sendable(plan) ==
    /\ \A r, s \in plan.merged :
            /\ r.via = s.via /\ r.via \in plan.touched
            /\ r.dst = s.dst /\ r.metric = s.metric
            => RouteKey(r) = RouteKey(s)
    /\ \A r \in plan.changed : r.kind = Undefined /\ r.dst # Undefined


\* generate_revert: forget what was added, bring back what was removed and is
\* part of the configuration (a route the kernel learnt is not).
RevertRoutes(changed, current) ==
    {[r EXCEPT !.state = "absent"] : r \in {c \in changed : ~IsAbsent(c)}}
        \cup {r \in current : /\ r.proto = "static"
                              /\ \E c \in changed : IsAbsent(c) /\ IsMatch(c, r)}

(***************************************************************************)
(* Rules                                                                   *)
(***************************************************************************)
RuleValid(r) ==
    /\ r.from # Undefined \/ r.family # Undefined
    /\ (r.family # Undefined /\ r.from \notin {Undefined, "blank"})
            => (r.family = "v6") = (r.from \in V6)

MainTable == 254

SanitizeRule(r) ==
    [r EXCEPT !.from   = IF @ = "blank" THEN Undefined ELSE @,
              !.family = IF @ = Undefined /\ r.from \notin {Undefined, "blank"}
                         THEN IF r.from \in V6 THEN "v6" ELSE "v4" ELSE @,
              !.table  = IF @ = Undefined /\ r.action = Undefined THEN MainTable ELSE @]

FirstAutoPriority == 30000

\* Rules without a priority get, in the order they are sorted in, the numbers
\* above every rule in place.
AutoPriority(rules, current) ==
    LET top   == CHOOSE n \in {r.prio : r \in current} \cup {FirstAutoPriority - 1} :
                    n >= FirstAutoPriority - 1 /\ \A r \in current : r.prio =< n
        auto  == SetToSeq({r \in rules : ~IsAbsent(r) /\ Undef(r.prio)})
    IN  {r \in rules : IsAbsent(r) \/ ~Undef(r.prio)}
            \cup {[auto[k] EXCEPT !.prio = top + k] : k \in DOMAIN auto}

MergeRules(request, current, savedRules, ifs) ==
    LET absent == {Resolve(r, "iif") : r \in {s \in ToSet(request) : IsAbsent(s)}}
        old    == SetToSeq({SanitizeRule(r) : r \in {s \in savedRules : ~IsAbsent(s)}})
        kept   == SelectSeq(request, LAMBDA r : ~IsAbsent(r))
        inherit == Inherit([k \in DOMAIN kept |-> SanitizeRule(kept[k])],
                           old, "iif", RuleMatch)
        wanted == {Resolve(r, "iif") : r \in ToSet(inherit.out)}
        gone(r) == \/ \E a \in absent : RuleMatch(a, r)
                   \/ r.iif \in In(ifs, "absent")
        notIgnored(r) == r.iif \notin In(ifs, "ignore")
    IN  [ok      |-> /\ \A r \in ToSet(request) : RuleValid(r)
                     /\ \A r \in ToSet(kept) : RuleValid(SanitizeRule(r)),
         changed |-> {r \in AutoPriority(
                            {[r EXCEPT !.state = "absent"] : r \in {c \in current : gone(c)}}
                            \cup {r \in wanted : ~\E c \in current : RuleMatch(r, c)},
                            current) : notIgnored(r)},
         verify  |-> {r \in wanted : notIgnored(r)},
         save    |-> {r \in ToSet(inherit.out)
                            \cup {old[k] : k \in {l \in DOMAIN old \ inherit.used :
                                                    ~gone(Resolve(old[l], "iif"))}} :
                        notIgnored(r)}]


\* (mutant) The rules that were removed are not brought back.
RevertRulesAdded(changed, current) ==
    {[r EXCEPT !.state = "absent"] : r \in {c \in changed : ~IsAbsent(c)}}

RevertRules(changed, current) ==
    {[r EXCEPT !.state = "absent"] : r \in {c \in changed : ~IsAbsent(c)}}
        \cup {r \in current : \E c \in changed : IsAbsent(c) /\ RuleMatch(c, r)}

\* MergedRouteRules::verify against the rules the kernel now has.
RulesVerified(plan, rules) ==
    /\ \A r \in plan.verify : \E c \in rules : RuleMatch(r, c)
    /\ \A r \in plan.changed : IsAbsent(r) => ~\E c \in rules : RuleMatch(r, c)
(***************************************************************************)
(* The apply                                                               *)
(***************************************************************************)
Idle == [phase |-> "asked", attempt |-> 1, undoing |-> FALSE, plan |-> Undefined,
         routes |-> <<>>, rules |-> <<>>, revert |-> Undefined]

Init ==
    /\ req \in Requests /\ ifaces = req.ifaces
    /\ kernel \in KernelStates /\ saved \in SavedStates
    /\ found = [kernel |-> kernel, saved |-> saved]
    /\ job = Idle /\ faults = 0

\* The messages for the rules: sorted, and every removal before any addition.
RuleMessages(changed) ==
    SetToSeq({r \in changed : IsAbsent(r)}) \o SetToSeq({r \in changed : ~IsAbsent(r)})

\* MergedNetworkState::new, and the state that would undo it.  The HashSet of
\* changed routes is drained once, in any order.
NothingSaved == [routes |-> {}, rules |-> {}]

Plan(routes, rules, old, ifs, undo) ==
    LET p == MergeRoutes(routes, kernel.routes, old.routes, ifs)
        q == MergeRules(rules, kernel.rules, old.rules, ifs)
    IN  IF ~(p.ok /\ q.ok)
        THEN job' = [job EXCEPT !.phase = IF undo THEN "stuck" ELSE "refused"]
        ELSE \E changed \in Inserted(p.changed), save \in Inserted(p.save) :
             \E order \in SetToSeqs(changed) :
                job' = [job EXCEPT
                    !.phase  = "ifaces", !.undoing = undo,
                    !.plan   = [routes |-> [p EXCEPT !.changed = changed, !.save = save],
                                rules |-> q, order |-> order],
                    !.revert = [routes |-> SetToSeq(RevertRoutes(changed, kernel.routes)),
                                rules |-> SetToSeq(RevertRules(q.changed, kernel.rules))]]

Merge ==
    /\ job.phase = "asked"
    /\ Plan(req.routes, req.rules, saved, ifaces, FALSE)
    /\ UNCHANGED <<ifaces, kernel, saved, req, found, faults>>

\* An error ends the attempt: the first one is retried when it may pass, the
\* second is followed by the rollback, and a failed rollback is only logged.
Failed(retriable) ==
    job' = [job EXCEPT
        !.phase   = IF job.undoing THEN "stuck"
                    ELSE IF retriable /\ job.attempt = 1 THEN "ifaces" ELSE "failed",
        !.attempt = 2]


\* The interfaces go first: the kernel purges the routes of a deleted link.
\* Then the routes are checked, and queued when some interface is touched.
ApplyIfaces ==
    /\ job.phase = "ifaces"
    /\ kernel' = [kernel EXCEPT !.routes =
            {r \in @ : r.via \notin In(ifaces, "absent") \cup Recreated(ifaces)}]
    /\ IF job.plan.routes.touched # {} /\ ~Sendable(job.plan.routes)
       THEN Failed(FALSE)
       ELSE job' = [job EXCEPT
                !.phase  = "routes",
                !.routes = IF job.plan.routes.touched = {} THEN <<>> ELSE job.plan.order,
                !.rules  = RuleMessages(job.plan.rules.changed)]
    /\ UNCHANGED <<ifaces, saved, req, found, faults>>


\* route_message: the properties of a route that reach the kernel.  An MTU (as
\* the other metrics) is accepted and not sent.
Message(r) ==
    [r EXCEPT !.state = "kernel", !.mtu = Undefined, !.vrf = Undefined,
              !.table = IF Undef(@) THEN MainTable ELSE @,
              !.metric = IF Undef(@) THEN 0 ELSE @,
              !.addr = IF @ = Undefined THEN "none" ELSE @,
              !.proto = IF @ = Undefined THEN "static" ELSE @]

\* What RTM_NEWROUTE and RTM_DELROUTE do: a table holds one route for each
\* destination and metric; EEXIST and ESRCH count as success.
Install(r, routes) ==
    IF \E c \in routes : c.dst = r.dst /\ c.table = r.table /\ c.metric = r.metric
    THEN routes ELSE routes \cup {r}

Uninstall(r, routes) ==
    routes \ {c \in routes : /\ c.dst = r.dst /\ c.table = r.table /\ c.via = r.via
                             /\ c.addr = r.addr /\ c.metric = r.metric}

SendRoute ==
    /\ job.phase = "routes" /\ job.routes # <<>>
    /\ LET r == Head(job.routes) IN
        IF r.kind # Undefined \/ r.dst = Undefined
        THEN Failed(FALSE) /\ UNCHANGED kernel
        ELSE /\ kernel' = [kernel EXCEPT !.routes =
                    IF IsAbsent(r) THEN Uninstall(Message(r), @) ELSE Install(Message(r), @)]
             /\ job' = [job EXCEPT !.routes = Tail(@)]
    /\ UNCHANGED <<ifaces, saved, req, found, faults>>

\* Rules follow when every route is sent.
SendRule ==
    /\ job.phase = "routes" /\ job.routes = <<>> /\ job.rules # <<>>
    /\ LET r == Head(job.rules) IN
        kernel' = [kernel EXCEPT !.rules =
            IF IsAbsent(r) THEN {c \in @ : ~RuleMatch(r, c)}
            ELSE @ \cup {[r EXCEPT !.state = "kernel"]}]
    /\ job' = [job EXCEPT !.rules = Tail(@)]
    /\ UNCHANGED <<ifaces, saved, req, found, faults>>

\* A netlink call fails, or another part of the apply does.
KernelRefuses ==
    /\ job.phase = "routes" /\ faults < MaxFaults
    /\ faults' = faults + 1
    /\ Failed(TRUE)
    /\ UNCHANGED <<ifaces, kernel, saved, req, found>>

Sent == job.phase = "routes" /\ job.routes = <<>> /\ job.rules = <<>>

\* Rules are verified and routes are not; then the state is saved.
VerifyAndSave ==
    /\ Sent /\ ~job.undoing
    /\ IF RulesVerified(job.plan.rules, kernel.rules)
       THEN /\ job' = [job EXCEPT !.phase = "applied"]
            /\ saved' = [routes |-> job.plan.routes.save, rules |-> job.plan.rules.save]
       ELSE Failed(TRUE) /\ UNCHANGED saved
    /\ UNCHANGED <<ifaces, kernel, req, found, faults>>

\* rollback: the revert state is merged with the tables as they are now, with
\* no saved state; the interfaces are back as they were.
Rollback ==
    /\ job.phase = "failed"
    /\ ifaces' = [i \in Ifaces |-> Plain]
    /\ Plan(job.revert.routes, job.revert.rules, NothingSaved, ifaces', TRUE)
    /\ UNCHANGED <<kernel, saved, req, found, faults>>

RollbackDone ==
    /\ Sent /\ job.undoing
    /\ job' = [job EXCEPT !.phase = "restored"]
    /\ UNCHANGED <<ifaces, kernel, saved, req, found, faults>>

Done ==
    /\ job.phase \in {"refused", "applied", "restored", "stuck"}
    /\ UNCHANGED vars

Next ==
    \/ Merge \/ ApplyIfaces \/ SendRoute \/ SendRule \/ KernelRefuses
    \/ VerifyAndSave \/ Rollback \/ RollbackDone \/ Done

Spec == Init /\ [][Next]_vars
-----------------------------------------------------------------------------
\* Routes the request wants in the kernel now.
WantedNow ==
    {r \in {Resolve(req.routes[k], "via") : k \in DOMAIN req.routes} :
        /\ r.state = Undefined /\ r.via \in Ifaces
        /\ req.ifaces[r.via].state = "up"}

Holds(r, routes) ==
    \E c \in routes : /\ c.dst = r.dst /\ c.via = r.via
                      /\ Undef(r.addr) \/ c.addr = r.addr
                      /\ Undef(r.metric) \/ c.metric = r.metric

\* A route changed by one request: the request removes entries and adds one
\* for the same destination.  After an apply that reports success the kernel
\* has the new route.
RouteChangedInOneTransaction ==
    job.phase = "applied" => \A r \in WantedNow : Holds(r, kernel.routes)

StaticRoutes(routes) ==
    {<<r.dst, r.via, r.addr, r.metric, r.table, r.src>> :
        r \in {c \in routes : c.proto = "static"}}

\* The request takes no link away and puts nothing in the place of a route or
\* a rule it removes.
NoReplacement ==
    /\ \A i \in Ifaces : req.ifaces[i].state # "absent" /\ ~req.ifaces[i].recreate
    /\ \A r \in WantedNow : /\ r.vrf = Undefined /\ r.mtu = Undefined
                           /\ \A c \in found.kernel.routes : c.dst # r.dst

\* A rollback that completes leaves the kernel with the static routes and the
\* rules it had before the failed apply, wherever the two attempts stopped:
\* the revert state, merged with the tables as they are by then, names exactly
\* what is missing and what is too much.
RollbackRestoresTables ==
    (job.phase = "restored" /\ NoReplacement) =>
        /\ StaticRoutes(kernel.routes) = StaticRoutes(found.kernel.routes)
        /\ kernel.rules = found.kernel.rules

=============================================================================
