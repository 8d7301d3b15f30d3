-------------------------------- MODULE Events --------------------------------
(***************************************************************************)
(* The activation of saved profiles by link events: the watches the        *)
(* monitor manager registers (daemon/monitor/monitor_manager.rs), the      *)
(* event worker that turns a batch of link events into a state to apply    *)
(* (daemon/event/event_worker.rs), the rule of auto-connect                *)
(* (lib/schema/auto_connect.rs) and the boot activation that creates       *)
(* virtual interfaces (daemon/commander.rs).                               *)
(*                                                                         *)
(* The monitor worker itself is module Monitor.  Here it is what that      *)
(* module promises: it remembers per link name what it last reported and   *)
(* reports, alone or together with others, a watched link that differs     *)
(* from that record, unless it is paused.  A saved profile is what decides *)
(* when it is activated; its addresses, routes and rules are the single    *)
(* value "the link carries this profile".                                  *)
(***************************************************************************)
EXTENDS Naturals, FiniteSets, Sequences, SequencesExt, TLC

CONSTANTS
    Dev,            \* network cards; a card stands for its MAC address
    NamesOf,        \* the kernel names a card may get, disjoint
    Radio,          \* the cards that are wifi-phys
    Ssid,           \* wireless networks
    Hosts,          \* saved states a host may boot with
    Requests,       \* profiles a client may apply or remove: name |-> profile
    MaxChanges,     \* bound on changes of the links
    MaxRequests,    \* bound on client requests
    MaxFaults,      \* bound on failures of the plugin and of resume()
    None

VARIABLES
    saved,          \* profile name |-> profile
    links,          \* kernel name |-> link
    names, macs, wifi,   \* the watches of the monitor
    emitted,        \* kernel name |-> link state last reported
    paused,         \* applies that hold the monitor paused
    queue,          \* batches of events on their way to the event worker
    pc, job,        \* the event worker
    changes, requests, faults,
    dropped,        \* links of a batch that failed and is not driven again
    late,           \* links changed in a way their events do not show
    unheard         \* cards without a MAC watch whose link was not reported yet

watches == <<names, macs, wifi, unheard>>
bounds == <<changes, requests, faults>>
vars == <<saved, links, watches, emitted, paused, queue, pc, job, bounds,
          dropped, late>>

Name == UNION {NamesOf[d] : d \in Dev}
(***************************************************************************)
(* Profiles and links.  `id` says whether a profile names its NIC by       *)
(* kernel name (the name of the profile) or by MAC address.                *)
(***************************************************************************)
Profile(type, id, dev, auto, ssid, state, parent, ports) ==
    [type |-> type, id |-> id, dev |-> dev, auto |-> auto, ssid |-> ssid,
     state |-> state, parent |-> parent, ports |-> ports]

IsManual(p) == p.auto = "manual"
IsVirtual(p) == p.type = "virt"
IsUserspace(p) == p.type = "wifi-cfg"

Link(type, dev, up, ssid, cfg, parent) ==
    [type |-> type, dev |-> dev, up |-> up, ssid |-> ssid, cfg |-> cfg,
     parent |-> parent]

Seen(l) == [up |-> l.up, ssid |-> l.ssid]

(* saved_iface_matches_event(): the name of the NIC, or its MAC address for *)
(* a profile identified by MAC.                                             *)
Matches(q, p, n, L) ==
    \/ ~IsUserspace(p) /\ p.id = "name" /\ q = n
    \/ p.id = "mac" /\ n \in DOMAIN L /\ L[n].dev = p.dev

(***************************************************************************)
(* The watches.                                                            *)
(***************************************************************************)
wifi_monitor_is_needed(s) ==
    \E q \in DOMAIN s :
        s[q].state # "ignore" /\ (IsUserspace(s[q]) \/ s[q].auto \in {"wifi", "wifi-not"})

nic_is_active(q, p, L) == \E n \in DOMAIN L : Matches(q, p, n, L)

(* What setup_saved_state_monitors() watches: W is [names, macs, wifi].     *)
Watched(s) == {q \in DOMAIN s : s[q].state # "ignore" /\ ~IsManual(s[q]) /\ ~IsUserspace(s[q])}

SavedWatches(W, s, L, watch_active) ==
    LET mac == {q \in Watched(s) : s[q].id = "mac"}
        active == {q \in mac : nic_is_active(q, s[q], L) /\ ~watch_active}
    IN [wifi |-> wifi_monitor_is_needed(s),
        names |-> W.names \cup {q \in Watched(s) \ mac :
                                  watch_active \/ ~nic_is_active(q, s[q], L)},
        macs |-> (W.macs \ {s[q].dev : q \in active})
                    \cup {s[q].dev : q \in mac \ active}]

(* setup_monitor(): the watches of what was applied, then of the rest.      *)
ApplyWatches(W, applied, s, L) ==
    LET gone == {n \in DOMAIN applied : applied[n].state = "absent"}
        kept == {n \in DOMAIN applied :
                   /\ applied[n].state # "absent"
                   /\ (applied[n].auto = "auto" \/ applied[n].id = "mac")}
        mac == {applied[n].dev : n \in {m \in gone : applied[m].id = "mac"}}
    IN SavedWatches([wifi |-> W.wifi, names |-> (W.names \ gone) \cup kept,
                     macs |-> W.macs \ mac], s, L, FALSE)

SetWatches(W, L) ==
    /\ names' = W.names
    /\ macs' = W.macs
    /\ wifi' = W.wifi
    /\ unheard' = (unheard \cup {d \in macs : \A n \in W.names \cap DOMAIN L : L[n].dev # d})
                    \ W.macs

Interesting(n, W, L) ==
    \/ n \in W.names
    \/ n \in DOMAIN L /\ (L[n].dev \in W.macs \/ (W.wifi /\ L[n].type = "wifi-phy"))

(* A watched link whose record is missing, or differs: a link that was up   *)
(* on one network and is up on another is not told apart (try_notify).      *)
Reportable(W, L) ==
    {n \in DOMAIN emitted : n \notin DOMAIN L}
      \cup {n \in DOMAIN L : /\ Interesting(n, W, L)
                             /\ n \in DOMAIN emitted => emitted[n].up # L[n].up}

Watches == [names |-> names, macs |-> macs, wifi |-> wifi]

Event(n, L) ==
    [name |-> n, delete |-> n \notin DOMAIN L,
     up |-> n \in DOMAIN L /\ L[n].up,
     type |-> IF n \in DOMAIN L THEN L[n].type ELSE None,
     ssid |-> IF n \in DOMAIN L THEN L[n].ssid ELSE None]

Recorded(E, S, L) ==
    [n \in (DOMAIN E \ S) \cup (S \cap DOMAIN L) |-> IF n \in S THEN Seen(L[n]) ELSE E[n]]

Batch(S, L) == LET order == SetToSeq(S) IN [i \in DOMAIN order |-> Event(order[i], L)]

(* The kernel tells the monitor of the links that became L, one by one.     *)
Multicast(L) ==
    LET S == Reportable(Watches, L)
        order == SetToSeq(S)
    IN IF paused > 0 \/ pc = "boot" THEN UNCHANGED <<queue, emitted>>
       ELSE /\ queue' = queue \o [i \in DOMAIN order |-> <<Event(order[i], L)>>]
            /\ emitted' = Recorded(emitted, S, L)

(* The reconciliation reports what is watched and has no record, as one     *)
(* batch.                                                                   *)
Report ==
    LET S == Reportable(Watches, links)
    IN /\ pc # "boot" /\ paused = 0 /\ S # {}
       /\ queue' = Append(queue, Batch(S, links))
       /\ emitted' = Recorded(emitted, S, links)
       /\ UNCHANGED <<saved, links, watches, paused, pc, job, bounds, dropped, late>>

(***************************************************************************)
(* From a batch of events to the state to apply: kernel name |-> entry.    *)
(***************************************************************************)
Entry(want, q) == [want |-> want, prof |-> q]

Entries(S, want) == [n \in S |-> Entry(want, n)]

is_stale_link_down_event(e, cur) ==
    ~e.up /\ ~e.delete /\ e.name \in DOMAIN cur /\ cur[e.name].up

IgnoredByName(e, s, cur) == e.name \in DOMAIN s /\ s[e.name].state = "ignore"

saved_state_ignores_event(e, s, cur) ==
    \E q \in DOMAIN s : s[q].state = "ignore" /\ Matches(q, s[q], e.name, cur)

nic_is_gone(e, cur) == e.delete \/ e.name \notin DOMAIN cur

(* An association the event does not name yet is looked up again.           *)
EventSsid(e, cur) == IF e.ssid = None THEN cur[e.name].ssid ELSE e.ssid

(* The wifi-cfg profiles of the network a wifi-phy came up on.              *)
handle_wifi_phy_event(e, s, cur) ==
    LET mine == {q \in DOMAIN s : /\ e.type = "wifi-phy" /\ e.up
                                  /\ EventSsid(e, cur) # None
                                  /\ IsUserspace(s[q]) /\ s[q].ssid = EventSsid(e, cur)}
    IN IF mine = {} THEN <<>> ELSE e.name :> Entry("cfg", CHOOSE q \in mine : TRUE)

Connected(ssid, cur) ==
    \E n \in DOMAIN cur : cur[n].type = "wifi-phy" /\ cur[n].ssid = ssid

(* process_auto_connect(): undefined is `true`, and `true` follows the NIC  *)
(* of the event; a condition on a network is looked at for every event.     *)
ByNic(e, s, cur) ==
    {q \in DOMAIN s : /\ s[q].auto \in {"undef", "auto"} /\ ~IsUserspace(s[q])
                      /\ Matches(q, s[q], e.name, cur)}

ByNetwork(s, cur, holds) ==
    {q \in DOMAIN s : /\ s[q].auto \in {"wifi", "wifi-not"}
                      /\ holds = (Connected(s[q].ssid, cur) = (s[q].auto = "wifi"))}

handle_event_auto_connect(e, s, cur) ==
    LET nic == ByNic(e, s, cur)
        off == ByNetwork(s, cur, FALSE)
    IN Entries(ByNetwork(s, cur, TRUE), "cfg")
         @@ Entries({q \in off : IsVirtual(s[q])}, "absent")
         @@ Entries({q \in off : ~IsVirtual(s[q])}, "down")
         @@ (IF nic = {} THEN <<>>
             ELSE e.name :> Entry(IF e.up THEN "cfg" ELSE "purge", CHOOSE q \in nic : TRUE))

(* A wifi-phy that lost its link is purged, unless its own profile was.     *)
gen_wifi_phy_ip_purge(e, s, cur) ==
    IF e.up \/ e.type # "wifi-phy" \/ ByNic(e, s, cur) # {} THEN <<>>
    ELSE e.name :> Entry("purge", None)

event_identity_names(e, s, cur) ==
    {e.name} \cup {q \in DOMAIN s : Matches(q, s[q], e.name, cur)}

virtual_depends_on_event(p, on) == p.ports \cap on # {} \/ p.parent \in on

DependentsByPort(e, s, cur) ==
    {q \in DOMAIN s : /\ IsVirtual(s[q]) /\ s[q].state # "ignore" /\ ~IsManual(s[q])
                      /\ s[q].ports \cap event_identity_names(e, s, cur) # {}
                      /\ q \notin DOMAIN cur}

gen_missing_virtual_dependents(e, s, cur) ==
    LET on == event_identity_names(e, s, cur)
    IN {q \in DOMAIN s : /\ IsVirtual(s[q]) /\ s[q].state # "ignore" /\ ~IsManual(s[q])
                         /\ virtual_depends_on_event(s[q], on)
                         /\ q \notin DOMAIN cur}

(* One event of the batch; what is pushed later replaces what has its name. *)
HandleEvent(acc, e, s, cur) ==
    IF is_stale_link_down_event(e, cur) \/ saved_state_ignores_event(e, s, cur) THEN acc
    ELSE IF nic_is_gone(e, cur) THEN [acc EXCEPT !.rearm = TRUE]
    ELSE LET new == gen_missing_virtual_dependents(e, s, cur) \ acc.added
         IN [rearm |-> acc.rearm,
             added |-> acc.added \cup new,
             desired |-> Entries(new, "cfg") @@ gen_wifi_phy_ip_purge(e, s, cur)
                           @@ handle_event_auto_connect(e, s, cur)
                           @@ handle_wifi_phy_event(e, s, cur) @@ acc.desired]

Handle(batch, s, cur) ==
    FoldLeft(LAMBDA acc, e : HandleEvent(acc, e, s, cur),
             [rearm |-> FALSE, added |-> {}, desired |-> <<>>], batch)

(***************************************************************************)
(* The apply, as far as this module needs it.                              *)
(***************************************************************************)
Creates(D, s, cur) ==
    {n \in DOMAIN D : D[n].want = "cfg" /\ n \notin DOMAIN cur /\ IsVirtual(s[D[n].prof])}

(* handle_changed_ports(): a new controller whose port does not exist is    *)
(* refused with everything else of the batch.                               *)
Mergeable(D, s, cur) ==
    \A n \in Creates(D, s, cur) : s[n].ports \subseteq DOMAIN cur \cup DOMAIN D

(* The kernel refuses a link that is gone, and a link without its parent.   *)
Fits(D, s, cur, L) ==
    /\ \A n \in DOMAIN D : n \in DOMAIN cur => n \in DOMAIN L \/ D[n].want = "absent"
    /\ \A n \in Creates(D, s, cur) :
          n \notin DOMAIN L /\ s[n].parent \in {None} \cup DOMAIN L \cup Creates(D, s, cur)

Without(L, S) ==
    [n \in {m \in DOMAIN L : m \notin S /\ L[m].parent \notin S} |-> L[n]]

Applied(D, S, s, L) ==
    LET rest == Without(L, {n \in S : D[n].want = "absent"})
        set == [n \in S \cap DOMAIN rest |->
                  [rest[n] EXCEPT !.cfg = IF D[n].want = "cfg" THEN D[n].prof ELSE None,
                                  !.up = rest[n].up /\ D[n].want # "down"]]
        new == [n \in S \cap Creates(D, s, rest) |->
                  Link("virt", None, s[n].parent \in DOMAIN L => L[s[n].parent].up,
                       None, n, s[n].parent)]
    IN set @@ new @@ rest

(***************************************************************************)
(* The event worker.                                                       *)
(***************************************************************************)
NoJob == [desired |-> <<>>, saved |-> <<>>, cur |-> {}, failed |-> "no"]

(* handle_events() up to the pause: the saved and the running state are     *)
(* read, watches are armed again for a NIC that is gone, and a batch that   *)
(* asks for nothing, or cannot be merged, ends here.                        *)
TakeBatch ==
    /\ pc = "idle" /\ queue # <<>>
    /\ LET h == Handle(Head(queue), saved, links)
           D == h.desired
       IN /\ queue' = Tail(queue)
          /\ IF h.rearm
             THEN SetWatches(SavedWatches(Watches, saved, links, TRUE), links)
             ELSE UNCHANGED watches
          /\ IF D = <<>> \/ ~Mergeable(D, saved, links)
             THEN /\ dropped' = dropped \cup DOMAIN D
                  /\ UNCHANGED <<pc, job, paused>>
             ELSE /\ pc' = "apply"
                  /\ job' = [desired |-> D, saved |-> saved, cur |-> DOMAIN links, failed |-> "no"]
                  /\ paused' = paused + 1
                  /\ UNCHANGED dropped
    /\ UNCHANGED <<saved, links, emitted, bounds, late>>

Cur == [n \in job.cur |-> None]

ApplyBatch ==
    /\ pc = "apply"
    /\ Fits(job.desired, job.saved, Cur, links)
    /\ links' = Applied(job.desired, DOMAIN job.desired, job.saved, links)
    /\ pc' = "setup"
    /\ UNCHANGED <<saved, watches, emitted, paused, queue, job, bounds, dropped, late>>

(* The kernel refuses one entry: some of the others may have been applied.  *)
ApplyRefused ==
    /\ pc = "apply"
    /\ ~Fits(job.desired, job.saved, Cur, links)
    /\ \E S \in SUBSET {n \in DOMAIN job.desired :
                          n \in DOMAIN links \/ Fits(n :> job.desired[n], job.saved, Cur, links)} :
          links' = Applied(job.desired, S, job.saved, links)
    /\ pc' = "resume"
    /\ job' = [job EXCEPT !.failed = "refused"]
    /\ UNCHANGED <<saved, watches, emitted, paused, queue, bounds, dropped, late>>

(* The kernel part is done and a plugin or the start of DHCP fails twice:   *)
(* no link carries the whole of its profile yet.                            *)
ApplyFails ==
    /\ pc = "apply" /\ faults < MaxFaults
    /\ Fits(job.desired, job.saved, Cur, links)
    /\ LET L == Applied(job.desired, DOMAIN job.desired, job.saved, links)
       IN links' = [n \in DOMAIN L |->
                      IF n \in DOMAIN job.desired /\ job.desired[n].want = "cfg"
                      THEN [L[n] EXCEPT !.cfg = IF n \in DOMAIN links THEN links[n].cfg ELSE None]
                      ELSE L[n]]
    /\ pc' = "resume"
    /\ job' = [job EXCEPT !.failed = "retriable"]
    /\ faults' = faults + 1
    /\ UNCHANGED <<saved, watches, emitted, paused, queue, changes, requests, dropped, late>>

AppliedEntries ==
    [n \in DOMAIN job.desired |->
       LET q == job.desired[n].prof
       IN [state |-> IF job.desired[n].want = "absent" THEN "absent" ELSE "up",
           auto |-> None,
           id |-> IF q = None THEN "name" ELSE job.saved[q].id,
           dev |-> IF q = None THEN None ELSE job.saved[q].dev]]

setup_monitor ==
    /\ pc = "setup"
    /\ SetWatches(ApplyWatches(Watches, AppliedEntries, job.saved, links), links)
    /\ pc' = "resume"
    /\ UNCHANGED <<saved, links, emitted, paused, queue, job, bounds, dropped, late>>

ResumeKeepsRecords ==
    /\ pc = "resume"
    /\ paused' = paused - 1
    /\ LET S == Reportable(Watches, links)
       IN /\ queue' = IF S = {} THEN queue ELSE Append(queue, Batch(S, links))
          /\ emitted' = Recorded(emitted, S, links)
    /\ dropped' = IF job.failed = "refused" THEN dropped \cup DOMAIN job.desired
                  ELSE dropped \ DOMAIN job.desired
    /\ pc' = "idle" /\ job' = NoJob
    /\ UNCHANGED <<saved, links, watches, bounds, late>>

(* The resumed monitor reports what changed meanwhile.  After a failure     *)
(* that may pass, the records of the batch are forgotten.                   *)
ResumeMonitor ==
    /\ pc = "resume"
    /\ paused' = paused - 1
    /\ LET S == Reportable(Watches, links)
           now == Recorded(emitted, S, links)
       IN /\ queue' = IF S = {} THEN queue ELSE Append(queue, Batch(S, links))
          /\ emitted' = IF job.failed = "retriable"
                        THEN [n \in DOMAIN now \ DOMAIN job.desired |-> now[n]]
                        ELSE now
    /\ dropped' = IF job.failed = "refused" THEN dropped \cup DOMAIN job.desired
                  ELSE dropped \ DOMAIN job.desired
    /\ pc' = "idle" /\ job' = NoJob
    /\ UNCHANGED <<saved, links, watches, bounds, late>>

(* resume() fails: handle_events() returns before forget_emitted().         *)
ResumeFails ==
    /\ pc = "resume" /\ faults < MaxFaults
    /\ faults' = faults + 1
    /\ paused' = paused - 1
    /\ dropped' = IF job.failed = "no" THEN dropped \ DOMAIN job.desired
                  ELSE dropped \cup DOMAIN job.desired
    /\ late' = late \cup Reportable(Watches, links)
    /\ pc' = "idle" /\ job' = NoJob
    /\ UNCHANGED <<saved, links, watches, emitted, queue, changes, requests>>

(***************************************************************************)
(* Boot activation.                                                        *)
(***************************************************************************)
(* remove_manual_activation(): without the manual profiles and what is      *)
(* built on them.                                                           *)
Excluded[k \in 0..Cardinality(DOMAIN saved)] ==
    IF k = 0 THEN {q \in DOMAIN saved : IsManual(saved[q])}
    ELSE Excluded[k - 1] \cup {q \in DOMAIN saved : saved[q].parent \in Excluded[k - 1]}

Activated ==
    LET out == Excluded[Cardinality(DOMAIN saved)]
    IN [q \in DOMAIN saved \ out |-> saved[q]]

(* gen_non_nic_state(): all virtual interfaces, in one apply.               *)
gen_non_nic_state(s) ==
    Entries({q \in DOMAIN s : IsVirtual(s[q]) /\ s[q].state # "ignore"}, "cfg")

boot_apply_inner ==
    /\ pc = "boot"
    /\ LET s == Activated
           D == gen_non_nic_state(s)
           L == IF Mergeable(D, s, links) /\ Fits(D, s, links, links)
                THEN Applied(D, DOMAIN D, s, links) ELSE links
           W == SavedWatches(Watches, s, L, TRUE)
           first == Reportable(W, L)
       IN /\ links' = L
          /\ SetWatches(W, L)
          /\ emitted' = [n \in first |-> Seen(L[n])]
          /\ queue' = <<Batch(first, L)>>
    /\ pc' = "idle"
    /\ UNCHANGED <<saved, paused, job, bounds, dropped, late>>

(***************************************************************************)
(* A client applies a profile, or removes one, in a transaction of its own. *)
(***************************************************************************)
Pending(n) ==
    \/ pc \in {"apply", "setup"} /\ n \in DOMAIN job.desired
    \/ \E batch \in ToSet(queue) : \E e \in ToSet(batch) : e.name = n

Target(q, p) == {n \in DOMAIN links : Matches(q, p, n, links)}

AsApplied(p, state) == [state |-> state, auto |-> p.auto, id |-> p.id, dev |-> p.dev]

(* What a transaction does around its apply: the watches are set up and the *)
(* monitor is resumed.                                                      *)
Conclude(n, entry, s) ==
    LET W == ApplyWatches(Watches, n :> entry, s, links')
        S == Reportable(W, links')
    IN /\ SetWatches(W, links')
       /\ saved' = s
       /\ IF paused > 0 \/ S = {} THEN UNCHANGED <<queue, emitted>>
          ELSE /\ queue' = Append(queue, Batch(S, links'))
               /\ emitted' = Recorded(emitted, S, links')

ClientApply(q) ==
    LET p == Requests[q]
    IN /\ pc # "boot" /\ requests < MaxRequests /\ q \notin DOMAIN saved
       /\ requests' = requests + 1
       /\ \E n \in Target(q, p) :
            /\ links[n].up
            /\ \A r \in DOMAIN saved : ~Matches(r, saved[r], n, links)
            /\ links' = [links EXCEPT ![n].cfg = q]
            /\ late' = late \ {n}
            /\ Conclude(n, AsApplied(p, "up"), (q :> p) @@ saved)
       /\ UNCHANGED <<paused, pc, job, changes, faults, dropped>>

ClientRemove(q) ==
    LET p == saved[q]
    IN /\ pc # "boot" /\ requests < MaxRequests /\ q \in DOMAIN saved
       /\ requests' = requests + 1
       /\ \E n \in Target(q, p) :
            /\ links' = IF IsVirtual(p) THEN Without(links, {n})
                        ELSE [links EXCEPT ![n].cfg = None, ![n].up = FALSE]
            /\ late' = late \cup (IF Pending(n) THEN {n} ELSE {})
            /\ Conclude(n, AsApplied(p, "absent"), [r \in DOMAIN saved \ {q} |-> saved[r]])
       /\ UNCHANGED <<paused, pc, job, changes, faults, dropped>>

(***************************************************************************)
(* The kernel and the cards.                                               *)
(***************************************************************************)
Change == changes < MaxChanges /\ changes' = changes + 1

TypeOf(d) == IF d \in Radio THEN "wifi-phy" ELSE "eth"

Plug(d, n) ==
    /\ Change
    /\ \A m \in DOMAIN links : links[m].dev # d
    /\ links' = (n :> Link(TypeOf(d), d, FALSE, None, None, None)) @@ links
    /\ late' = late \cup (IF n \in DOMAIN emitted THEN {n} ELSE {})
    /\ Multicast(links')
    /\ UNCHANGED <<saved, watches, paused, pc, job, requests, faults, dropped>>

(* The kernel removes what is built on a link with it.                      *)
Unplug(n) ==
    /\ Change
    /\ n \in DOMAIN links /\ links[n].dev # None
    /\ links' = Without(links, {n})
    /\ unheard' = unheard \cup (IF n \in DOMAIN emitted \/ links[n].dev \in macs THEN {}
                              ELSE {links[n].dev})
    /\ Multicast(links')
    /\ UNCHANGED <<saved, names, macs, wifi, paused, pc, job, requests, faults, dropped, late>>

Carrier(n, up, ssid) ==
    /\ Change
    /\ n \in DOMAIN links /\ links[n].dev # None /\ links[n].up # up
    /\ ssid # None <=> up /\ links[n].type = "wifi-phy"
    /\ links' = [m \in DOMAIN links |->
                   IF m = n THEN [links[m] EXCEPT !.up = up, !.ssid = ssid]
                   ELSE IF links[m].parent = n THEN [links[m] EXCEPT !.up = up]
                   ELSE links[m]]
    /\ Multicast(links')
    /\ UNCHANGED <<saved, watches, paused, pc, job, requests, faults, dropped, late>>

(***************************************************************************)
(* The specification.  A host boots with its cards in any state.           *)
(***************************************************************************)
Start(d) == {Link(TypeOf(d), d, up, ssid, None, None) :
               up \in BOOLEAN, ssid \in Ssid \cup {None}}

Init ==
    /\ \E h \in Hosts :
         /\ saved = h.saved
         /\ \E present \in h.present :
              links \in [{CHOOSE n \in NamesOf[d] : TRUE : d \in present} ->
                           UNION {Start(d) : d \in present}]
    /\ \A n \in DOMAIN links :
         /\ n \in NamesOf[links[n].dev]
         /\ links[n].ssid # None <=> links[n].up /\ links[n].type = "wifi-phy"
    /\ names = {} /\ macs = {} /\ wifi = FALSE /\ unheard = {}
    /\ emitted = <<>> /\ paused = 0 /\ queue = <<>>
    /\ pc = "boot" /\ job = NoJob
    /\ changes = 0 /\ requests = 0 /\ faults = 0
    /\ dropped = {} /\ late = {}

Worker ==
    \/ TakeBatch \/ ApplyBatch \/ ApplyRefused \/ ApplyFails
    \/ setup_monitor \/ ResumeMonitor \/ ResumeFails

Next ==
    \/ boot_apply_inner
    \/ Report
    \/ Worker
    \/ \E q \in DOMAIN Requests : ClientApply(q) \/ ClientRemove(q)
    \/ \E d \in Dev : \E n \in NamesOf[d] : Plug(d, n)
    \/ \E n \in Name : Unplug(n)
    \/ \E n \in Name, up \in BOOLEAN, ssid \in Ssid \cup {None} : Carrier(n, up, ssid)

Spec == Init /\ [][Next]_vars

AtRest ==
    pc = "idle" /\ queue = <<>> /\ Reportable(Watches, links) = {}

Automatic(q) == saved[q].auto \in {"undef", "auto"} /\ saved[q].state # "ignore"

IgnoredNic(n) == \E q \in DOMAIN saved : saved[q].state = "ignore" /\ Matches(q, saved[q], n, links)

(* The profiles that ask for a NIC, or for the network it is on.            *)
Wanted(n) ==
    {q \in DOMAIN saved : ~IsUserspace(saved[q]) /\ Automatic(q) /\ Matches(q, saved[q], n, links)}
      \cup {q \in DOMAIN saved : IsUserspace(saved[q]) /\ links[n].type = "wifi-phy"
                                 /\ saved[q].ssid = links[n].ssid}

(* handle_events() and the watches: when no event is on its way, a NIC that  *)
(* is up carries the profile saved for it or for its network and a NIC that  *)
(* is down carries none, whatever cards were plugged, renamed or unplugged,  *)
(* whichever reports were late, joined in batches or overtaken, and whatever *)
(* failed and could be retried.  Left out are links of a batch that was      *)
(* refused, links a client removed under an event, cards replugged while the *)
(* monitor is paused, a wifi-phy whose change of network was not reported,   *)
(* and cards whose MAC watch was dropped too early.                          *)
RestingIsConfigured ==
    AtRest => \A n \in DOMAIN links \ (dropped \cup late) :
        /\ n \in DOMAIN emitted => emitted[n].ssid = links[n].ssid
        /\ ~IgnoredNic(n) /\ links[n].dev \notin unheard
        =>
            /\ links[n].up /\ Wanted(n) # {} => links[n].cfg \in Wanted(n)
            /\ ~links[n].up /\ (Wanted(n) # {} \/ links[n].type = "wifi-phy") => links[n].cfg = None

(* gen_missing_virtual_dependents() and boot_apply(): at rest a saved        *)
(* virtual interface exists when the NIC or the ports it is built on do,     *)
(* however often the card under it was replugged.                            *)
DependentsExist ==
    AtRest => \A q \in DOMAIN saved :
        LET on == saved[q].ports \cup ({saved[q].parent} \ {None})
        IN /\ IsVirtual(saved[q]) /\ Automatic(q) /\ on # {}
           /\ \A n \in on : n \in DOMAIN links /\ Interesting(n, Watches, links)
           /\ (on \cup {q}) \cap (dropped \cup late) = {}
           => q \in DOMAIN links

(* saved_state_ignores_event(), `auto-connect: false` and                    *)
(* remove_manual_activation(): no step of the worker or of boot gives a link *)
(* a manual profile or touches what an ignored NIC carries.                  *)
OnlyByRequest ==
    [][Worker \/ boot_apply_inner =>
        \A n \in DOMAIN links \cap DOMAIN links' : links'[n].cfg # links[n].cfg =>
            /\ ~IgnoredNic(n)
            /\ links'[n].cfg \in DOMAIN saved => ~IsManual(saved[links'[n].cfg])]_vars

(* boot_apply() applies all virtual interfaces in one transaction.           *)
gen_creatable_virtual_names(s, L) ==
    {q \in DOMAIN s : /\ IsVirtual(s[q]) /\ s[q].state # "ignore"
                      /\ s[q].ports \cup ({s[q].parent} \ {None}) \subseteq DOMAIN L}

(* The documentation of gen_non_nic_state(): "`cur_state` decides which      *)
(* virtual interfaces this apply can actually create", so after boot those   *)
(* whose parent and ports exist are there.                                   *)
BootCreatesReady ==
    [][boot_apply_inner =>
         gen_creatable_virtual_names(Activated, links) \subseteq DOMAIN links']_vars

(* The documentation of auto-connect on a network: "Bring the interface down *)
(* when disconnected from specified SSID", which an unplugged wifi-phy is.   *)
DisconnectedIsDown ==
    AtRest => \A q \in DOMAIN saved :
        saved[q].auto = "wifi" /\ IsVirtual(saved[q]) /\ q \notin dropped
          /\ q \in DOMAIN links => Connected(saved[q].ssid, links)

===============================================================================
