-------------------------------- MODULE Wifi --------------------------------
(***************************************************************************)
(* The WIFI plugin (plugin-wifi/) and the part of the daemon that drives   *)
(* it: explicit requests with their connection wait, retry and rollback    *)
(* (daemon/apply.rs, daemon/iface_action.rs, daemon/commander.rs) and the  *)
(* hand-over of the saved profiles to a wifi-phy that appears              *)
(* (daemon/event/event_worker.rs).                                         *)
(*                                                                         *)
(* The plugin answers a request at once and queues it for its worker; the  *)
(* worker owns the shuli client, the only thing that talks to the radio.   *)
(* Daemon, event worker, plugin worker, client, access points and hot-plug *)
(* are interleaved.  A worker step is one queued request or one answer of  *)
(* the client.  A network list is a function from the SSIDs on it: shuli   *)
(* orders it by itself and the plugin compares lists without their order.  *)
(***************************************************************************)
EXTENDS Naturals, Sequences, FiniteSets, Functions

CONSTANTS Phys, Ssids,      \* kernel names of the radios; network names
          Passwords,        \* what a profile or an access point may hold
          WifiRequests,     \* the explicit requests a user may make
          Profiles,         \* the saved profiles at the start
          Plugged,          \* the radios present at the start
          MaxWifiRequests,  \* bound: explicit requests
          MaxEvents,        \* bound: hot-plugs, access point changes, stalls and
                            \* failing calls into the client
          MaxIndex,         \* bound: kernel interface indexes
          MaxTries,         \* APPLY_RETRY_MAX
          Unset

(* A wifi-cfg profile: what it leaves open is Unset. *)
Config == [ssid : Ssids, password : Passwords \union {Unset},
           base : Phys \union {Unset}]

(* The explicit requests of `npt`, by what they name. *)
WifiRequest == [op : {"connect"}, cfg : Config]
               \union [op : {"up", "down", "forget"}, ssid : Ssids]
               \union [op : {"phy-down", "ignore"}, phy : Phys]
               \union [op : {"on", "off"}]

(* Saved profiles and requests are well formed. *)
ASSUME WifiAssumption == Profiles \subseteq Config /\ WifiRequests \subseteq WifiRequest

VARIABLES phys,             \* kernel if_index of each radio, 0 when absent
          ap,               \* the password each SSID accepts
          saved,            \* saved wifi-cfg profiles, by SSID
          ignored,          \* radios saved with `state: ignore`
          enabled,          \* WIFI on, as the worker and the scan handler see it
          ifaces,           \* managed radios: index and desired networks
          client,           \* the shuli client's network lists, or Unset
          live,             \* connected radios and their SSID
          errors,           \* latched connection errors, by radio
          hints,            \* SSIDs with a quick-start hint file
          queue,            \* requests waiting for the worker
          appeared,         \* radios whose new-phy event is not handled yet
          tx,               \* the explicit request being applied
          odd,              \* what excuses a deviation: faults and races
          requested         \* how much of each bound is spent

plugin == <<enabled, ifaces, client, live, errors, hints>>
host == <<phys, ap>>
conf == <<saved, ignored>>
wifiVars == <<host, conf, plugin, queue, appeared, tx, odd, requested>>

Empty == <<>>
Without(f, S) == Restrict(f, DOMAIN f \ S)
Over(new, old) == [x \in DOMAIN new \union DOMAIN old |->
                     IF x \in DOMAIN new THEN new[x] ELSE old[x]]
Put(f, x, v) == Over([y \in {x} |-> v], f)
Present == {p \in Phys : phys[p] # 0}

(* The interfaces of one apply as the plugin reads them: up wifi-cfgs,     *)
(* absent or down wifi-cfgs, up, down and ignored wifi-phys.               *)
Message(cfgs, gone, ups, downs, ign, force) ==
  [cfgs |-> cfgs, gone |-> gone, ups |-> ups, downs |-> downs,
   ignored |-> ign, force |-> force]

-----------------------------------------------------------------------------
(* Network lists. *)

(* wifi_cfg_phy_names *)
PhyNames(c, m) ==
  IF c.base # Unset THEN {c.base} \cap ((Present \ m.ignored) \union m.ups)
  ELSE IF m.ups # {} THEN m.ups ELSE Present \ m.ignored

(* The profiles of a message that bind to radio p. *)
Desired(m, p) == {c \in m.cfgs : p \in PhyNames(c, m)}

(* build_shuli_networks: one SSID has one profile here, so never a conflict. *)
(* Preference and hints order shuli's scan and are left out of the list.     *)
BuildNetworks(cfgs) ==
  [s \in {c.ssid : c \in cfgs} |-> (CHOOSE c \in cfgs : c.ssid = s).password]

(* merge_preferred_networks *)
MergePreferred(old, cfgs) == Over(BuildNetworks(cfgs), old)

(* Plausible slips of the code below; none is part of the specification. *)
NetworksKeepGone(m, p, old) ==
  LET cfgs == Desired(m, p) IN
  IF cfgs = {} THEN old
  ELSE IF m.force /\ Cardinality(cfgs) = 1 THEN MergePreferred(old, cfgs)
  ELSE BuildNetworks(cfgs)

(* The list radio p gets from message m, `old` being its present one. *)
Networks(m, p, old) ==
  LET cfgs == Desired(m, p) IN
  IF cfgs = {} THEN Without(old, m.gone)
  ELSE IF m.force /\ Cardinality(cfgs) = 1 THEN MergePreferred(old, cfgs)
  ELSE BuildNetworks(cfgs)

(* should_reconnect_to_networks *)
ShouldReconnect(m, p, networks) ==
  LET cfgs == Desired(m, p)
      on == IF p \in DOMAIN live THEN live[p] ELSE Unset IN
  /\ m.force
  /\ networks # Empty
  /\ IF Cardinality(cfgs) = 1 THEN \A c \in cfgs : on # c.ssid
     ELSE on \notin DOMAIN networks

ClearAppliedOfGone(errs, m) ==
  Restrict(errs, {p \in DOMAIN errs : errs[p].ssid \notin m.gone})

(* clear_applied_connect_errors: every profile that carries its wifi        *)
(* section; `npt down` (forced) keeps it, an absent profile lost it.        *)
ClearApplied(errs, m) ==
  LET carried == {c.ssid : c \in m.cfgs}
                   \union (IF m.force THEN m.gone ELSE {}) IN
  Restrict(errs, {p \in DOMAIN errs : errs[p].ssid \notin carried})

-----------------------------------------------------------------------------
(* The worker.  A call into the client may fail; `fault` names the kind of  *)
(* call that fails in this step.                                            *)

Faults == {"none", "remove", "add", "clear", "update", "init"}

(* The plugin's state as one record, threaded through the steps of apply.   *)
State == [enabled |-> enabled, ifaces |-> ifaces, client |-> client,
          live |-> live, errors |-> errors]

(* WifiClient::init fails when one of the radios is not in the kernel.      *)
InitClient(managed, fault) ==
  IF fault = "init" \/ ~(DOMAIN managed \subseteq Present) THEN Unset
  ELSE [p \in DOMAIN managed |-> managed[p].networks]

(* start_client *)
StartClient(st, fault) ==
  [st EXCEPT !.errors = Empty, !.live = Empty,
             !.client = IF st.ifaces = Empty THEN Unset
                        ELSE InitClient(st.ifaces, fault)]

(* WifiClientState::shutdown, and the client dropped after it *)
StopClient(st) ==
  [st EXCEPT !.errors = Empty, !.live = Empty, !.client = Unset]

(* set_control *)
SetControl(on, fault) ==
  IF ~on THEN StopClient([State EXCEPT !.enabled = FALSE])
  ELSE IF ~enabled \/ client = Unset
  THEN StartClient([State EXCEPT !.enabled = TRUE], fault)
  ELSE State

(* apply, first part: radios named down, ignored, replaced or gone leave.   *)
RemoveIfaces(m, fault) ==
  LET stale == {p \in DOMAIN ifaces : phys[p] # ifaces[p].index}
      drop == DOMAIN ifaces \cap (m.downs \union m.ignored \union stale) IN
  [enabled |-> enabled \/ m.cfgs # {},
   ifaces |-> Without(ifaces, drop),
   client |-> IF client = Unset \/ fault = "remove" THEN client
              ELSE Without(client, drop),
   live |-> Without(live, drop),
   errors |-> Without(errors, drop \cap m.ignored)]

(* The lists that change on the radios that stay: a forced apply hands its   *)
(* list over again, any other one only when the saved networks differ        *)
(* (same_saved_networks_ignoring_prefered).                                  *)
PendingNetworks(m, st) ==
  LET new == [p \in DOMAIN st.ifaces |-> Networks(m, p, st.ifaces[p].networks)]
  IN  Restrict(new, {p \in DOMAIN new : \/ new[p] # st.ifaces[p].networks
                                        \/ m.force /\ new[p] # Empty})

(* The radios managed from now on. *)
AddIfaces(m, st, fault) ==
  LET new == {p \in Present \ DOMAIN st.ifaces : Desired(m, p) # {}}
      added == IF st.client # Unset /\ fault = "add" THEN {} ELSE new
      list == [p \in added |-> Networks(m, p, Empty)] IN
  [st EXCEPT !.ifaces = Over([p \in added |-> [index |-> phys[p],
                                               networks |-> list[p]]], @),
             !.client = IF @ = Unset THEN Unset ELSE Over(list, @),
             !.errors = IF st.client = Unset THEN @ ELSE Without(@, added)]

Store(st, lists) ==
  [st EXCEPT !.ifaces = [p \in DOMAIN @ |->
     IF p \in DOMAIN lists THEN [@[p] EXCEPT !.networks = lists[p]] ELSE @[p]]]

(* apply, last part: the live client takes the changed lists.  A list that   *)
(* must reconnect is emptied first.                                          *)
UpdateClient(m, st, pending, fault) ==
  LET again == {p \in DOMAIN pending : ShouldReconnect(m, p, pending[p])}
      skipped == IF fault = "clear" THEN again
                 ELSE IF fault = "update" THEN DOMAIN pending ELSE {}
      emptied == IF fault = "update" THEN again ELSE {}
      taken == Without(pending, skipped)
      told == [st EXCEPT !.errors = Without(@, DOMAIN pending),
                         !.client = Over(taken, Over([p \in emptied |-> Empty], @))]
  IN  Store(told, taken)

(* WifiClientState::apply *)
Applied(m, fault) ==
  LET left == RemoveIfaces(m, fault)
      pending == PendingNetworks(m, left)
      st == AddIfaces(m, left, fault) IN
  IF st.ifaces = Empty THEN IF st.client = Unset THEN st ELSE StopClient(st)
  ELSE IF ~st.enabled THEN Store(st, pending)
  ELSE IF st.client = Unset THEN StartClient(Store(st, pending), fault)
  ELSE UpdateClient(m, st, pending, fault)

Take(st, h) ==
  /\ enabled' = st.enabled
  /\ ifaces' = st.ifaces
  /\ client' = st.client
  /\ live' = st.live
  /\ errors' = st.errors
  /\ hints' = h

Spend(fault) ==
  IF fault = "none" THEN requested' = requested
  ELSE /\ requested.events < MaxEvents
       /\ requested' = [requested EXCEPT !.events = @ + 1]

(* A client that did not start leaves WIFI without one. *)
Note(fault, st) ==
  (CASE fault \in {"remove", "update"} -> {"diverged"}
     [] fault \in {"add", "clear"} -> {"refused"}
     [] OTHER -> {})
    \union (IF st.ifaces # Empty /\ st.enabled /\ st.client = Unset
            THEN {"init"} ELSE {})

(* The worker takes the oldest request. *)
WorkerApply(fault) ==
  /\ queue # Empty /\ Head(queue).kind = "apply"
  /\ Spend(fault)
  /\ LET m == Head(queue).msg
         st == Applied(m, fault) IN
     /\ fault # "none" => st # Applied(m, "none")
     /\ Take(st, hints \ m.gone)
     /\ odd' = (odd \ {"init"}) \union Note(fault, st)
  /\ queue' = Tail(queue)
  /\ UNCHANGED <<host, conf, appeared, tx>>

WorkerControl(fault) ==
  /\ queue # Empty /\ Head(queue).kind = "control"
  /\ fault \in {"none", "init"}
  /\ Spend(fault)
  /\ LET st == SetControl(Head(queue).on, fault) IN
     /\ fault # "none" => st # SetControl(Head(queue).on, "none")
     /\ Take(st, hints)
     /\ odd' = (odd \ {"init"}) \union Note(fault, st)
  /\ queue' = Tail(queue)
  /\ tx' = [tx EXCEPT !.replied = TRUE]
  /\ UNCHANGED <<host, conf, appeared>>

(* run_once: the biased select drives the client only while no request      *)
(* waits.  Which network it tries, and when, is shuli's choice.             *)
Driving(p, s) ==
  /\ queue = Empty
  /\ client # Unset
  /\ p \in DOMAIN client /\ p \in Present
  /\ s \in DOMAIN client[p]

RunConnected(p, s) ==
  /\ Driving(p, s)
  /\ client[p][s] = ap[s]
  /\ live' = Put(live, p, s)
  /\ errors' = Without(errors, {p})
  /\ hints' = hints \union {s}
  /\ UNCHANGED <<host, conf, enabled, ifaces, client, queue, appeared, tx, odd, requested>>

(* Rejected credentials: reported as a state (the link is gone) or as an    *)
(* error of the client (the live state stays).                              *)
RunRejected(p, s, asState) ==
  /\ Driving(p, s)
  /\ client[p][s] # ap[s]
  /\ live' = IF asState THEN Without(live, {p}) ELSE live
  /\ errors' = Put(errors, p, [ssid |-> s, old |-> FALSE])
  /\ UNCHANGED <<host, conf, enabled, ifaces, client, hints, queue, appeared,
                 tx, odd, requested>>

(* Failed and the transient states. *)
RunLost(p) ==
  /\ queue = Empty
  /\ client # Unset
  /\ p \in DOMAIN client \cap DOMAIN live
  /\ live' = Without(live, {p})
  /\ UNCHANGED <<host, conf, enabled, ifaces, client, errors, hints, queue,
                 appeared, tx, odd, requested>>

(* The watchdog of the worker: run_once timed out, restart_client. *)
RunStalled(fault) ==
  /\ queue = Empty
  /\ client # Unset
  /\ requested.events < MaxEvents
  /\ fault \in {"none", "init"}
  /\ requested' = [requested EXCEPT !.events = @ + 1]
  /\ LET st == StartClient(State, fault) IN
     /\ Take(st, hints)
     /\ odd' = (odd \ {"init"}) \union Note(fault, st)
  /\ UNCHANGED <<host, conf, queue, appeared, tx>>

-----------------------------------------------------------------------------
(* The host. *)

PhyGone(p) ==
  /\ p \in Present /\ requested.events < MaxEvents
  /\ phys' = [phys EXCEPT ![p] = 0]
  /\ appeared' = appeared \ {p}
  /\ requested' = [requested EXCEPT !.events = @ + 1]
  /\ tx' = [tx EXCEPT !.disturbed = TRUE]
  /\ UNCHANGED <<ap, conf, plugin, queue, odd>>

PhyAppears(p) ==
  /\ p \notin Present /\ requested.events < MaxEvents /\ requested.index < MaxIndex
  /\ phys' = [phys EXCEPT ![p] = requested.index + 1]
  /\ appeared' = appeared \union {p}
  /\ requested' = [requested EXCEPT !.events = @ + 1, !.index = @ + 1]
  /\ tx' = [tx EXCEPT !.disturbed = TRUE]
  /\ UNCHANGED <<ap, conf, plugin, queue, odd>>

ApReconfigured(s, password) ==
  /\ ap[s] # password /\ requested.events < MaxEvents
  /\ ap' = [ap EXCEPT ![s] = password]
  /\ requested' = [requested EXCEPT !.events = @ + 1]
  /\ UNCHANGED <<phys, conf, plugin, queue, appeared, tx, odd>>

-----------------------------------------------------------------------------
(* The daemon. *)

(* post_merge_sanitize_wifi: the radios brought up for these profiles *)
UpPhys(cfgs, ign) ==
  {p \in Present \ ign : \E c \in cfgs : c.base \in {Unset, p}}

(* The profile of SSID s saved by a request for c: properties the request   *)
(* leaves out are inherited.                                                *)
Merge(c) ==
  IF c.ssid \notin DOMAIN saved THEN c
  ELSE LET old == saved[c.ssid] IN
       [c EXCEPT !.base = IF @ = Unset THEN old.base ELSE @,
                 !.password = IF @ = Unset THEN old.password ELSE @]

(* gen_diff_for_apply against the saved profile, with the SSID added by     *)
(* include_diff_context.                                                    *)
Difference(c) ==
  IF c.ssid \notin DOMAIN saved THEN {c}
  ELSE LET old == saved[c.ssid] IN
       IF c = old THEN {}
       ELSE {[ssid |-> c.ssid,
              password |-> IF c.password = old.password THEN Unset ELSE c.password,
              base |-> IF c.base = old.base THEN Unset ELSE c.base]}

SavedConfigs == {saved[s] : s \in DOMAIN saved}

(* What each explicit request hands to the plugin: `npt wifi connect`,      *)
(* `npt up` and `npt down` of a profile, its removal, `npt down` of a       *)
(* wifi-phy, `state: ignore`.                                               *)
RequestMessage(r) ==
  CASE r.op = "connect" ->
         LET cfgs == Difference(Merge(r.cfg)) IN
         Message(cfgs, {}, UpPhys(cfgs, ignored), {}, ignored, FALSE)
    [] r.op = "up" ->
         LET cfgs == {saved[r.ssid]} IN
         Message(cfgs, {}, UpPhys(cfgs, ignored), {}, ignored, TRUE)
    [] r.op = "down" ->
         LET cfgs == SavedConfigs \ {saved[r.ssid]} IN
         Message(cfgs, {r.ssid}, UpPhys(cfgs, ignored), {}, ignored, TRUE)
    [] r.op = "forget" -> Message({}, {r.ssid}, {}, {}, ignored, FALSE)
    [] r.op = "phy-down" -> Message({}, {}, {}, {r.phy} \ ignored, ignored, TRUE)
    [] r.op = "ignore" -> Message({}, {}, {}, {}, ignored \union {r.phy}, FALSE)

(* gen_wifi_off_purge_state: the radios that are up lose their IP stack. *)
PurgeMessage == Message({}, {}, Present \ ignored, {}, ignored, FALSE)

(* saved_wifi_restore_state *)
RestoreMessage == Message(SavedConfigs, {}, {}, {}, ignored, FALSE)

(* The revert of a request: a profile it created is removed again; one it   *)
(* changed still has its saved values, so nothing is left to send.          *)
RevertMessage(r) ==
  Message({}, IF r.op = "connect" /\ r.cfg.ssid \notin DOMAIN saved
              THEN {r.cfg.ssid} ELSE {}, {}, {}, ignored, FALSE)

(* wifi_connect_requests: the association a request asks for *)
Asks(r) == r.op \in {"connect", "up"}
Asked(r) == IF r.op = "connect" THEN r.cfg ELSE saved[r.ssid]

(* wifi_connect_request_has_eligible_phy *)
HasEligiblePhy(c) ==
  \/ ignored = {}
  \/ c.base # Unset /\ c.base \notin ignored
  \/ c.base = Unset /\ (Present = {} \/ ~(Present \subseteq ignored))
Idle == [pc |-> "idle", req |-> Unset, todo |-> Empty, tries |-> 0, phys |-> {},
         outcome |-> "none", replied |-> FALSE, disturbed |-> FALSE,
         oldError |-> FALSE]

(* A change of a saved profile that names its radio: the difference to the  *)
(* saved one leaves out the radio or the password, and the plugin takes it  *)
(* for an unbound or an open profile.                                       *)
Rebinds(r) ==
  /\ r.op = "connect" /\ r.cfg.ssid \in DOMAIN saved
  /\ Merge(r.cfg).base # Unset /\ Difference(Merge(r.cfg)) # {}

(* One explicit request at a time: the transaction lock. *)
Possible(r) ==
  CASE r.op \in {"up", "down", "forget"} -> r.ssid \in DOMAIN saved
    [] r.op \in {"phy-down", "ignore"} -> r.phy \in Present \ ignored
    [] OTHER -> TRUE

BeginRequest(r) ==
  /\ tx.pc = "idle" /\ requested.requests < MaxWifiRequests
  /\ Possible(r)
  /\ requested' = [requested EXCEPT !.requests = @ + 1]
  /\ IF r.op \in {"on", "off"}
     THEN /\ queue' = Append(queue, [kind |-> "control", on |-> r.op = "on"])
          /\ tx' = [Idle EXCEPT !.pc = "control", !.req = r]
     ELSE /\ tx' = [Idle EXCEPT !.pc = "clear", !.req = r,
                                !.todo = <<RequestMessage(r)>>]
          /\ UNCHANGED queue
  /\ errors' = [p \in DOMAIN errors |-> [errors[p] EXCEPT !.old = TRUE]]
  /\ odd' = odd \union (IF Rebinds(r) THEN {"rebound"} ELSE {})
  /\ UNCHANGED <<host, conf, enabled, ifaces, client, live, hints, appeared>>

(* wifi_control waits for the worker; turning WIFI off then purges the IP   *)
(* stack of the radios with an apply of its own.                            *)
Controlled ==
  /\ tx.pc = "control" /\ tx.replied
  /\ tx' = IF tx.req.op = "off"
           THEN [tx EXCEPT !.pc = "clear", !.todo = <<PurgeMessage>>, !.replied = FALSE]
           ELSE [tx EXCEPT !.pc = "finish", !.replied = FALSE]
  /\ UNCHANGED <<host, conf, plugin, queue, appeared, odd, requested>>

(* apply_network_state of the plugin: two steps, the worker may run between *)
(* them.                                                                    *)
ClearErrors ==
  /\ tx.pc = "clear"
  /\ errors' = ClearApplied(errors, Head(tx.todo))
  /\ tx' = [tx EXCEPT !.pc = "send"]
  /\ UNCHANGED <<host, conf, enabled, ifaces, client, live, hints, queue,
                 appeared, odd, requested>>

(* should_wait_wifi_connect and the early returns of                        *)
(* wait_wifi_connect_requests                                               *)
Waits ==
  /\ tx.outcome = "none" /\ Asks(tx.req)
  /\ HasEligiblePhy(Asked(tx.req))
  /\ Present \ ignored # {}

Enqueue ==
  /\ tx.pc = "send"
  /\ queue' = Append(queue, [kind |-> "apply", msg |-> Head(tx.todo)])
  /\ tx' = IF Len(tx.todo) > 1
           THEN [tx EXCEPT !.pc = "clear", !.todo = Tail(@)]
           ELSE IF Waits
           THEN [tx EXCEPT !.pc = "wait", !.phys = Present \ ignored]
           ELSE [tx EXCEPT !.pc = "finish"]
  /\ UNCHANGED <<host, conf, plugin, appeared, odd, requested>>

(* wifi_connect_groups: the radios that must report the SSID.  A base-iface *)
(* that is no present radio is looked for by name in the live state.        *)
Targets == LET c == Asked(tx.req) IN
           IF c.base = Unset THEN tx.phys ELSE {c.base}
Pending == {p \in Targets :
              ~(p \in DOMAIN live /\ live[p] = Asked(tx.req).ssid)}

WaitConnected ==
  /\ tx.pc = "wait" /\ Pending = {}
  /\ tx' = [tx EXCEPT !.pc = "finish", !.tries = 0]
  /\ UNCHANGED <<host, conf, plugin, queue, appeared, odd, requested>>

RetryTx(t) ==
  IF t.tries + 1 < MaxTries
  THEN [t EXCEPT !.pc = "clear", !.tries = @ + 1]
  ELSE [t EXCEPT !.pc = "rollback"]

(* A latched error of the requested SSID: not retriable. *)
WaitFatal ==
  /\ tx.pc = "wait"
  /\ \E p \in DOMAIN errors :
       /\ errors[p].ssid = Asked(tx.req).ssid
       /\ p \in (IF Asked(tx.req).base \in tx.phys \union {Unset}
                THEN Pending ELSE tx.phys)
       /\ Pending # {}
       /\ tx' = [tx EXCEPT !.pc = "rollback", !.oldError = errors[p].old]
  /\ UNCHANGED <<host, conf, plugin, queue, appeared, odd, requested>>

(* A target settled on another SSID for the grace period, or the deadline   *)
(* passed: retriable.                                                       *)
WaitSettledElsewhere ==
  /\ tx.pc = "wait"
  /\ Pending \cap DOMAIN live # {}
  /\ tx' = RetryTx(tx)
  /\ UNCHANGED <<host, conf, plugin, queue, appeared, odd, requested>>

WaitTimeout ==
  /\ tx.pc = "wait" /\ Pending # {}
  /\ tx' = RetryTx(tx)
  /\ UNCHANGED <<host, conf, plugin, queue, appeared, odd, requested>>

(* The client of the daemon went away: `npt wifi connect` was interrupted. *)
WaitClosed ==
  /\ tx.pc = "wait" /\ tx.req.op = "connect"
  /\ tx' = [tx EXCEPT !.pc = "rollback"]
  /\ UNCHANGED <<host, conf, plugin, queue, appeared, odd, requested>>

(* rollback and restore_saved_wifi_profiles *)
Rollback ==
  /\ tx.pc = "rollback"
  /\ tx' = [tx EXCEPT !.pc = "clear", !.outcome = "failed",
                      !.tries = 0, !.phys = {}, !.oldError = FALSE,
                      !.todo = IF saved = Empty THEN <<RevertMessage(tx.req)>>
                               ELSE <<RevertMessage(tx.req), RestoreMessage>>]
  /\ UNCHANGED <<host, conf, plugin, queue, appeared, odd, requested>>

(* The end of the transaction: a persistent request that passed is saved. *)
Finish ==
  /\ tx.pc = "finish"
  /\ LET r == tx.req
         ok == tx.outcome = "none" IN
     /\ saved' = IF ok /\ r.op = "connect"
                 THEN Put(saved, r.cfg.ssid, Merge(r.cfg))
                 ELSE IF ok /\ r.op = "forget" THEN Without(saved, {r.ssid})
                 ELSE saved
     /\ ignored' = IF ok /\ r.op = "ignore" THEN ignored \union {r.phy}
                   ELSE ignored
     /\ tx' = [tx EXCEPT !.pc = "idle", !.todo = Empty, !.phys = {},
                         !.outcome = IF ok THEN "ok" ELSE @]
  /\ UNCHANGED <<host, plugin, queue, appeared, odd, requested>>

(* The event worker hands the saved profiles of a new radio to the plugin.  *)
(* It runs beside the transactions.  When it has to ask the kernel again    *)
(* for the SSID it no longer knows which radios are ignored.                *)
HandOver(p, requeried) ==
  /\ p \in appeared
  /\ requeried => ignored # {}
  /\ appeared' = appeared \ {p}
  /\ LET cfgs == {c \in SavedConfigs : c.base \in {Unset, p}}
         ign == IF requeried THEN {} ELSE ignored
         m == Message(cfgs, {}, UpPhys(cfgs, ign), {}, ign, FALSE) IN
     IF p \in ignored \/ cfgs = {} THEN UNCHANGED <<errors, queue, tx, odd>>
     ELSE /\ errors' = ClearApplied(errors, m)
          /\ queue' = Append(queue, [kind |-> "apply", msg |-> m])
          /\ odd' = odd \union (IF tx.pc # "idle" THEN {"race"} ELSE {})
                       \union (IF ign # ignored THEN {"requery"} ELSE {})
          /\ tx' = [tx EXCEPT !.disturbed = TRUE]
  /\ UNCHANGED <<host, conf, enabled, ifaces, client, live, hints, requested>>

(* The boot hand-over is done: each radio has its saved profiles. *)
Handed(p) == BuildNetworks({c \in Profiles : c.base \in {Unset, p}})

WifiInit ==
  /\ phys = [p \in Phys |-> IF p \in Plugged THEN 1 ELSE 0]
  /\ ap = [s \in Ssids |-> CHOOSE w \in Passwords : \A c \in Profiles :
                             c.ssid = s => c.password = w]
  /\ saved = [s \in {c.ssid : c \in Profiles} |->
                CHOOSE c \in Profiles : c.ssid = s]
  /\ ignored = {}
  /\ enabled = TRUE
  /\ ifaces = [p \in Plugged |-> [index |-> 1, networks |-> Handed(p)]]
  /\ client = IF Plugged = {} THEN Unset ELSE [p \in Plugged |-> Handed(p)]
  /\ live = Empty
  /\ errors = Empty
  /\ hints = {}
  /\ queue = Empty
  /\ appeared = {}
  /\ tx = Idle
  /\ odd = {}
  /\ requested = [requests |-> 0, events |-> 0, index |-> 1]

WorkerStep ==
  \/ \E fault \in Faults : WorkerApply(fault)
  \/ \E fault \in Faults : WorkerControl(fault)
  \/ \E p \in Phys, s \in Ssids : RunConnected(p, s)
  \/ \E p \in Phys, s \in Ssids, asState \in BOOLEAN : RunRejected(p, s, asState)
  \/ \E p \in Phys : RunLost(p)
  \/ \E fault \in Faults : RunStalled(fault)

HostStep ==
  \/ \E p \in Phys : PhyGone(p)
  \/ \E p \in Phys : PhyAppears(p)
  \/ \E s \in Ssids, w \in Passwords : ApReconfigured(s, w)

DaemonStep ==
  \/ \E r \in WifiRequests : BeginRequest(r)
  \/ Controlled
  \/ ClearErrors
  \/ Enqueue
  \/ WaitConnected
  \/ WaitFatal
  \/ WaitSettledElsewhere
  \/ WaitTimeout
  \/ WaitClosed
  \/ Rollback
  \/ Finish
  \/ \E p \in Phys, requeried \in BOOLEAN : HandOver(p, requeried)

WifiNext == WorkerStep \/ HostStep \/ DaemonStep

WifiSpec == WifiInit /\ [][WifiNext]_wifiVars
-----------------------------------------------------------------------------
(* Properties. *)

(* Nothing is queued, asked for or waiting to be handed over. *)
AtRest == queue = Empty /\ tx.pc = "idle" /\ appeared = {}

(* Once the requests are worked off the plugin holds no network that is not *)
(* saved, no outdated password and no hint file of a profile that is gone:  *)
(* a failed `npt wifi connect` and a removed profile leave nothing behind.  *)
(* Excused: a hand-over built from the saved state of before the request, a *)
(* list the client did not take, and a change of a saved profile that names *)
(* its radio.                                                               *)
OnlySavedConfigured ==
  AtRest /\ odd \cap {"race", "diverged", "rebound"} = {} =>
    /\ \A p \in DOMAIN ifaces : \A s \in DOMAIN ifaces[p].networks :
         /\ s \in DOMAIN saved
         /\ ifaces[p].networks[s] = saved[s].password
    /\ hints \subseteq DOMAIN saved

(* A connection wait never fails on an error latched before the request it  *)
(* belongs to, provided the request handed the profile to the plugin        *)
(* (clear_applied_connect_errors in the plugin's apply handler).            *)
WaitReadsNoOldError ==
  tx.pc = "rollback" /\ tx.oldError => Head(tx.todo).cfgs = {}

(* A hand-over never binds profiles to an ignored radio: the event worker   *)
(* marks the ignored radios so that the saved profiles are not bound to     *)
(* them.  The code does not do this when it queries the kernel again.       *)
IgnoredStaysUnmanaged ==
  AtRest /\ "race" \notin odd => ignored \cap DOMAIN ifaces = {}

(* A connect request is not reported as applied before the association with *)
(* the requested credentials finished: a wrong password fails it            *)
(* (apply_merged_state_once, wait_wifi_connect_requests).                   *)
ReportedMeansAssociated ==
  tx.pc = "idle" /\ tx.outcome = "ok" /\ tx.req.op = "connect"
    /\ ~tx.disturbed => tx.req.cfg.password = ap[tx.req.cfg.ssid]
=============================================================================
