------------------------------ MODULE Monitor ------------------------------
(***************************************************************************)
(* The interface monitor worker of the nipart daemon                       *)
(* (src/daemon/monitor/monitor_worker.rs).                                 *)
(*                                                                         *)
(* The worker turns kernel link notifications into link events for the     *)
(* event worker.  It filters them by the registered watches, suppresses    *)
(* what `npt down` silenced, defers a NIC udev has not initialised,        *)
(* debounces downs and duplicates, compares a link dump with a snapshot    *)
(* after a pause, and periodically reconciles with a full kernel query.    *)
(*                                                                         *)
(* One command, one netlink message or one tick is one step: run() handles *)
(* them one at a time.  Every map of the worker is keyed by the kernel     *)
(* interface name and a handler treats each name on its own, so the maps   *)
(* are kept as one record per name, nic[i].                                *)
(***************************************************************************)
EXTENDS Naturals, Sequences, FiniteSets

CONSTANTS
    Iface,       \* kernel interface names
    WifiPhy,     \* those of them that are wifi-phys
    Ssid,        \* wifi networks
    None,        \* Rust's Option::None
    Lossy,       \* whether the multicast socket may overflow
    MaxPause,    \* bound: outstanding Pause commands
    MaxQueue,    \* bound: messages queued in the netlink socket
    MaxChanges,  \* bound: link changes made by the kernel
    MaxCmds      \* bound: commands sent by the daemon

ASSUME MonitorAssumption ==
    /\ WifiPhy \subseteq Iface
    /\ Iface \cap Ssid = {}
    /\ None \notin Ssid
    /\ Lossy \in BOOLEAN
    /\ MaxPause \in Nat /\ MaxQueue \in Nat
    /\ MaxChanges \in Nat /\ MaxCmds \in Nat

VARIABLES
    link,                 \* kernel: None (absent) or [idx, is_up, ssid]
    udev,                 \* kernel names udev has an entry for
    nlq,                  \* messages queued in the multicast socket
    watch,                \* [ifaces, macs, wifi]: the registered watches
    explicitly_down,      \* names and SSIDs silenced by `npt down`
    started,
    manual_pause_count,
    netlink_handle,       \* a netlink session is open
    netlink_msg_receiver, \* the loop polls a multicast receiver
    paused_state,         \* a pre-pause snapshot exists (nic[i].paused)
    nic,                  \* per name: the worker's map entries
    dump_failed,          \* history: the last attempt to open a session failed
    changes, cmds         \* bounds used up so far

vars == <<link, udev, nlq, watch, explicitly_down, started,
          manual_pause_count, netlink_handle, netlink_msg_receiver,
          paused_state, nic, dump_failed, changes, cmds>>

------------------------------------------------------------------------------
(* Data.  A link event of name i; `wifi` says its type is wifi-phy.           *)

Event == [idx: 0..MaxChanges, is_up: BOOLEAN, ssid: Ssid \cup {None},
          is_delete: BOOLEAN, wifi: BOOLEAN, is_new_wifi_phy: BOOLEAN]

(* The compact record kept of the last event; `expired` means it is older    *)
(* than EVENT_EXPIRE_TIME_SEC.                                               *)
LastLinkEvent == [is_up: BOOLEAN, idx: 0..MaxChanges,
                  extra_info: Ssid \cup {None}, wifi: BOOLEAN,
                  mac_address: BOOLEAN, expired: BOOLEAN]

Link == [idx: 0..MaxChanges, is_up: BOOLEAN, ssid: Ssid \cup {None}]
Message == [iface: Iface, kind: {"new", "del", "scan"}, idx: 0..MaxChanges,
            is_up: BOOLEAN, ssid: Ssid \cup {None}]

Queued == [event: Event, due: BOOLEAN]
Told == [is_up: BOOLEAN, ssid: Ssid \cup {None}]

ASSUME NoneAssumption ==
    None \notin Link \cup Event \cup LastLinkEvent \cup Queued \cup Told

(* The entries of one name: the last event recorded, its pre-pause copy, the *)
(* debounced event with its deadline, the event deferred for udev, whether   *)
(* the wifi-phy was announced, whether a MAC address was observed.  `told`   *)
(* (history) is the link state the daemon last heard of, or was deliberately *)
(* not told of because of `npt down`; `out` holds the events the last step   *)
(* sent to the commander.                                                    *)
Nic == [emited: LastLinkEvent \cup {None},
        paused: LastLinkEvent \cup {None},
        delay_queue: Queued \cup {None},
        udev_pending: Event \cup {None},
        phy_emited: BOOLEAN,
        iface_mac: BOOLEAN,
        told: Told \cup {None},
        out: Seq(Event)]

NewEvent(idx, up, ssid, wifi) ==
    [idx |-> idx, is_up |-> up, ssid |-> ssid, is_delete |-> FALSE,
     wifi |-> wifi, is_new_wifi_phy |-> FALSE]

DeleteEvent(idx, ssid, wifi) ==
    [NewEvent(idx, FALSE, ssid, wifi) EXCEPT !.is_delete = TRUE]

event_extra_info(ev) == IF ev.wifi THEN ev.ssid ELSE None

is_same_state(last, ev) ==
    /\ last.is_up = ev.is_up
    /\ \/ event_extra_info(ev) = None
       \/ event_extra_info(ev) = last.extra_info

from_event(ev, mac) ==
    [is_up |-> ev.is_up, idx |-> ev.idx, extra_info |-> event_extra_info(ev),
     wifi |-> ev.wifi, mac_address |-> mac, expired |-> FALSE]

to_delete_event(last) == DeleteEvent(last.idx, last.extra_info, last.wifi)

(* What the event worker learns from an event: it resolves a missing SSID    *)
(* from the current state of the wifi-phy.                                   *)
Heard(i, ev) ==
    IF ev.is_delete THEN None
    ELSE [is_up |-> ev.is_up,
          ssid  |-> IF ev.ssid # None \/ link[i] = None \/ ~ev.is_up
                    THEN ev.ssid ELSE link[i].ssid]

------------------------------------------------------------------------------
(* The notification path.  Each operator maps the record n of name i to its  *)
(* next value; w is the set of watches in force.                             *)

(* Mutant: the SSID of the event is not looked up.                           *)
NameDownOnly(i, ev) == i \in explicitly_down

event_is_explicitly_down(i, ev) ==
    i \in explicitly_down \/ ev.ssid \in explicitly_down

event_is_interested(w, i, n, ev) ==
    \/ i \in w.ifaces
    \/ n.iface_mac /\ i \in w.macs
    \/ w.wifi /\ (ev.ssid # None \/ ev.wifi)

udev_is_initialized(i, idx) ==
    link[i] # None /\ link[i].idx = idx /\ i \in udev

Suppress(i, n, ev) ==
    [n EXCEPT !.emited = IF ev.is_delete THEN None
                         ELSE from_event(ev, n.iface_mac),
              !.phy_emited = @ /\ ~ev.is_delete,
              !.told = Heard(i, ev)]

notify(w, i, n, ev) ==
    LET new == w.wifi /\ ev.wifi /\ ~ev.is_delete /\ ~n.phy_emited
    IN  [n EXCEPT !.delay_queue = None,
                  !.emited = IF ev.is_delete THEN None
                             ELSE from_event(ev, n.iface_mac),
                  !.phy_emited = (@ \/ new) /\ ~ev.is_delete,
                  !.told = Heard(i, ev),
                  !.out = Append(@, [ev EXCEPT !.is_new_wifi_phy = new])]

delay_notify(n, ev) ==
    [n EXCEPT !.emited = IF @.is_up /\ ~ev.is_up
                         THEN from_event(ev, n.iface_mac) ELSE @,
              !.delay_queue = [event |-> ev, due |-> FALSE]]

try_notify(w, i, n, ev) ==
    CASE event_is_explicitly_down(i, ev) -> Suppress(i, n, ev)
      [] ~event_is_explicitly_down(i, ev)
         /\ ~event_is_interested(w, i, n, ev) -> n
      [] OTHER ->
         CASE ev.is_delete ->
                notify(w, i, [n EXCEPT !.udev_pending = None], ev)
           [] ~ev.is_delete /\ ~udev_is_initialized(i, ev.idx) ->
                [n EXCEPT !.udev_pending = ev]
           [] OTHER ->
                IF \/ n.emited = None
                   \/ n.emited.expired
                   \/ ~n.emited.is_up /\ ev.is_up
                THEN notify(w, i, n, ev)
                ELSE delay_notify(n, ev)

(* History only: what is recorded for a silenced name is deliberately not     *)
(* told.                                                                      *)
Withheld(n) ==
    IF n.emited = None THEN n
    ELSE [n EXCEPT !.told = [is_up |-> n.emited.is_up,
                             ssid |-> n.emited.extra_info]]

process_udev_pending(w, i, n) ==
    IF n.udev_pending # None /\ udev_is_initialized(i, n.udev_pending.idx)
    THEN try_notify(w, i, [n EXCEPT !.udev_pending = None], n.udev_pending)
    ELSE n

DelayedIgnoresUp(w, i, n) ==
    IF n.delay_queue = None \/ ~n.delay_queue.due THEN n
    ELSE IF event_is_explicitly_down(i, n.delay_queue.event)
    THEN Withheld([n EXCEPT !.delay_queue = None])
    ELSE notify(w, i, n, n.delay_queue.event)

process_delay_queue(w, i, n) ==
    IF n.delay_queue = None \/ ~n.delay_queue.due THEN n
    ELSE LET ev == n.delay_queue.event
             m  == [n EXCEPT !.delay_queue = None]
         IN  CASE event_is_explicitly_down(i, ev) -> Withheld(m)
               [] ~event_is_explicitly_down(i, ev)
                  /\ n.emited # None /\ n.emited.is_up /\ ev.is_up -> m
               [] OTHER -> notify(w, i, m, ev)

(* A wifi-phy is told from an ethernet NIC by its sysfs entry, so a delete   *)
(* message is usually parsed when the entry is already gone; `sysfs` says    *)
(* whether it was still readable.                                            *)
parse_link_msg(w, m, sysfs) ==
    LET wifi == m.iface \in WifiPhy /\ sysfs
    IN  IF m.kind = "del" THEN DeleteEvent(m.idx, None, wifi)
        ELSE NewEvent(m.idx, m.is_up,
                      IF w.wifi /\ wifi THEN m.ssid ELSE None, wifi)

process_rtnl_message(w, m, n, sysfs) ==
    IF m.kind = "scan" THEN n
    ELSE try_notify(w, m.iface,
                    [n EXCEPT !.iface_mac = @ \/ m.ssid = None],
                    parse_link_msg(w, m, sysfs))

------------------------------------------------------------------------------
(* Sessions: the link dump of resume() and the reconciliation query.         *)

DumpEvent(i) == NewEvent(link[i].idx, link[i].is_up, None, i \in WifiPhy)

emit_on_resume(n, ev) ==
    ~paused_state \/ n.paused = None \/ ~is_same_state(n.paused, ev)

handle_resume_event(w, i, n) ==
    LET m == [n EXCEPT !.iface_mac = TRUE]
    IN  IF emit_on_resume(n, DumpEvent(i)) THEN try_notify(w, i, m, DumpEvent(i))
        ELSE m

handle_resume_deleted(w, i, n) ==
    IF ~paused_state \/ n.paused = None THEN n
    ELSE [try_notify(w, i, [n EXCEPT !.iface_mac = @ \/ n.paused.mac_address],
                     to_delete_event(n.paused))
          EXCEPT !.iface_mac = FALSE]

(* A complete dump also takes the snapshot away.                             *)
dump(w, i, n) ==
    [(IF link[i] # None THEN handle_resume_event(w, i, n)
      ELSE handle_resume_deleted(w, i, n)) EXCEPT !.paused = None]

(* link_event_from_iface: the query carries the SSID of the association.     *)
QueryEvent(w, i) ==
    NewEvent(link[i].idx, link[i].is_up,
             IF w.wifi /\ i \in WifiPhy THEN link[i].ssid ELSE None,
             i \in WifiPhy)

reconcile_present(w, i, n) ==
    LET m == [n EXCEPT !.iface_mac = TRUE]
        ev == QueryEvent(w, i)
    IN  IF \/ ~event_is_interested(w, i, m, ev)
           \/ m.emited # None /\ is_same_state(m.emited, ev)
        THEN m
        ELSE try_notify(w, i, m, ev)

reconcile_missing(w, i, n) ==
    IF n.emited = None THEN n
    ELSE LET m  == [n EXCEPT !.iface_mac = @ \/ n.emited.mac_address]
             ev == to_delete_event(n.emited)
         IN  [(IF event_is_interested(w, i, m, ev) THEN try_notify(w, i, m, ev)
               ELSE [m EXCEPT !.emited = None, !.phy_emited = FALSE])
              EXCEPT !.iface_mac = FALSE]

(* Mutant: only what the query lists is compared.                            *)
ReconcilePresentOnly(w, i, n) ==
    IF ~started \/ manual_pause_count > 0 \/ ~netlink_handle \/ link[i] = None
    THEN n ELSE reconcile_present(w, i, n)

reconcile(w, i, n) ==
    IF ~started \/ manual_pause_count > 0 \/ ~netlink_handle THEN n
    ELSE IF link[i] # None THEN reconcile_present(w, i, n)
    ELSE reconcile_missing(w, i, n)

------------------------------------------------------------------------------
Silent(n) == [n EXCEPT !.out = <<>>]
Quiet == [i \in Iface |-> Silent(nic[i])]

should_pause(w) == w.ifaces = {} /\ w.macs = {} /\ ~w.wifi
should_resume(w) == ~should_pause(w)

(* Mutant: outstanding pauses are not looked at.                             *)
StartWhilePaused == started /\ ~netlink_handle

should_start_netlink == started /\ manual_pause_count = 0 /\ ~netlink_handle

(* Mutant: the receiver is put back even after a Pause.                      *)
AlwaysPutBack(opened) ==
    /\ netlink_msg_receiver' = (netlink_msg_receiver \/ opened)
    /\ nlq' = IF netlink_msg_receiver' THEN nlq ELSE <<>>

(* run() takes the receiver out of the worker while a command is processed   *)
(* and puts that very receiver back unless the worker is paused; a receiver  *)
(* opened by the command itself stays only when there was none before.       *)
PutBackReceiver(opened) ==
    /\ netlink_msg_receiver' =
         IF netlink_msg_receiver THEN manual_pause_count' = 0 ELSE opened
    /\ nlq' = IF netlink_msg_receiver' THEN nlq ELSE <<>>

(* Mutant: the debounced events are dropped with the session.                *)
PauseDropsQueue ==
    /\ paused_state' = TRUE
    /\ netlink_handle' = FALSE
    /\ nic' = [i \in Iface |->
                 [Quiet[i] EXCEPT !.iface_mac = FALSE, !.delay_queue = None,
                                  !.paused = IF paused_state THEN @
                                             ELSE nic[i].emited]]
    /\ PutBackReceiver(FALSE)
    /\ UNCHANGED dump_failed

(* pause(): drop the session, keep what was emitted and what is queued.      *)
pause ==
    /\ paused_state' = TRUE
    /\ netlink_handle' = FALSE
    /\ nic' = [i \in Iface |->
                 [Quiet[i] EXCEPT !.iface_mac = FALSE,
                                  !.paused = IF paused_state THEN @
                                             ELSE nic[i].emited]]
    /\ PutBackReceiver(FALSE)
    /\ UNCHANGED dump_failed

(* resume(): open a session and dump the links.  The socket or the dump may  *)
(* fail; links dumped before the failure have been handled.                  *)
ResumeDone(w) ==
    /\ nic' = [i \in Iface |-> dump(w, i, Quiet[i])]
    /\ paused_state' = FALSE
    /\ netlink_handle' = TRUE
    /\ dump_failed' = FALSE
    /\ PutBackReceiver(TRUE)

ResumeFailed(w) ==
    /\ \E seen \in SUBSET {i \in Iface : link[i] # None} :
         nic' = [i \in Iface |-> IF i \in seen
                                 THEN handle_resume_event(w, i, Quiet[i])
                                 ELSE Quiet[i]]
    /\ dump_failed' = TRUE
    /\ UNCHANGED <<paused_state, netlink_handle>>
    /\ PutBackReceiver(FALSE)

resume(w) == ResumeDone(w) \/ ResumeFailed(w)

NoSession ==
    /\ nic' = Quiet
    /\ UNCHANGED <<paused_state, netlink_handle, dump_failed>>
    /\ PutBackReceiver(FALSE)

------------------------------------------------------------------------------
(* Commands of the daemon (process_cmd).                                     *)

Command ==
    /\ cmds < MaxCmds
    /\ cmds' = cmds + 1
    /\ UNCHANGED <<link, udev, changes>>

SetWatch(w) ==
    /\ Command
    /\ watch' = w
    /\ UNCHANGED <<explicitly_down, started, manual_pause_count>>

AddWatch(w) ==
    /\ SetWatch(w)
    /\ IF should_start_netlink THEN resume(w) ELSE NoSession

DelWatch(w) ==
    /\ SetWatch(w)
    /\ IF should_pause(w) THEN pause ELSE NoSession

AddIface(i) == AddWatch([watch EXCEPT !.ifaces = @ \cup {i}])
DelIface(i) == DelWatch([watch EXCEPT !.ifaces = @ \ {i}])
AddMacWatch(i) == AddWatch([watch EXCEPT !.macs = @ \cup {i}])
DelMacWatch(i) == DelWatch([watch EXCEPT !.macs = @ \ {i}])
EnableWifiMonitor == AddWatch([watch EXCEPT !.wifi = TRUE])
DisableWifiMonitor == DelWatch([watch EXCEPT !.wifi = FALSE])

Start ==
    /\ Command
    /\ started' = TRUE
    /\ UNCHANGED <<watch, explicitly_down, manual_pause_count>>
    /\ IF ~started /\ should_resume(watch) THEN resume(watch) ELSE NoSession

Pause ==
    /\ Command
    /\ manual_pause_count < MaxPause
    /\ manual_pause_count' = manual_pause_count + 1
    /\ pause
    /\ UNCHANGED <<watch, explicitly_down, started>>

(* Mutants: the counter is incremented; the session is reopened only when    *)
(* the counter was zero before the decrement.                                *)
ResumeIncrements ==
    /\ Command
    /\ manual_pause_count' = manual_pause_count + 1
    /\ NoSession
    /\ UNCHANGED <<watch, explicitly_down, started>>

ResumeChecksFirst ==
    /\ Command
    /\ manual_pause_count' = manual_pause_count - 1
    /\ IF manual_pause_count = 0 /\ started /\ should_resume(watch)
       THEN resume(watch) ELSE NoSession
    /\ UNCHANGED <<watch, explicitly_down, started>>

Resume ==
    /\ Command
    /\ manual_pause_count' = IF manual_pause_count = 0 THEN 0
                             ELSE manual_pause_count - 1
    /\ IF /\ manual_pause_count' = 0 /\ started /\ ~netlink_handle
          /\ should_resume(watch)
       THEN resume(watch) ELSE NoSession
    /\ UNCHANGED <<watch, explicitly_down, started>>

MarkExplicitlyDown(names) ==
    /\ Command
    /\ explicitly_down' = explicitly_down \cup names
    /\ UNCHANGED <<watch, started, manual_pause_count>>
    /\ NoSession

ClearExplicitlyDown(names) ==
    /\ Command
    /\ explicitly_down' = explicitly_down \ names
    /\ UNCHANGED <<watch, started, manual_pause_count>>
    /\ NoSession

Forget(i, phy) ==
    /\ Command
    /\ nic' = [Quiet EXCEPT ![i].emited = None, ![i].paused = None,
                            ![i].phy_emited = @ /\ ~phy]
    /\ UNCHANGED <<watch, explicitly_down, started, manual_pause_count,
                   netlink_handle, paused_state, dump_failed>>
    /\ PutBackReceiver(FALSE)

ForgetPausedState(i) == Forget(i, FALSE)
ForgetEmitted(i) == Forget(i, TRUE)

------------------------------------------------------------------------------
(* The other two branches of the select in run().                            *)

WorkerOnly ==
    UNCHANGED <<link, udev, watch, explicitly_down, started,
                manual_pause_count, netlink_handle, paused_state,
                dump_failed, changes, cmds>>

(* After the branch the receiver is put back unless paused, as in           *)
(* PutBackReceiver.                                                          *)
NetlinkMsg ==
    /\ netlink_msg_receiver /\ nlq # <<>>
    /\ LET m == Head(nlq)
       IN  \E sysfs \in IF link[m.iface] # None THEN {TRUE}
                        ELSE IF m.kind = "del" THEN BOOLEAN ELSE {FALSE} :
             nic' = [Quiet EXCEPT ![m.iface] =
                       process_rtnl_message(watch, m, @, sysfs)]
    /\ netlink_msg_receiver' = (manual_pause_count = 0)
    /\ nlq' = IF netlink_msg_receiver' THEN Tail(nlq) ELSE <<>>
    /\ WorkerOnly

(* One tick: deferred events, debounced events, and the reconciliation when  *)
(* it is due and its query succeeds.                                         *)
Tick(due) ==
    /\ netlink_msg_receiver
    /\ nic' = [i \in Iface |->
                 LET n == process_delay_queue(watch, i,
                            process_udev_pending(watch, i, Quiet[i]))
                 IN  IF due THEN reconcile(watch, i, n) ELSE n]
    /\ netlink_msg_receiver' = (manual_pause_count = 0)
    /\ nlq' = IF netlink_msg_receiver' THEN nlq ELSE <<>>
    /\ WorkerOnly

------------------------------------------------------------------------------
(* The environment: the kernel, udev and time.                               *)

Environment ==
    UNCHANGED <<watch, explicitly_down, started, manual_pause_count,
                netlink_handle, netlink_msg_receiver, paused_state,
                dump_failed, cmds>>

(* The kernel multicasts a message; it is lost when nobody listens or the    *)
(* socket buffer overflows.                                                  *)
Multicast(m) ==
    \/ (Lossy \/ ~netlink_msg_receiver) /\ nlq' = nlq
    \/ netlink_msg_receiver /\ Len(nlq) < MaxQueue /\ nlq' = Append(nlq, m)

Msg(i, kind, l) == [iface |-> i, kind |-> kind, idx |-> l.idx,
                    is_up |-> l.is_up, ssid |-> l.ssid]

Change ==
    /\ changes < MaxChanges
    /\ changes' = changes + 1
    /\ nic' = Quiet
    /\ Environment

(* A NIC appears (without its udev entry), goes up or down, associates.      *)
LinkNew(i) ==
    /\ Change
    /\ link[i] = None
    /\ LET l == [idx |-> changes + 1, is_up |-> FALSE, ssid |-> None]
       IN  link' = [link EXCEPT ![i] = l] /\ Multicast(Msg(i, "new", l))
    /\ UNCHANGED udev

LinkSet(i) ==
    /\ Change
    /\ link[i] # None
    /\ \E up \in BOOLEAN :
         \E s \in IF up /\ i \in WifiPhy THEN Ssid ELSE {None} :
           LET l == [link[i] EXCEPT !.is_up = up, !.ssid = s]
           IN  /\ l # link[i]
               /\ link' = [link EXCEPT ![i] = l]
               /\ Multicast(Msg(i, "new", l))
    /\ UNCHANGED udev

LinkDel(i) ==
    /\ Change
    /\ link[i] # None
    /\ link' = [link EXCEPT ![i] = None]
    /\ udev' = udev \ {i}
    /\ Multicast(Msg(i, "del", [link[i] EXCEPT !.is_up = FALSE, !.ssid = None]))

(* A message without a state change: any attribute change, or scan-done      *)
(* telemetry of a wifi-phy.                                                  *)
LinkChatter(i) ==
    /\ Change
    /\ link[i] # None
    /\ \/ Multicast(Msg(i, "new", [link[i] EXCEPT !.ssid = None]))
       \/ i \in WifiPhy /\ Multicast(Msg(i, "scan", link[i]))
    /\ UNCHANGED <<link, udev>>

UdevInit(i) ==
    /\ link[i] # None /\ i \notin udev
    /\ udev' = udev \cup {i}
    /\ nic' = Quiet
    /\ Environment
    /\ UNCHANGED <<link, nlq, changes>>

(* DOWN_WAIT_SEC passed since the event of i was queued.                     *)
DelayPasses(i) ==
    /\ nic[i].delay_queue # None /\ ~nic[i].delay_queue.due
    /\ nic' = [Quiet EXCEPT ![i].delay_queue.due = TRUE]
    /\ Environment
    /\ UNCHANGED <<link, udev, nlq, changes>>

(* EVENT_EXPIRE_TIME_SEC passed since the last recorded event of i.          *)
Expire(i) ==
    /\ nic[i].emited # None /\ ~nic[i].emited.expired
    /\ nic' = [Quiet EXCEPT ![i].emited.expired = TRUE]
    /\ Environment
    /\ UNCHANGED <<link, udev, nlq, changes>>

------------------------------------------------------------------------------
NoEntries == [emited |-> None, paused |-> None, delay_queue |-> None,
              udev_pending |-> None, phy_emited |-> FALSE,
              iface_mac |-> FALSE, told |-> None, out |-> <<>>]

(* The worker is created before any command; NICs may already be there.      *)
Init ==
    /\ \E present \in SUBSET Iface :
         /\ link = [i \in Iface |->
                      IF i \in present
                      THEN [idx |-> 0, is_up |-> FALSE, ssid |-> None]
                      ELSE None]
         /\ udev \in SUBSET present
    /\ nlq = <<>>
    /\ watch = [ifaces |-> {}, macs |-> {}, wifi |-> FALSE]
    /\ explicitly_down = {}
    /\ started = FALSE
    /\ manual_pause_count = 0
    /\ netlink_handle = FALSE
    /\ netlink_msg_receiver = FALSE
    /\ paused_state = FALSE
    /\ nic = [i \in Iface |-> NoEntries]
    /\ dump_failed = FALSE
    /\ changes = 0
    /\ cmds = 0

(* The daemon never sends Start while an apply holds the monitor paused and  *)
(* never sends an unmatched Resume; module Transaction checks both.          *)
CommandStep ==
    \/ \E i \in Iface : \/ AddIface(i) \/ DelIface(i)
                        \/ AddMacWatch(i) \/ DelMacWatch(i)
                        \/ ForgetPausedState(i) \/ ForgetEmitted(i)
    \/ EnableWifiMonitor \/ DisableWifiMonitor
    \/ manual_pause_count = 0 /\ Start
    \/ Pause
    \/ manual_pause_count > 0 /\ Resume
    \/ \E name \in Iface \cup Ssid : \/ MarkExplicitlyDown({name})
                                     \/ ClearExplicitlyDown({name})

WorkerStep == NetlinkMsg \/ Tick(FALSE) \/ Tick(TRUE)

KernelStep ==
    \E i \in Iface : \/ LinkNew(i) \/ LinkSet(i) \/ LinkDel(i)
                     \/ LinkChatter(i)

TimeStep ==
    \E i \in Iface : UdevInit(i) \/ DelayPasses(i) \/ Expire(i)

Next == CommandStep \/ WorkerStep \/ KernelStep \/ TimeStep

Spec == Init /\ [][Next]_vars

(* What the code guarantees: run() keeps polling its select branches, a tick *)
(* comes at the reconciliation deadline at the latest, udevd finishes, and   *)
(* time passes.  Nothing is assumed of the kernel or of the daemon.          *)
Fairness ==
    /\ WF_vars(NetlinkMsg)
    /\ WF_vars(Tick(TRUE))
    /\ \A i \in Iface : /\ WF_vars(UdevInit(i))
                         /\ WF_vars(DelayPasses(i))
                         /\ WF_vars(Expire(i))

FairSpec == Spec /\ Fairness

------------------------------------------------------------------------------
(* Properties.                                                               *)

(* Every variable has its type; deleted links leave no kernel state behind.  *)
TypeOK ==
    /\ link \in [Iface -> Link \cup {None}]
    /\ udev \subseteq {i \in Iface : link[i] # None}
    /\ nlq \in Seq(Message) /\ Len(nlq) <= MaxQueue
    /\ watch \in [ifaces: SUBSET Iface, macs: SUBSET Iface, wifi: BOOLEAN]
    /\ explicitly_down \subseteq Iface \cup Ssid
    /\ started \in BOOLEAN
    /\ manual_pause_count \in 0..MaxPause
    /\ netlink_handle \in BOOLEAN
    /\ netlink_msg_receiver \in BOOLEAN
    /\ paused_state \in BOOLEAN
    /\ nic \in [Iface -> Nic]
    /\ dump_failed \in BOOLEAN
    /\ changes \in 0..MaxChanges
    /\ cmds \in 0..MaxCmds

(* An open session means the worker is started, not paused, polls the        *)
(* multicast receiver and has consumed its pre-pause snapshot.  The receiver *)
(* is moved in and out of the worker by run(), the handle is set and cleared *)
(* by resume() and pause(), so the two can drift apart.                      *)
SessionSound ==
    /\ netlink_handle => netlink_msg_receiver /\ ~paused_state
    /\ netlink_msg_receiver => started /\ manual_pause_count = 0
    /\ ~netlink_msg_receiver => nlq = <<>>

(* The daemon never goes deaf: once started, with no pause outstanding and a *)
(* watch registered, a session is open unless opening it failed.             *)
NotDeaf ==
    started /\ manual_pause_count = 0 /\ should_resume(watch)
        => netlink_handle \/ dump_failed

(* n's record has been reported: an up record with its SSID, a down record   *)
(* unless it is still queued for its report.                                 *)
Reported(n) ==
    n.emited # None =>
        IF n.emited.is_up
        THEN /\ n.told # None /\ n.told.is_up
             /\ n.emited.extra_info \in {None, n.told.ssid}
        ELSE \/ n.told # None /\ ~n.told.is_up
             \/ n.delay_queue # None /\ ~n.delay_queue.event.is_up

(* No record without a report.  emited makes later events of the same state  *)
(* duplicates, so a state that try_notify, process_delay_queue, pause or a   *)
(* dump recorded there without reporting it would be lost for good.          *)
Accounted == \A i \in Iface : Reported(nic[i])

Sent(i) == {nic'[i].out[k] : k \in DOMAIN nic'[i].out}

(* No link event of an interface or SSID that `npt down` silenced is         *)
(* forwarded, on any of the notification paths, until the mark is cleared.   *)
ExplicitlyDownSilent ==
    [][\A i \in Iface : \A ev \in Sent(i) :
         i \notin explicitly_down /\ ev.ssid \notin explicitly_down]_vars

(* A queued event that contradicts the record: deferred for udev, or a down   *)
(* debounced before `npt down` and `npt up` refreshed the record.             *)
StaleQueued(n) ==
    \/ n.udev_pending # None
    \/ n.delay_queue # None /\ ~n.delay_queue.event.is_up

(* An interface whose last recorded event is an unexpired up is not reported *)
(* up again: an unrelated apply's pause and resume, a duplicate message or a *)
(* reconciliation does not restart its DHCP client.  The exception is an     *)
(* older event still queued for the interface, which replays the past.       *)
NoDuplicateUp ==
    [][\A i \in Iface : \A ev \in Sent(i) :
         ev.is_up /\ nic[i].emited # None /\ ~StaleQueued(nic[i])
             => ~nic[i].emited.is_up \/ nic[i].emited.expired]_vars

(* While paused, or before Start, the worker sends nothing.                  *)
PausedSilent ==
    [][\A i \in Iface : Sent(i) # {} => started' /\ manual_pause_count' = 0]_vars

InterestedIn(i) ==
    event_is_interested(watch, i, [nic[i] EXCEPT !.iface_mac = TRUE],
                        QueryEvent(watch, i))

Settled(i) ==
    IF link[i] = None THEN nic[i].emited = None
    ELSE \/ ~InterestedIn(i)
         \/ i \in explicitly_down \/ link[i].ssid \in explicitly_down
         \/ /\ nic[i].told # None
            /\ nic[i].told.is_up = link[i].is_up
            /\ link[i].is_up /\ watch.wifi => nic[i].told.ssid = link[i].ssid

(* Lost, late and reordered notifications are made good: once the kernel and *)
(* the daemon leave the links alone and a session is open, the daemon is     *)
(* eventually told the state of every watched link, and forgets every link   *)
(* that is gone.                                                             *)
Converges == <>[](netlink_handle => \A i \in Iface : Settled(i))

------------------------------------------------------------------------------
(* Statements of the source's comments that the code does not keep.          *)

(* The message of i that a NetlinkMsg step consumes.                         *)
Consumes(m) ==
    nlq # <<>> /\ nlq' = Tail(nlq) /\ netlink_msg_receiver' /\ m = Head(nlq)

(* udev_pending_events: "a newer event for the same interface replaces the   *)
(* queued one".  A newer event that arrives after udev finished is handled   *)
(* at once and leaves the older one queued, to be replayed by the next tick. *)
NewerReplacesDeferred ==
    [][\A m \in {nlq[k] : k \in DOMAIN nlq} :
         (/\ Consumes(m) /\ m.kind = "new" /\ m.iface \in watch.ifaces
          /\ m.iface \notin explicitly_down
          /\ nic[m.iface].udev_pending # None
          /\ nic[m.iface].udev_pending.is_up # m.is_up)
           => \/ nic'[m.iface].udev_pending = None
              \/ nic'[m.iface].udev_pending.is_up = m.is_up]_vars

(* reconcile(): "a missed wifi association is recovered together with its    *)
(* SSID".  The query's event of a link that stayed up is debounced and then  *)
(* dropped as a duplicate up, although the daemon was told another SSID.     *)
MissedAssociationRecovered ==
    [][\A i \in WifiPhy :
         (/\ link[i] # None /\ nic[i].delay_queue # None
          /\ nic[i].delay_queue.event.ssid = link[i].ssid
          /\ link[i].ssid \notin explicitly_down \cup {None}
          /\ i \notin explicitly_down
          /\ nic'[i].delay_queue = None /\ link' = link)
           => nic'[i].told # None /\ nic'[i].told.ssid = link[i].ssid]_vars

(* wifi_phys_emited: "removed on interface delete so a later reappearance is *)
(* announced again".  A first event about another ifindex is another phy.    *)
ReplugAnnounced ==
    [][\A i \in WifiPhy : \A ev \in Sent(i) :
         (/\ ev.wifi /\ ~ev.is_delete /\ watch.wifi /\ Len(nic'[i].out) = 1
          /\ nic[i].emited # None /\ nic[i].emited.idx # ev.idx)
           => ev.is_new_wifi_phy]_vars
=============================================================================
