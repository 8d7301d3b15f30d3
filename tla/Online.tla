-------------------------------- MODULE Online --------------------------------
(***************************************************************************)
(* The online state of the daemon (daemon/wait_online.rs and               *)
(* lib/schema/wait_online.rs): the one-shot latch DAEMON_IS_ONLINE, the    *)
(* daemon paths that evaluate it, and clients that wait for it.            *)
(*                                                                         *)
(* Time is counted in seconds.  A waiter that is due runs before the next  *)
(* second begins; everything else of the daemon is as slow as it likes.    *)
(***************************************************************************)
EXTENDS Integers, FiniteSets

CONSTANTS
    Client,         \* clients that run `npt wait-online`
    Configs,        \* [conditions, timeout_sec] a user may save
    LinkStates,     \* family |-> states of the link of its default route
    MaxTime,        \* bound on time
    MaxChanges,     \* bound on changes of the default routes
    None

VARIABLES
    saved,          \* the saved `wait-online` configuration
    gateway,        \* family |-> state of the link its default route uses
    online,         \* DAEMON_IS_ONLINE
    wait,           \* client |-> its wait
    now, changes,
    metSince        \* conditions |-> since when they are met without a break

vars == <<saved, gateway, online, wait, now, changes, metSince>>

Family == {"ip4", "ip6"}

MAX_RETRY_WAIT == 2

(* Timeouts are natural numbers, and None is no time.                       *)
OnlineAssumption ==
    /\ None \notin Nat
    /\ \A cfg \in Configs : cfg.timeout_sec \in Nat

Least(a, b) == IF a < b THEN a ELSE b
Most(a, b) == IF a > b THEN a ELSE b

(***************************************************************************)
(* The conditions.  A default route only counts while its link is usable.  *)
(***************************************************************************)
route_matches(condition) ==
    CASE condition = "gateway" -> Family
      [] condition = "gateway4" -> {"ip4"}
      [] condition = "gateway6" -> {"ip6"}

route_iface_link_usable(f, routes) == routes[f] \in {"up", "unknown"}

is_met(condition, routes) ==
    \E f \in route_matches(condition) : route_iface_link_usable(f, routes)

AllMet(conditions, routes) == \A c \in conditions : is_met(c, routes)

(* try_set_daemon_online()                                                  *)
Latched(cfg, routes) == online \/ AllMet(cfg.conditions, routes)

(***************************************************************************)
(* The waiters.  A wait is started with the configuration saved then.      *)
(***************************************************************************)
Pow2(e) == IF e = 0 THEN 1 ELSE 2

NextWaitEight(retry_count, budget, elapsed) ==
    LET retry_wait == IF retry_count > 5 THEN 8 ELSE 1
    IN Least(retry_wait, Most(budget - elapsed, 0))

next_retry_wait(retry_count, budget, elapsed) ==
    LET ilog2 == MAX_RETRY_WAIT \div 2
        retry_wait == IF retry_count > 5
                      THEN Least(Most(Pow2(Least(retry_count - 5, ilog2)), 1), MAX_RETRY_WAIT)
                      ELSE 1
    IN Least(retry_wait, Most(budget - elapsed, 0))

NoWait == [pc |-> "none", cfg |-> None, since |-> 0, retry |-> 0, wake |-> 0]

Waiting(c) == wait[c].pc = "wait"
Deadline(c) == wait[c].since + wait[c].cfg.timeout_sec
Due(c) == Waiting(c) /\ (wait[c].wake <= now \/ Deadline(c) <= now)

StartWait(c) ==
    /\ wait[c].pc = "none"
    /\ wait' = [wait EXCEPT ![c] = [pc |-> "wait", cfg |-> saved, since |-> now,
                                    retry |-> 0, wake |-> now]]
    /\ UNCHANGED <<saved, gateway, online, now, changes, metSince>>

(* One round of _wait_online(): evaluate with the configuration the wait    *)
(* began with, then sleep, also when that set the latch.                    *)
Poll(c) ==
    /\ Waiting(c) /\ wait[c].wake <= now /\ ~online
    /\ now < Deadline(c)
    /\ online' = Latched(wait[c].cfg, gateway)
    /\ wait' = [wait EXCEPT ![c].retry = @ + 1,
                            ![c].wake = now + next_retry_wait(wait[c].retry,
                                               wait[c].cfg.timeout_sec, now - wait[c].since)]
    /\ UNCHANGED <<saved, gateway, now, changes, metSince>>

FinishWait(c) ==
    /\ Waiting(c) /\ wait[c].wake <= now /\ online
    /\ wait' = [wait EXCEPT ![c].pc = "online"]
    /\ UNCHANGED <<saved, gateway, online, now, changes, metSince>>

(* The outer timeout.  At the deadline it races the poll that ends then.    *)
Timeout(c) ==
    /\ Waiting(c) /\ Deadline(c) <= now
    /\ wait' = [wait EXCEPT ![c].pc = "timeout"]
    /\ UNCHANGED <<saved, gateway, online, now, changes, metSince>>

(***************************************************************************)
(* The daemon and the network.                                             *)
(***************************************************************************)
(* update_daemon_online_state() of the event worker, of the DHCP            *)
(* notifications and of the reconciliation of the monitor.                  *)
update_daemon_online_state ==
    /\ ~online
    /\ online' = Latched(saved, gateway)
    /\ UNCHANGED <<saved, gateway, wait, now, changes, metSince>>

(* An apply that changes the configuration: verify() still evaluates the    *)
(* one saved before, the end of the transaction the one it saved.           *)
ApplyWaitOnline(cfg) ==
    /\ saved # cfg
    /\ saved' = cfg
    /\ online' = (Latched(saved, gateway) \/ Latched(cfg, gateway))
    /\ UNCHANGED <<gateway, wait, now, changes, metSince>>

GatewayChanges(f, link) ==
    /\ changes < MaxChanges /\ gateway[f] # link
    /\ changes' = changes + 1
    /\ gateway' = [gateway EXCEPT ![f] = link]
    /\ metSince' = [S \in DOMAIN metSince |->
                      IF ~AllMet(S, gateway') THEN None
                      ELSE IF metSince[S] = None THEN now ELSE metSince[S]]
    /\ UNCHANGED <<saved, online, wait, now>>

Tick ==
    /\ now < MaxTime
    /\ \A c \in Client : ~Due(c)
    /\ now' = now + 1
    /\ UNCHANGED <<saved, gateway, online, wait, changes, metSince>>

Init ==
    /\ saved \in Configs
    /\ gateway = [f \in Family |-> CHOOSE l \in LinkStates[f] : l \in {"none", "down"}]
    /\ online = FALSE
    /\ wait = [c \in Client |-> NoWait]
    /\ now = 0 /\ changes = 0
    /\ metSince = [S \in {cfg.conditions : cfg \in Configs} |->
                     IF AllMet(S, gateway) THEN 0 ELSE None]

Next ==
    \/ \E c \in Client : StartWait(c) \/ Poll(c) \/ FinishWait(c) \/ Timeout(c)
    \/ update_daemon_online_state
    \/ \E cfg \in Configs : ApplyWaitOnline(cfg)
    \/ \E f \in Family : \E link \in LinkStates[f] : GatewayChanges(f, link)
    \/ Tick

Spec == Init /\ [][Next]_vars

(***************************************************************************)
(* Properties.                                                             *)
(***************************************************************************)
(* try_set_daemon_online(): the latch is only set by a step in which the     *)
(* conditions saved, or read by a waiter when it started, are all met by     *)
(* default routes over usable links, and it is never cleared.                *)
LatchStep ==
    /\ online => online'
    /\ online' /\ ~online =>
         \/ AllMet(saved.conditions, gateway) \/ AllMet(saved'.conditions, gateway)
         \/ \E c \in Client : Waiting(c) /\ AllMet(wait[c].cfg.conditions, gateway)

LatchOnlyWhenMet == [][LatchStep]_vars

(* next_retry_wait(): polling never backs off past the deadline, so a wait   *)
(* that times out had not had its conditions met, without a break, for two   *)
(* rounds of polling before the deadline.                                    *)
TimeoutWasOffline ==
    \A c \in Client : wait[c].pc = "timeout" =>
        LET since == metSince[wait[c].cfg.conditions]
        IN since # None => Most(since, wait[c].since) + 2 * MAX_RETRY_WAIT >= Deadline(c)

===============================================================================
