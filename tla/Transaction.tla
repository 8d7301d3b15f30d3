---------------------------- MODULE Transaction ----------------------------
(***************************************************************************)
(* Transactions of the nipart daemon: the transaction lock, the boot       *)
(* activation that starts under it, the client requests that apply a       *)
(* configuration, and the event worker, which applies without the lock.    *)
(*                                                                         *)
(* Actors are the tasks of the daemon: one per client connection, the boot *)
(* task, and the main loop, which awaits the event worker inline and so is *)
(* one sequential actor with it.  A step is what an actor does between two *)
(* awaits whose outcome another actor can change.  The interface monitor   *)
(* is reduced to what the others see of it: whether it is started, its     *)
(* outstanding pauses, the silenced interfaces and the messages it sends;  *)
(* module Monitor has the worker itself.                                   *)
(*                                                                         *)
(* A configuration is a value per interface, None for an interface that is *)
(* down or without configuration.                                          *)
(***************************************************************************)
EXTENDS Naturals, Sequences, FiniteSets

CONSTANTS
    Client,       \* client connections
    Boot,         \* the boot task
    Main,         \* the main loop with the event worker
    Iface,        \* interfaces
    Virtual,      \* those of them the boot task creates itself
    WifiPhy,      \* those of them `npt wifi off` purges
    Cfg,          \* configurations of an interface
    None,
    Ops,          \* the requests clients make
    MaxRequests,  \* bound: requests made by clients
    MaxEvents     \* bound: link events sent by the monitor

Actor == Client \cup {Boot, Main}
Locker == Client \cup {Boot}

ASSUME TransactionAssumption ==
    /\ IsFiniteSet(Client)
    /\ Boot \notin Client /\ Main \notin Client /\ Boot # Main
    /\ None \notin Actor
    /\ Virtual \subseteq Iface /\ WifiPhy \subseteq Iface
    /\ None \notin Cfg
    /\ Ops \subseteq {"apply", "up", "down", "wifi_on", "wifi_off"}
    /\ MaxRequests \in Nat /\ MaxEvents \in Nat

VARIABLES
    lock_holder,      \* who owns LOCK
    lock_waiters,     \* FIFO of the waiting tasks
    cur_locker_pid,   \* CUR_LOCKER_PID
    pc,               \* where each actor is
    tx,               \* per actor: the locals of its request
    kernel,           \* the configuration the kernel runs
    saved,            \* the configuration the conf worker holds
    started,          \* the monitor was started
    pauses,           \* its manual_pause_count
    explicitly_down,  \* interfaces silenced by `npt down`
    managers_ipc,     \* messages from the monitor to the main loop
    boot_applied,     \* the Notify holds a permit
    boot_log,         \* what the daemon logged of the initial batch
    entry,            \* history: kernel when the owner got the lock
    raced,            \* history: written by Main since then
    requests, events  \* bounds used up so far

vars == <<lock_holder, lock_waiters, cur_locker_pid, pc, tx, kernel, saved,
          started, pauses, explicitly_down, managers_ipc, boot_applied,
          boot_log, entry, raced, requests, events>>

lockVars == <<lock_holder, lock_waiters, cur_locker_pid>>
monitorVars == <<started, pauses, explicitly_down, managers_ipc>>
bootVars == <<boot_applied, boot_log>>
history == <<entry, raced>>
bounds == <<requests, events>>

------------------------------------------------------------------------------
APPLY_RETRY_MAX == 2

Value == Cfg \cup {None}
Partial == UNION {[S -> Value] : S \in SUBSET Iface}
Nothing == [i \in {} |-> None]

(* What is left of k when d is applied on top of it.                         *)
Update(k, d) == [i \in Iface |-> IF i \in DOMAIN d THEN d[i] ELSE k[i]]
Part(k, S) == [i \in S |-> k[i]]
Configured(k, S) == {i \in S : k[i] # None}

(* The locals of a transaction: what to apply, the reverting state and the   *)
(* state to save computed from what it read, the attempt, and its result.    *)
Tx == [op: Ops \cup {"boot", "event", "boot_batch"},
       desired: Partial, revert: Partial, to_save: Partial,
       attempt: 1..APPLY_RETRY_MAX, err: BOOLEAN, rolled_back: BOOLEAN]

NewTx(op, desired) ==
    [op |-> op, desired |-> desired, revert |-> Nothing, to_save |-> Nothing,
     attempt |-> 1, err |-> FALSE, rolled_back |-> FALSE]

NoTx == NewTx("boot", Nothing)

no_verify(t) == t.op \in {"boot", "event", "boot_batch"}
memory_only(t) == t.op # "apply"

(* The pcs of a lock owner, and those between its pause and its resume.      *)
Paused == {"apply", "verify", "rollback", "save", "setup", "resume"}
Locked == Paused \cup {"store", "begin", "query", "pause", "finish", "drop",
                       "release", "boot", "monitors", "start", "bootfail",
                       "notified"}
Label == Locked \cup {"idle", "check", "wait", "await", "done"}

Goto(a, l) == pc' = [pc EXCEPT ![a] = l]
At(a, l) == pc[a] = l
Fail(a, l) == tx' = [tx EXCEPT ![a].err = TRUE] /\ Goto(a, l)
Answer(a) == tx' = [tx EXCEPT ![a] = NoTx] /\ Goto(a, "idle")
Message == [boot: BOOLEAN, ups: SUBSET Iface, downs: SUBSET Iface]

------------------------------------------------------------------------------
(* The transaction lock (lock.rs): a fair mutex, and the owner's PID stored  *)
(* after it was acquired and cleared before it is released.                  *)

Enqueue(c) == lock_waiters' = Append(lock_waiters, c)

(* Mutant: the lock does not exclude.                                        *)
AcquireAnyway(c) ==
    /\ At(c, "wait")
    /\ lock_waiters # <<>> /\ Head(lock_waiters) = c
    /\ lock_holder' = c
    /\ lock_waiters' = Tail(lock_waiters)
    /\ Goto(c, "store")
    /\ entry' = kernel /\ raced' = {}
    /\ UNCHANGED <<cur_locker_pid, tx, kernel, saved, monitorVars, bootVars,
                   bounds>>

Acquire(c) ==
    /\ At(c, "wait") /\ lock_holder = None
    /\ lock_waiters # <<>> /\ Head(lock_waiters) = c
    /\ lock_holder' = c
    /\ lock_waiters' = Tail(lock_waiters)
    /\ Goto(c, "store")
    /\ entry' = kernel /\ raced' = {}
    /\ UNCHANGED <<cur_locker_pid, tx, kernel, saved, monitorVars, bootVars,
                   bounds>>

StorePid(c) ==
    /\ At(c, "store")
    /\ cur_locker_pid' = c
    /\ Goto(c, "begin")
    /\ UNCHANGED <<lock_holder, lock_waiters, tx, kernel, saved, monitorVars,
                   bootVars, history, bounds>>

ClearPid(a) ==
    /\ At(a, "drop")
    /\ cur_locker_pid' = None
    /\ Goto(a, "release")
    /\ entry' = Nothing /\ raced' = {}
    /\ UNCHANGED <<lock_holder, lock_waiters, tx, kernel, saved, monitorVars,
                   bootVars, bounds>>

(* The client is answered; `npt up` and `npt down` first wait for the action *)
(* to show.                                                                  *)
Release(a) ==
    /\ At(a, "release")
    /\ lock_holder' = None
    /\ IF tx[a].op \in {"up", "down"} /\ ~tx[a].err
       THEN Goto(a, "await") /\ UNCHANGED tx
       ELSE Answer(a)
    /\ UNCHANGED <<lock_waiters, cur_locker_pid, kernel, saved, monitorVars,
                   bootVars, history, bounds>>

------------------------------------------------------------------------------
(* Client requests (api.rs, iface_action.rs, commander.rs).                  *)

Desired(op) ==
    CASE op = "apply" -> {[j \in {i} |-> v] : i \in Iface, v \in Value}
      [] op = "wifi_off" -> {[j \in WifiPhy |-> None]}
      [] op = "wifi_on" -> {Nothing}
      [] OTHER -> {[j \in {i} |-> None] : i \in Iface}

(* `npt up` looks its profile up before it waits for the lock.               *)
Send(c) ==
    /\ At(c, "idle") /\ requests < MaxRequests
    /\ requests' = requests + 1
    /\ \E op \in Ops : \E d \in Desired(op) :
         /\ tx' = [tx EXCEPT ![c] = NewTx(op, d)]
         /\ IF op = "up" THEN Goto(c, "check") /\ UNCHANGED lock_waiters
            ELSE Goto(c, "wait") /\ Enqueue(c)
    /\ UNCHANGED <<lock_holder, cur_locker_pid, kernel, saved, monitorVars,
                   bootVars, history, events>>

check_up_interface(c) ==
    /\ At(c, "check")
    /\ IF Configured(saved, DOMAIN tx[c].desired) = {}
       THEN Answer(c) /\ UNCHANGED lock_waiters
       ELSE Goto(c, "wait") /\ Enqueue(c) /\ UNCHANGED tx
    /\ UNCHANGED <<lock_holder, cur_locker_pid, kernel, saved, monitorVars,
                   bootVars, history, bounds>>

Begin(c, op) ==
    /\ At(c, "begin") /\ tx[c].op = op
    /\ UNCHANGED <<lockVars, kernel, saved, started, pauses, managers_ipc,
                   bootVars, history, bounds>>

BeginApply(c) ==
    /\ Begin(c, "apply")
    /\ Goto(c, "query")
    /\ UNCHANGED <<tx, explicitly_down>>

(* The profile is looked up again under the lock; the mark of an earlier     *)
(* `npt down` goes before the apply.                                         *)
up_interface(c) ==
    LET target == DOMAIN tx[c].desired
    IN  /\ Begin(c, "up")
        /\ IF Configured(saved, target) = {}
           THEN Fail(c, "drop") /\ UNCHANGED explicitly_down
           ELSE /\ explicitly_down' = explicitly_down \ target
                /\ tx' = [tx EXCEPT ![c].desired = Part(saved, target)]
                /\ Goto(c, "query")

(* Without a profile the interface is looked up in the running state, where  *)
(* it may be missing.                                                        *)
down_interface(c) ==
    LET target == DOMAIN tx[c].desired
    IN  /\ Begin(c, "down")
        /\ \/ /\ Configured(saved, target) = {}
              /\ Fail(c, "drop") /\ UNCHANGED explicitly_down
           \/ /\ explicitly_down' = explicitly_down \cup target
              /\ Goto(c, "query")
              /\ UNCHANGED tx

(* The plugin may refuse; turning wifi off also purges the wifi-phys.        *)
wifi_control(c) ==
    /\ \E op \in {"wifi_on", "wifi_off"} :
         /\ Begin(c, op)
         /\ \/ Fail(c, "drop")
            \/ /\ Goto(c, IF op = "wifi_on" \/ WifiPhy = {}
                          THEN "drop" ELSE "query")
               /\ UNCHANGED tx
    /\ UNCHANGED explicitly_down

(* Bounded by a timeout.                                                     *)
wait_for_iface_action(c) ==
    /\ At(c, "await")
    /\ Answer(c)
    /\ UNCHANGED <<lockVars, kernel, saved, monitorVars, bootVars, history,
                   bounds>>

------------------------------------------------------------------------------
(* One apply (apply.rs).  A lock owner runs all of it; the event worker runs *)
(* the part from the pause to the resume, without rollback and save.         *)

(* The rest of the daemon, which no step of an apply changes.                *)
Within == UNCHANGED <<lockVars, started, explicitly_down, managers_ipc,
                      bootVars, bounds>>

(* Mutant: what had no configuration is left out of the reverting state.     *)
QueryRevertsConfigured(a) ==
    /\ At(a, "query")
    /\ \/ Fail(a, "finish")
       \/ /\ tx' = [tx EXCEPT
                      ![a].revert = Part(kernel,
                         Configured(kernel, DOMAIN tx[a].desired)),
                      ![a].to_save = Update(saved, tx[a].desired)]
          /\ Goto(a, "pause")
    /\ UNCHANGED <<kernel, saved, pauses, history>> /\ Within

(* Mutant: the state to save is merged from the running state.               *)
QuerySavesRunning(a) ==
    /\ At(a, "query")
    /\ tx' = [tx EXCEPT ![a].revert = Part(kernel, DOMAIN tx[a].desired),
                        ![a].to_save = Update(kernel, tx[a].desired)]
    /\ Goto(a, "pause")
    /\ UNCHANGED <<kernel, saved, pauses, history>> /\ Within

(* Query the running state, merge, and compute what to save and to revert.   *)
Query(a) ==
    /\ At(a, "query")
    /\ \/ Fail(a, "finish")
       \/ /\ tx' = [tx EXCEPT
                      ![a].revert = Part(kernel, DOMAIN tx[a].desired),
                      ![a].to_save = Update(saved, tx[a].desired)]
          /\ Goto(a, "pause")
    /\ UNCHANGED <<kernel, saved, pauses, history>> /\ Within

PauseMonitor(a) ==
    /\ At(a, "pause")
    /\ pauses' = pauses + 1
    /\ Goto(a, "apply")
    /\ UNCHANGED <<tx, kernel, saved, history>> /\ Within

Applied(a) == IF a = Main THEN "setup" ELSE "save"

(* Mutant: the attempts are not counted.                                     *)
RetryForever(a) ==
    \E retriable \in BOOLEAN :
      IF retriable
      THEN Goto(a, "apply") /\ UNCHANGED tx
      ELSE /\ tx' = [tx EXCEPT ![a].err = TRUE, ![a].attempt = 1]
           /\ Goto(a, IF a = Main THEN "resume" ELSE "rollback")

(* A retriable error repeats the apply once; then, or at once when the error *)
(* is not retriable or the client is gone, the apply has failed.             *)
AttemptFails(a) ==
    \E retriable \in BOOLEAN :
      IF retriable /\ tx[a].attempt < APPLY_RETRY_MAX
      THEN /\ tx' = [tx EXCEPT ![a].attempt = @ + 1]
           /\ Goto(a, "apply")
      ELSE /\ tx' = [tx EXCEPT ![a].err = TRUE, ![a].attempt = 1]
           /\ Goto(a, IF a = Main THEN "resume" ELSE "rollback")

(* A failing apply has written some of the interfaces.                       *)
Write(a, d) ==
    /\ kernel' = Update(kernel, d)
    /\ raced' = IF a = Main /\ entry # Nothing THEN raced \cup DOMAIN d
                ELSE raced
    /\ UNCHANGED entry

apply_merged_state_once(a) ==
    /\ At(a, "apply")
    /\ \/ /\ Write(a, tx[a].desired)
          /\ Goto(a, IF no_verify(tx[a]) THEN Applied(a) ELSE "verify")
          /\ UNCHANGED tx
       \/ /\ \E S \in SUBSET DOMAIN tx[a].desired :
               Write(a, Part(tx[a].desired, S))
          /\ AttemptFails(a)
    /\ UNCHANGED <<saved, pauses>> /\ Within

(* The running state is compared with the desired one; plugins, DHCP and the *)
(* wifi association may fail as well.                                        *)
verify(a) ==
    /\ At(a, "verify")
    /\ \/ /\ Part(kernel, DOMAIN tx[a].desired) = tx[a].desired
          /\ Goto(a, Applied(a))
          /\ UNCHANGED tx
       \/ AttemptFails(a)
    /\ UNCHANGED <<kernel, saved, pauses, history>> /\ Within

(* A failing rollback is only logged.                                        *)
rollback(a) ==
    /\ At(a, "rollback")
    /\ \/ /\ Write(a, tx[a].revert)
          /\ tx' = [tx EXCEPT ![a].rolled_back = TRUE]
       \/ /\ \E S \in SUBSET DOMAIN tx[a].revert :
               Write(a, Part(tx[a].revert, S))
          /\ UNCHANGED tx
    /\ Goto(a, "resume")
    /\ UNCHANGED <<saved, pauses>> /\ Within

(* A failing save is only logged.                                            *)
Save(a) ==
    /\ At(a, "save")
    /\ saved' \in IF memory_only(tx[a]) THEN {saved}
                  ELSE {saved, tx[a].to_save}
    /\ tx' = [tx EXCEPT ![a].to_save = Nothing]
    /\ Goto(a, "setup")
    /\ UNCHANGED <<kernel, pauses, history>> /\ Within

(* Mutant: a failing setup returns before the monitor is resumed.            *)
SetupReturnsEarly(a) ==
    /\ At(a, "setup")
    /\ \/ Fail(a, IF a = Main THEN "done" ELSE "finish")
       \/ Goto(a, "resume") /\ UNCHANGED tx
    /\ UNCHANGED <<kernel, saved, pauses, history>> /\ Within

setup_monitor(a) ==
    /\ At(a, "setup")
    /\ (Fail(a, "resume") \/ (Goto(a, "resume") /\ UNCHANGED tx))
    /\ UNCHANGED <<kernel, saved, pauses, history>> /\ Within

(* Mutant: the monitor is resumed once more than it was paused.              *)
ResumeTwice(a) ==
    /\ At(a, "resume")
    /\ pauses' = pauses - 2
    /\ Goto(a, IF a = Main THEN "done" ELSE "finish")
    /\ UNCHANGED <<tx, kernel, saved, history>> /\ Within

(* The link dump of the last resume may fail.                                *)
ResumeMonitor(a) ==
    /\ At(a, "resume")
    /\ pauses' = pauses - 1
    /\ LET next == IF a = Main THEN "done" ELSE "finish"
       IN  \/ Goto(a, next) /\ UNCHANGED tx
           \/ pauses' = 0 /\ started /\ Fail(a, next)
    /\ UNCHANGED <<kernel, saved, history>> /\ Within

(* Updating the online state may still fail the request.  A failed `npt      *)
(* down` clears its mark; the boot task goes on whatever the result.         *)
Finish(a) ==
    /\ At(a, "finish")
    /\ \E failed \in {TRUE, tx[a].err} :
         /\ tx' = [tx EXCEPT ![a] = [NewTx(tx[a].op, Nothing)
                                     EXCEPT !.err = failed]]
         /\ explicitly_down' =
              IF failed /\ tx[a].op = "down"
              THEN explicitly_down \ DOMAIN tx[a].desired
              ELSE explicitly_down
    /\ Goto(a, IF a = Boot THEN "monitors" ELSE "drop")
    /\ UNCHANGED <<lockVars, kernel, saved, started, pauses, managers_ipc,
                   bootVars, history, bounds>>

------------------------------------------------------------------------------
(* Boot activation (daemon.rs, commander.rs).  The lock was taken before the *)
(* task was spawned.                                                         *)

BootStep(l) ==
    /\ At(Boot, l)
    /\ UNCHANGED <<lockVars, kernel, saved, pauses, explicitly_down, history,
                   bounds>>

boot_apply_inner ==
    /\ BootStep("boot")
    /\ LET virtual == Configured(saved, Virtual)
       IN  \/ Goto(Boot, "bootfail") /\ UNCHANGED tx
           \/ /\ tx' = [tx EXCEPT ![Boot] =
                                  NewTx("boot", Part(saved, virtual))]
              /\ Goto(Boot, IF virtual = {} THEN "monitors" ELSE "query")
    /\ UNCHANGED <<started, managers_ipc, bootVars>>

setup_saved_state_monitors ==
    /\ BootStep("monitors")
    /\ (Goto(Boot, "start") \/ Goto(Boot, "bootfail"))
    /\ UNCHANGED <<tx, started, managers_ipc, bootVars>>

(* Start sends the initial batch, whatever of the link dump succeeded, and   *)
(* does nothing when the monitor was started before.                         *)
Start ==
    /\ started' = TRUE
    /\ IF started THEN UNCHANGED managers_ipc
       ELSE \E ups, downs \in SUBSET Iface :
              /\ ups \cap downs = {}
              /\ managers_ipc' = Append(managers_ipc,
                   [boot |-> TRUE, ups |-> ups, downs |-> downs])

StartMonitor ==
    /\ BootStep("start")
    /\ Start
    /\ (Goto(Boot, "notified") \/ Goto(Boot, "bootfail"))
    /\ UNCHANGED <<tx, bootVars>>

(* The monitor is started even when the boot state could not be loaded; the  *)
(* task does not wait for the initial batch then.                            *)
BootFailed ==
    /\ BootStep("bootfail")
    /\ Start
    /\ Goto(Boot, "drop")
    /\ UNCHANGED <<tx, bootVars>>

BootNotified ==
    /\ BootStep("notified")
    /\ boot_applied
    /\ boot_applied' = FALSE
    /\ Goto(Boot, "drop")
    /\ UNCHANGED <<tx, started, managers_ipc, boot_log>>

------------------------------------------------------------------------------
(* The monitor and the main loop with the event worker (event_worker.rs).    *)

LinkEvent(i) ==
    /\ started /\ pauses = 0 /\ i \notin explicitly_down
    /\ events < MaxEvents
    /\ events' = events + 1
    /\ \E up \in BOOLEAN :
         managers_ipc' = Append(managers_ipc,
           [boot |-> FALSE, ups |-> IF up THEN {i} ELSE {},
            downs |-> IF up THEN {} ELSE {i}])
    /\ UNCHANGED <<lockVars, pc, tx, kernel, saved, started, pauses,
                   explicitly_down, bootVars, history, requests>>

(* The worker reads the saved and the running state and derives what to      *)
(* apply: the profile of an interface that is up, nothing for one that is    *)
(* down.  A stale down, and an interface that is gone, are skipped.  The     *)
(* queries, the merge and the watches of what is gone may fail.              *)
handle_events ==
    /\ At(Main, "idle") /\ managers_ipc # <<>>
    /\ managers_ipc' = Tail(managers_ipc)
    /\ LET m == Head(managers_ipc)
           op == IF m.boot THEN "boot_batch" ELSE "event"
       IN  \E handled \in SUBSET Configured(saved, m.ups \cup m.downs) :
             LET desired == [i \in handled |->
                               IF i \in m.ups THEN saved[i] ELSE None]
             IN  \/ /\ tx' = [tx EXCEPT ![Main] = NewTx(op, desired)]
                    /\ Goto(Main, IF handled = {} THEN "done" ELSE "pause")
                 \/ /\ tx' = [tx EXCEPT ![Main] =
                                 [NewTx(op, desired) EXCEPT !.err = TRUE]]
                    /\ Goto(Main, "done")
    /\ UNCHANGED <<lockVars, kernel, saved, started, pauses, explicitly_down,
                   bootVars, history, bounds>>

(* Mutant: only a batch that was applied stores the permit.                  *)
NotifyOnSuccess ==
    /\ At(Main, "done")
    /\ Answer(Main)
    /\ IF tx[Main].op = "boot_batch"
       THEN /\ boot_applied' = ~tx[Main].err
            /\ boot_log' = "applied"
       ELSE UNCHANGED bootVars
    /\ UNCHANGED <<lockVars, kernel, saved, monitorVars, history, bounds>>

(* After a retriable failure the event worker has the monitor forget what it *)
(* emitted (Monitor's ForgetEmitted), which changes nothing here.  It logs   *)
(* its error and replies Ok, so the daemon always logs the initial batch as  *)
(* applied.  Either way the permit is stored.                                *)
handle_manager_cmd ==
    /\ At(Main, "done")
    /\ Answer(Main)
    /\ IF tx[Main].op = "boot_batch"
       THEN /\ boot_applied' = TRUE
            /\ boot_log' = "applied"
       ELSE UNCHANGED bootVars
    /\ UNCHANGED <<lockVars, kernel, saved, monitorVars, history, bounds>>

------------------------------------------------------------------------------
Init ==
    /\ lock_holder = Boot
    /\ lock_waiters = <<>>
    /\ cur_locker_pid = Boot
    /\ pc = [a \in Actor |-> IF a = Boot THEN "boot" ELSE "idle"]
    /\ saved \in [Iface -> Value]
    /\ kernel = [i \in Iface |-> None]
    /\ tx = [a \in Actor |-> NoTx]
    /\ started = FALSE
    /\ pauses = 0
    /\ explicitly_down = {}
    /\ managers_ipc = <<>>
    /\ boot_applied = FALSE
    /\ boot_log = None
    /\ entry = kernel
    /\ raced = {}
    /\ requests = 0
    /\ events = 0

ApplyStep(a) ==
    \/ PauseMonitor(a) \/ apply_merged_state_once(a)
    \/ setup_monitor(a) \/ ResumeMonitor(a)

OwnerStep(a) ==
    \/ Query(a) \/ ApplyStep(a) \/ verify(a) \/ rollback(a) \/ Save(a)
    \/ Finish(a) \/ ClearPid(a) \/ Release(a)

ClientStep(c) ==
    \/ check_up_interface(c) \/ Acquire(c) \/ StorePid(c)
    \/ BeginApply(c) \/ up_interface(c) \/ down_interface(c)
    \/ wifi_control(c) \/ OwnerStep(c)
    \/ wait_for_iface_action(c)

BootTask ==
    \/ boot_apply_inner \/ setup_saved_state_monitors \/ StartMonitor
    \/ BootFailed \/ BootNotified \/ OwnerStep(Boot)

MainLoop ==
    handle_events \/ ApplyStep(Main) \/ handle_manager_cmd

Next ==
    \/ \E c \in Client : Send(c) \/ ClientStep(c)
    \/ BootTask
    \/ MainLoop
    \/ \E i \in Iface : LinkEvent(i)

Spec == Init /\ [][Next]_vars

(* Every task of the daemon keeps running: its awaits are replies of workers *)
(* that answer every command, sleeps, bounded retries and timeouts, and the  *)
(* lock, which is fair.  Nothing is assumed of clients and of the links.     *)
Fairness ==
    /\ \A c \in Client : WF_vars(ClientStep(c))
    /\ WF_vars(BootTask)
    /\ WF_vars(MainLoop)

FairSpec == Spec /\ Fairness

------------------------------------------------------------------------------
(* Properties.                                                               *)

(* Every variable has its type.                                              *)
TypeOK ==
    /\ lock_holder \in Locker \cup {None}
    /\ lock_waiters \in Seq(Client)
    /\ cur_locker_pid \in Locker \cup {None}
    /\ pc \in [Actor -> Label]
    /\ tx \in [Actor -> Tx]
    /\ kernel \in [Iface -> Value]
    /\ saved \in [Iface -> Value]
    /\ started \in BOOLEAN
    /\ pauses \in Nat
    /\ explicitly_down \subseteq Iface
    /\ managers_ipc \in Seq(Message)
    /\ boot_applied \in BOOLEAN
    /\ boot_log \in {None, "applied", "failed"}
    /\ entry \in Partial
    /\ raced \subseteq Iface
    /\ requests \in 0..MaxRequests
    /\ events \in 0..MaxEvents

(* Transactions exclude each other: whoever is inside one owns the lock, and *)
(* the owner is inside one, through every error path, so that the lock is    *)
(* neither shared nor left behind.                                           *)
MutualExclusion == \A a \in Locker : pc[a] \in Locked <=> lock_holder = a

(* The PID a waiting client is shown is the owner's.  The owner clears it    *)
(* before it releases the lock; the other order would erase the PID of the   *)
(* next owner.                                                               *)
LockerPidSound ==
    /\ cur_locker_pid # None => lock_holder = cur_locker_pid
    /\ \A a \in Locker :
         lock_holder = a /\ pc[a] \notin {"store", "release"}
             => cur_locker_pid = a

(* The monitor's pause count is the number of applies in progress: no early  *)
(* return leaves a pause behind, which would make the daemon deaf, and none  *)
(* resumes twice, which would end the pause of another apply.                *)
PauseBalanced == pauses = Cardinality({a \in Actor : pc[a] \in Paused})

(* The monitor is never started while an apply holds it paused.              *)
StartUnpaused == [][~started /\ started' => pauses = 0]_vars

(* A save changes the profiles of its own request only: the state to save is *)
(* computed from the saved state read long before, so a save in between      *)
(* would be undone.                                                          *)
NoLostSave ==
    [][\A i \in Iface : saved'[i] # saved[i] =>
         \E c \in Client : At(c, "save") /\ i \in DOMAIN tx[c].desired]_vars

(* After a rollback that did not fail, every interface is as it was when the *)
(* transaction got the lock, except what the event worker, which does not    *)
(* take the lock, wrote since: the reverting state covers all that several   *)
(* attempts may have written.                                                *)
RollbackRestores ==
    \A a \in Locker :
      pc[a] \in {"resume", "finish"} /\ tx[a].rolled_back =>
        \A i \in Iface : kernel[i] = entry[i] \/ i \in raced

(* Every request is answered, behind boot activation, other transactions and *)
(* any failure of any of them.                                               *)
RequestAnswered ==
    \A c \in Client : pc[c] # "idle" ~> pc[c] = "idle"

(* Boot activation ends and gives its lock away, whatever fails in it.       *)
BootHandsOver == <>(lock_holder # Boot)

------------------------------------------------------------------------------
(* Statements of the source's comments that the code does not keep.          *)

(* boot_applied: "client transactions wait for boot activation instead of    *)
(* racing it".  When boot activation fails, the lock is released while the   *)
(* initial batch is still to be applied.                                     *)
ClientsWaitForBoot == lock_holder \in Client => boot_log # None

(* handle_manager_cmd: "a failed batch is not `applied`".                    *)
BootOutcomeReported ==
    [][At(Main, "done") /\ pc'[Main] = "idle" /\ tx[Main].op = "boot_batch"
         /\ tx[Main].err => boot_log' # "applied"]_vars

(* explicitly_down: the events of these interfaces are dropped "so the event *)
(* worker cannot re-apply the saved config".  An event that was sent before  *)
(* the mark is applied after the whole of `npt down`.                        *)
DownStaysDown ==
    [][\A i \in explicitly_down :
         lock_holder = None /\ At(Main, "apply") /\ kernel[i] = None
             => kernel'[i] = None]_vars
=============================================================================
