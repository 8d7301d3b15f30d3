-------------------------------- MODULE Plugins --------------------------------
(***************************************************************************)
(* The plugin worker of the daemon (daemon/plugin/plugin_worker.rs), run   *)
(* by a task manager (daemon/task.rs), and the plugin processes it starts  *)
(* (lib/plugin/plugin_trait.rs).  Every request goes over a connection of  *)
(* its own; a plugin serves each connection in a task of its own, so a     *)
(* request whose caller is gone may still be carried out, at any time.     *)
(*                                                                         *)
(* `held` is the configuration a plugin runs, named by the number of the   *)
(* transaction it comes from.                                              *)
(***************************************************************************)
EXTENDS Naturals, FiniteSets

CONSTANTS
    Plugin,         \* the installed plugins
    Handles,        \* plugin |-> the interface types of its plugin_info
    PluginRequests, \* the sets of interface types that requests name
    BuiltIn,        \* the types that need no plugin
    MaxRetry,       \* connection rounds, NPT_PLUGIN_CONN_RETRY
    MaxTries,       \* tries of one apply
    MaxTxns,        \* bound on transactions
    MaxFaults       \* bound on crashes

VARIABLES
    child,          \* plugin |-> "none", "starting", "listening" or "dead"
    worker,         \* [pc, left, known]
    held,           \* plugin |-> number of a transaction
    calls,          \* requests on their way: [p, val, n, sent, waited]
    txn,            \* [pc, n, types, before, try, res]
    disturbed,      \* plugins that lost a request or an answer of this transaction
    crashes

pluginVars == <<child, worker, held, calls, txn, disturbed, crashes>>

Supported == BuiltIn \cup UNION {Handles[p] : p \in worker.known}
Concerned(types) == {p \in worker.known : Handles[p] \cap types # {}}
Awaited == {c \in calls : c.waited}

(***************************************************************************)
(* Starting.                                                               *)
(***************************************************************************)
(* A plugin that cannot be started still counts as expected.                *)
Spawn ==
    /\ worker.pc = "spawn"
    /\ \E started \in SUBSET Plugin :
          child' = [p \in Plugin |-> IF p \in started THEN "starting" ELSE "none"]
    /\ worker' = [worker EXCEPT !.pc = "connect"]
    /\ UNCHANGED <<held, calls, txn, disturbed, crashes>>

Listen(p) ==
    /\ child[p] = "starting"
    /\ child' = [child EXCEPT ![p] = "listening"]
    /\ UNCHANGED <<worker, held, calls, txn, disturbed, crashes>>

Connecting == Cardinality(worker.known) < Cardinality(Plugin) /\ worker.left >= 1

connect_plugins ==
    /\ worker.pc = "connect" /\ Connecting
    /\ worker' = [worker EXCEPT !.left = @ - 1,
                                !.known = @ \cup {p \in Plugin : child[p] = "listening"}]
    /\ UNCHANGED <<child, held, calls, txn, disturbed, crashes>>

Ready ==
    /\ worker.pc = "connect" /\ ~Connecting
    /\ worker' = [worker EXCEPT !.pc = "run"]
    /\ UNCHANGED <<child, held, calls, txn, disturbed, crashes>>

(***************************************************************************)
(* A transaction: the plugin part of an apply, its retry, its rollback.    *)
(***************************************************************************)
Everywhere(n) == [p \in Plugin |-> n]

(* The requests of one command, made together; a plugin that is dead is an  *)
(* error that is only logged.                                               *)
NewCalls(types, val, n) ==
    {[p |-> p, val |-> val[p], n |-> n, sent |-> FALSE, waited |-> TRUE] :
        p \in {q \in Concerned(types) : child[q] = "listening"}}

Begin(types) ==
    /\ worker.pc = "run" /\ txn.pc = "idle" /\ txn.n < MaxTxns
    /\ txn' = [pc |-> "apply", n |-> txn.n + 1, types |-> types, before |-> held,
               try |-> 1, res |-> "none"]
    /\ calls' = calls \cup NewCalls(types, Everywhere(txn.n + 1), txn.n + 1)
    /\ disturbed' = {c.p : c \in calls}
    /\ UNCHANGED <<child, worker, held, crashes>>

FailedTriesForever(left) ==
    /\ txn' = [txn EXCEPT !.try = IF @ < MaxTries THEN @ + 1 ELSE @]
    /\ calls' = left \cup NewCalls(txn.types, Everywhere(txn.n), txn.n)

FailedGivesUp(left) ==
    /\ txn' = [txn EXCEPT !.pc = "idle", !.res = "failed"]
    /\ calls' = left

(* The command failed: the apply is tried again, then rolled back; the      *)
(* rollback is tried once.                                                  *)
Failed(left) ==
    IF txn.pc = "rollback"
    THEN /\ txn' = [txn EXCEPT !.pc = "idle", !.res = "failed"]
         /\ calls' = left
    ELSE IF txn.try < MaxTries
    THEN /\ txn' = [txn EXCEPT !.try = @ + 1]
         /\ calls' = left \cup NewCalls(txn.types, Everywhere(txn.n), txn.n)
    ELSE /\ txn' = [txn EXCEPT !.pc = "rollback", !.res = "failed"]
         /\ calls' = left \cup NewCalls(txn.types, txn.before, txn.n)

Send(c) ==
    /\ c \in calls /\ ~c.sent
    /\ calls' = (calls \ {c}) \cup {[c EXCEPT !.sent = TRUE]}
    /\ UNCHANGED <<child, worker, held, txn, disturbed, crashes>>

(* A future that is dropped takes a request that was not sent with it.      *)
Abandon(rest) == {[c EXCEPT !.waited = FALSE] : c \in {d \in rest : d.sent}}

(* A plugin is as asked once it answers a request and no older one is left. *)
Healed(c, answer) == answer = "ok" /\ c.waited /\ \A d \in calls \ {c} : d.p # c.p

(* What an early end leaves: requests on their way, or a rollback not told. *)
Dropped(c) == {d.p : d \in {e \in Awaited \ {c} : e.sent \/ txn.pc = "rollback"}}

(* process_connection() of the plugin, with the answer it gives.  Only a    *)
(* DependencyError ends the command, at once.                               *)
Process(c, answer) ==
    /\ c \in calls /\ c.sent /\ child[c.p] = "listening"
    /\ held' \in (IF answer = "ok" THEN {[held EXCEPT ![c.p] = c.val]}
                  ELSE {held, [held EXCEPT ![c.p] = c.val]})
    /\ disturbed' = (IF Healed(c, answer) THEN disturbed \ {c.p} ELSE disturbed \cup {c.p})
                      \cup (IF answer = "dependency" /\ c.waited THEN Dropped(c) ELSE {})
    /\ IF answer = "dependency" /\ c.waited
       THEN Failed((calls \ Awaited) \cup Abandon(Awaited \ {c}))
       ELSE /\ calls' = calls \ {c} /\ UNCHANGED txn
    /\ UNCHANGED <<child, worker, crashes>>

(* The timeout of recv(): logged, the request goes on.                      *)
CallTimeout(c) ==
    /\ c \in Awaited
    /\ calls' = (calls \ {c}) \cup Abandon({c})
    /\ disturbed' = disturbed \cup {c.p}
    /\ UNCHANGED <<child, worker, held, txn, crashes>>

Answered ==
    /\ txn.pc # "idle" /\ Awaited = {}
    /\ IF txn.types \subseteq Supported
       THEN /\ txn' = [txn EXCEPT !.pc = "idle", !.res = IF @ = "failed" THEN @ ELSE "ok"]
            /\ UNCHANGED calls
       ELSE Failed(calls)
    /\ UNCHANGED <<child, worker, held, disturbed, crashes>>

(***************************************************************************)
(* The end of a plugin, and of the daemon.                                 *)
(***************************************************************************)
Crash(p) ==
    /\ child[p] \in {"starting", "listening"} /\ crashes < MaxFaults
    /\ child' = [child EXCEPT ![p] = "dead"]
    /\ calls' = {c \in calls : c.p # p}
    /\ disturbed' = disturbed \cup {p}
    /\ crashes' = crashes + 1
    /\ UNCHANGED <<worker, held, txn>>

shutdown ==
    /\ worker.pc = "run" /\ txn.pc = "idle"
    /\ worker' = [worker EXCEPT !.pc = "stopped"]
    /\ child' = [p \in Plugin |-> IF child[p] = "none" THEN "none" ELSE "dead"]
    /\ calls' = {}
    /\ UNCHANGED <<held, txn, disturbed, crashes>>

(***************************************************************************)
(* The specification.                                                      *)
(***************************************************************************)
PluginInit ==
    /\ child = [p \in Plugin |-> "none"]
    /\ worker = [pc |-> "spawn", left |-> MaxRetry, known |-> {}]
    /\ held = [p \in Plugin |-> 0]
    /\ calls = {}
    /\ txn = [pc |-> "idle", n |-> 0, types |-> {}, before |-> held, try |-> 0, res |-> "none"]
    /\ disturbed = {}
    /\ crashes = 0

Timer == \E c \in calls : CallTimeout(c)

PluginNext ==
    \/ Spawn \/ connect_plugins \/ Ready \/ shutdown
    \/ \E p \in Plugin : Listen(p) \/ Crash(p)
    \/ \E types \in PluginRequests : Begin(types)
    \/ \E c \in calls : Send(c)
    \/ \E c \in calls, answer \in {"ok", "dependency", "error"} : Process(c, answer)
    \/ Timer \/ Answered

PluginSpec == PluginInit /\ [][PluginNext]_pluginVars /\ WF_pluginVars(Timer) /\ WF_pluginVars(Answered)

(***************************************************************************)
(* Properties.                                                             *)
(***************************************************************************)
Undisturbed(p) == child[p] = "listening" /\ p \notin disturbed

(* process_cmd(ApplyNetworkState): an apply that is reported to have worked  *)
(* names only types somebody handles, and every plugin it concerns whose     *)
(* requests were all answered runs the new configuration.                    *)
AppliedIsHeld ==
    txn.pc = "idle" /\ txn.res = "ok" =>
        /\ txn.types \subseteq Supported
        /\ \A p \in Concerned(txn.types) : Undisturbed(p) => held[p] = txn.n

(* rollback(): after a failed apply every such plugin is back at the         *)
(* configuration it had before, also when the rollback itself ends in the    *)
(* error of the type that nobody handles.                                    *)
RollbackReaches ==
    txn.pc = "idle" /\ txn.res = "failed" =>
        \A p \in Plugin : Undisturbed(p) => held[p] = txn.before[p]

Busy == txn.pc # "idle"

(* exec(): a command always gets its reply, whatever the plugins do.         *)
CommandEnds == Busy ~> ~Busy

===============================================================================
