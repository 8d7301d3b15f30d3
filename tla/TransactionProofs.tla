------------------------- MODULE TransactionProofs -------------------------
(***************************************************************************)
(* Theorems about the transactions of the daemon, for any set of clients   *)
(* and interfaces and any number of requests and link events.              *)
(***************************************************************************)
EXTENDS Transaction, FiniteSetTheorems, TLAPS

(* The PID is not set while its owner has not stored it or has cleared it.   *)
PidUnset ==
    \A a \in Locker : pc[a] \in {"store", "release"} => cur_locker_pid = None

LockInv == MutualExclusion /\ LockerPidSound /\ PidUnset

(* Until the monitor is started the boot task owns the lock and no message   *)
(* has reached the main loop; the task gives the lock away only afterwards.  *)
BootFirst ==
    /\ ~started => /\ lock_holder = Boot
                   /\ pc[Main] = "idle"
                   /\ managers_ipc = <<>>
    /\ pc[Boot] \in {"notified", "drop", "release"} => started

InApply == {a \in Actor : pc[a] \in Paused}

(* A transaction between its query and its save holds the saved state of all *)
(* it does not touch.  The boot task saves nothing.                          *)
Holding == {"pause", "apply", "verify", "save"}

Fresh(a) ==
    /\ tx[a].to_save \in [Iface -> Value]
    /\ \A i \in Iface \ DOMAIN tx[a].desired : tx[a].to_save[i] = saved[i]

SaveFresh ==
    /\ \A a \in Locker : pc[a] \in Holding => Fresh(a)
    /\ tx[Boot].op = "boot"

(* The inductive invariant.                                                  *)
IInv ==
    /\ TypeOK
    /\ LockInv
    /\ PauseBalanced
    /\ BootFirst
    /\ SaveFresh

------------------------------------------------------------------------------
(* Data.                                                                     *)

(* A function on some of the interfaces is a partial configuration.          *)
LEMMA PartialIntro ==
    ASSUME NEW S, S \subseteq Iface, NEW f \in [S -> Value]
    PROVE  f \in Partial
  BY DEF Partial

(* A partial configuration has values on some of the interfaces.             *)
LEMMA PartialElim ==
    ASSUME NEW d \in Partial
    PROVE  DOMAIN d \subseteq Iface /\ \A i \in DOMAIN d : d[i] \in Value
  BY DEF Partial

(* The empty configuration is a partial one.                                 *)
LEMMA NothingPartial == Nothing \in Partial
  BY Zenon DEF Partial, Nothing

(* Update, which models an apply of d on top of k, yields a configuration.   *)
LEMMA UpdateType ==
    ASSUME NEW k \in [Iface -> Value], NEW d \in Partial
    PROVE  Update(k, d) \in [Iface -> Value]
  BY PartialElim DEF Update

(* Part restricts a configuration, or a partial one, to some interfaces.     *)
LEMMA PartType ==
    ASSUME NEW d \in Partial, NEW S, S \subseteq DOMAIN d
    PROVE  Part(d, S) \in Partial
  <1>1. S \subseteq Iface /\ \A i \in S : d[i] \in Value  BY PartialElim
  <1>2. Part(d, S) \in [S -> Value]  BY <1>1 DEF Part
  <1> QED  BY <1>1, <1>2, PartialIntro

(* A configuration of all interfaces is a partial one too.                   *)
LEMMA FullPartial ==
    ASSUME NEW k \in [Iface -> Value]
    PROVE  k \in Partial /\ DOMAIN k = Iface
  BY PartialIntro

(* The locals of a new request have their type.                              *)
LEMMA NewTxType ==
    ASSUME NEW op \in Ops \cup {"boot", "event", "boot_batch"},
           NEW d \in Partial
    PROVE  NewTx(op, d) \in Tx
  BY NothingPartial DEF NewTx, Tx, APPLY_RETRY_MAX

(* The locals of an actor without a request have their type.                 *)
LEMMA NoTxType == NoTx \in Tx
  BY NewTxType, NothingPartial DEF NoTx

(* Desired: what the requests ask for is a partial configuration.            *)
LEMMA DesiredType ==
    ASSUME NEW op \in Ops, NEW d \in Desired(op)
    PROVE  d \in Partial
  <1>0. WifiPhy \subseteq Iface  BY TransactionAssumption
  <1>1. CASE op = "apply"
    <2>1. PICK i \in Iface, v \in Value : d = [j \in {i} |-> v]
      BY <1>1 DEF Desired
    <2> QED  BY <2>1, PartialIntro
  <1>2. CASE op = "wifi_off"
    <2>1. d = [j \in WifiPhy |-> None]  BY <1>2 DEF Desired
    <2>2. d \in [WifiPhy -> Value]  BY <2>1 DEF Value
    <2> QED  BY <1>0, <2>2, PartialIntro
  <1>3. CASE op = "wifi_on"  BY <1>3, NothingPartial DEF Desired
  <1>4. CASE op \notin {"apply", "wifi_off", "wifi_on"}
    <2>1. PICK i \in Iface : d = [j \in {i} |-> None]
      BY <1>4 DEF Desired
    <2>2. d \in [{i} -> Value]  BY <2>1 DEF Value
    <2> QED  BY <2>2, PartialIntro
  <1> QED  BY <1>1, <1>2, <1>3, <1>4

------------------------------------------------------------------------------
(* Types.  One lemma per group of actions.                                   *)

(* Setting an actor's locals keeps their type.                               *)
LEMMA TxSet ==
    ASSUME TypeOK, NEW a \in Actor, NEW t \in Tx,
           tx' = [tx EXCEPT ![a] = t]
    PROVE  tx' \in [Actor -> Tx]
  BY DEF TypeOK

(* Moving an actor keeps the type of pc.                                     *)
LEMMA GotoType ==
    ASSUME TypeOK, NEW a \in Actor, NEW l \in Label, Goto(a, l)
    PROVE  pc' \in [Actor -> Label]
  BY DEF TypeOK, Goto

(* Failing, which sets err and moves the actor, keeps the types.             *)
LEMMA FailType ==
    ASSUME TypeOK, NEW a \in Actor, NEW l \in Label, Fail(a, l)
    PROVE  tx' \in [Actor -> Tx] /\ pc' \in [Actor -> Label]
  <1>1. tx[a] \in Tx  BY DEF TypeOK
  <1>2. [tx[a] EXCEPT !.err = TRUE] \in Tx  BY <1>1, Zenon DEF Tx
  <1>3. tx' = [tx EXCEPT ![a] = [tx[a] EXCEPT !.err = TRUE]]  BY DEF Fail
  <1>4. Goto(a, l)  BY DEF Fail
  <1> QED  BY <1>2, <1>3, <1>4, TxSet, GotoType, Zenon

(* Answering, which clears the locals, keeps the types.                      *)
LEMMA AnswerType ==
    ASSUME TypeOK, NEW a \in Actor, Answer(a)
    PROVE  tx' \in [Actor -> Tx] /\ pc' \in [Actor -> Label]
  <1>1. "idle" \in Label  BY DEF Label
  <1> QED  BY <1>1, NoTxType, TxSet, GotoType, Zenon DEF Answer

(* A client that joins the queue of the lock.                                *)
LEMMA EnqueueType ==
    ASSUME TypeOK, NEW c \in Client, Enqueue(c)
    PROVE  lock_waiters' \in Seq(Client)
  BY DEF TypeOK, Enqueue

(* The lock and the requests of a client.                                    *)
LEMMA ClientTypes ==
    ASSUME TypeOK, NEW c \in Client,
           \/ Send(c) \/ check_up_interface(c) \/ Acquire(c) \/ StorePid(c)
           \/ BeginApply(c) \/ up_interface(c) \/ down_interface(c)
           \/ wifi_control(c) \/ wait_for_iface_action(c)
    PROVE  TypeOK'
  <1> USE DEF monitorVars, bootVars, lockVars, history, bounds
  <1>a. c \in Actor /\ c \in Locker  BY DEF Actor, Locker
  <1>l. {"store", "begin", "query", "drop", "wait", "check", "idle"}
            \subseteq Label
    BY DEF Label, Locked, Paused
  <1>t. tx[c] \in Tx /\ DOMAIN tx[c].desired \subseteq Iface
    BY <1>a, PartialElim DEF TypeOK, Tx
  <1>1. CASE Send(c)
    <2>1. PICK op \in Ops : \E d \in Desired(op) :
            /\ tx' = [tx EXCEPT ![c] = NewTx(op, d)]
            /\ IF op = "up" THEN Goto(c, "check") /\ UNCHANGED lock_waiters
               ELSE Goto(c, "wait") /\ Enqueue(c)
      BY <1>1, Zenon DEF Send
    <2>2. tx' \in [Actor -> Tx]  BY <2>1, <1>a, DesiredType, NewTxType, TxSet, Zenon
    <2>3. pc' \in [Actor -> Label]  BY <2>1, <1>a, <1>l, GotoType
    <2>4. lock_waiters' \in Seq(Client)  BY <2>1, EnqueueType DEF TypeOK
    <2>5. requests' \in 0..MaxRequests
      <3>1. requests < MaxRequests /\ requests' = requests + 1
        BY <1>1 DEF Send
      <3>2. requests \in 0..MaxRequests  BY DEF TypeOK
      <3> QED  BY <3>1, <3>2, TransactionAssumption
    <2> QED  BY <1>1, <2>2, <2>3, <2>4, <2>5 DEF Send, TypeOK
  <1>2. CASE check_up_interface(c)
    <2>1. tx' \in [Actor -> Tx] /\ pc' \in [Actor -> Label]
      BY <1>2, <1>a, <1>l, AnswerType, GotoType DEF check_up_interface, TypeOK
    <2>2. lock_waiters' \in Seq(Client)
      BY <1>2, EnqueueType DEF check_up_interface, TypeOK
    <2> QED  BY <1>2, <2>1, <2>2 DEF check_up_interface, TypeOK
  <1>3. CASE Acquire(c)
    <2>1. entry' \in Partial  BY <1>3, FullPartial DEF Acquire, TypeOK
    <2>2. lock_waiters' \in Seq(Client)  BY <1>3 DEF Acquire, TypeOK
    <2>3. pc' \in [Actor -> Label]  BY <1>3, <1>a, <1>l, GotoType DEF Acquire
    <2> QED  BY <1>3, <1>a, <2>1, <2>2, <2>3 DEF Acquire, TypeOK
  <1>4. CASE StorePid(c)
    <2>1. pc' \in [Actor -> Label]  BY <1>4, <1>a, <1>l, GotoType DEF StorePid
    <2> QED  BY <1>4, <1>a, <2>1 DEF StorePid, TypeOK
  <1>5. CASE BeginApply(c)
    <2>1. pc' \in [Actor -> Label]  BY <1>5, <1>a, <1>l, GotoType DEF BeginApply
    <2> QED  BY <1>5, <2>1 DEF BeginApply, Begin, TypeOK
  <1>6. CASE up_interface(c)
    <2>1. CASE Fail(c, "drop") /\ UNCHANGED explicitly_down
      <3>1. tx' \in [Actor -> Tx] /\ pc' \in [Actor -> Label]
        BY <2>1, <1>a, <1>l, FailType
      <3> QED  BY <1>6, <2>1, <3>1 DEF up_interface, Begin, TypeOK
    <2>2. CASE /\ explicitly_down' = explicitly_down \ DOMAIN tx[c].desired
               /\ tx' = [tx EXCEPT ![c].desired =
                           Part(saved, DOMAIN tx[c].desired)]
               /\ Goto(c, "query")
      <3>1. Part(saved, DOMAIN tx[c].desired) \in Partial
        BY <1>t, FullPartial, PartType DEF TypeOK
      <3>2. [tx[c] EXCEPT !.desired = Part(saved, DOMAIN tx[c].desired)] \in Tx
        BY <1>t, <3>1 DEF Tx
      <3>3. tx' \in [Actor -> Tx]
        <4>1. tx' = [tx EXCEPT ![c] =
                  [tx[c] EXCEPT !.desired = Part(saved, DOMAIN tx[c].desired)]]
          BY <2>2
        <4> QED  BY <4>1, <1>a, <3>2, TxSet, Zenon
      <3>4. pc' \in [Actor -> Label]  BY <2>2, <1>a, <1>l, GotoType
      <3>5. explicitly_down' \subseteq Iface  BY <2>2 DEF TypeOK
      <3> QED  BY <1>6, <3>3, <3>4, <3>5 DEF up_interface, Begin, TypeOK
    <2> QED  BY <1>6, <2>1, <2>2 DEF up_interface
  <1>7. CASE down_interface(c)
    <2>1. tx' \in [Actor -> Tx] /\ pc' \in [Actor -> Label]
      BY <1>7, <1>a, <1>l, FailType, GotoType DEF down_interface, TypeOK
    <2>2. explicitly_down' \subseteq Iface
      BY <1>7, <1>t DEF down_interface, TypeOK
    <2> QED  BY <1>7, <2>1, <2>2 DEF down_interface, Begin, TypeOK
  <1>8. CASE wifi_control(c)
    <2>1. tx' \in [Actor -> Tx] /\ pc' \in [Actor -> Label]
      BY <1>8, <1>a, <1>l, FailType, GotoType DEF wifi_control, TypeOK
    <2> QED  BY <1>8, <2>1 DEF wifi_control, Begin, TypeOK
  <1>9. CASE wait_for_iface_action(c)
    <2>1. tx' \in [Actor -> Tx] /\ pc' \in [Actor -> Label]
      BY <1>9, <1>a, AnswerType DEF wait_for_iface_action
    <2> QED  BY <1>9, <2>1 DEF wait_for_iface_action, TypeOK
  <1> QED  BY <1>1, <1>2, <1>3, <1>4, <1>5, <1>6, <1>7, <1>8, <1>9

(* A write to the kernel, which is all an apply or a rollback does to it.    *)
LEMMA WriteType ==
    ASSUME TypeOK, NEW a \in Actor, NEW d \in Partial, Write(a, d)
    PROVE  /\ kernel' \in [Iface -> Value] /\ entry' \in Partial
           /\ raced' \subseteq Iface
  <1>1. DOMAIN d \subseteq Iface  BY PartialElim
  <1>2. kernel' \in [Iface -> Value]  BY UpdateType DEF Write, TypeOK
  <1> QED  BY <1>1, <1>2 DEF Write, TypeOK

(* A failed attempt counts up to APPLY_RETRY_MAX and no further.             *)
LEMMA AttemptFailsType ==
    ASSUME TypeOK, NEW a \in Actor, AttemptFails(a)
    PROVE  tx' \in [Actor -> Tx] /\ pc' \in [Actor -> Label]
  <1>t. tx[a] \in Tx  BY DEF TypeOK
  <1>l. {"apply", "resume", "rollback"} \subseteq Label
    BY DEF Label, Locked, Paused
  <1>1. CASE /\ tx[a].attempt < APPLY_RETRY_MAX
             /\ tx' = [tx EXCEPT ![a].attempt = @ + 1]
             /\ Goto(a, "apply")
    <2>1. [tx[a] EXCEPT !.attempt = @ + 1] \in Tx
      BY <1>t, <1>1 DEF Tx, APPLY_RETRY_MAX
    <2>2. tx' = [tx EXCEPT ![a] = [tx[a] EXCEPT !.attempt = @ + 1]]  BY <1>1
    <2> QED  BY <1>1, <1>l, <2>1, <2>2, TxSet, GotoType, Zenon
  <1>2. CASE /\ tx' = [tx EXCEPT ![a].err = TRUE, ![a].attempt = 1]
             /\ Goto(a, IF a = Main THEN "resume" ELSE "rollback")
    <2>0. 1 \in 1..APPLY_RETRY_MAX  BY DEF APPLY_RETRY_MAX
    <2>1. [tx[a] EXCEPT !.err = TRUE, !.attempt = 1] \in Tx
      BY <1>t, <2>0, Zenon DEF Tx
    <2>2. tx' = [tx EXCEPT ![a] = [tx[a] EXCEPT !.err = TRUE, !.attempt = 1]]
      BY <1>2, Zenon DEF TypeOK
    <2> QED  BY <1>2, <1>l, <2>1, <2>2, TxSet, GotoType, Zenon
  <1> QED  BY <1>1, <1>2, Zenon DEF AttemptFails

(* The steps of an apply.  ResumeMonitor needs that the monitor is paused,   *)
(* and Save that the state to save was computed.                             *)
LEMMA ApplyTypes ==
    ASSUME TypeOK, NEW a \in Actor, pc[a] \in Paused => pauses > 0,
           pc[a] = "save" => tx[a].to_save \in [Iface -> Value],
           OwnerStep(a)
    PROVE  TypeOK'
  <1> USE DEF Within, monitorVars, bootVars, lockVars, history, bounds
  <1>t. /\ tx[a] \in Tx
        /\ tx[a].desired \in Partial /\ tx[a].revert \in Partial
        /\ tx[a].to_save \in Partial
    BY DEF TypeOK, Tx
  <1>d. DOMAIN tx[a].desired \subseteq Iface  BY <1>t, PartialElim
  <1>l. {"query", "pause", "apply", "verify", "rollback", "save", "setup",
         "resume", "finish", "drop", "release", "await", "idle", "done",
         "monitors"} \subseteq Label
    BY DEF Label, Locked, Paused
  <1>1. CASE Query(a)
    <2>1. CASE Fail(a, "finish")
      <3>1. tx' \in [Actor -> Tx] /\ pc' \in [Actor -> Label]
        BY <2>1, <1>l, FailType
      <3> QED  BY <1>1, <3>1 DEF Query, TypeOK
    <2>2. CASE /\ tx' = [tx EXCEPT
                      ![a].revert = Part(kernel, DOMAIN tx[a].desired),
                      ![a].to_save = Update(saved, tx[a].desired)]
               /\ Goto(a, "pause")
      <3> DEFINE rv == Part(kernel, DOMAIN tx[a].desired)
                 sv == Update(saved, tx[a].desired)
      <3>1. rv \in Partial  BY <1>d, FullPartial, PartType DEF TypeOK
      <3>2. sv \in Partial  BY <1>t, UpdateType, FullPartial, Zenon DEF TypeOK
      <3>3. tx' = [tx EXCEPT ![a] =
                     [tx[a] EXCEPT !.revert = rv, !.to_save = sv]]
        BY <2>2, Zenon DEF TypeOK
      <3> HIDE DEF rv, sv
      <3>4. [tx[a] EXCEPT !.revert = rv, !.to_save = sv] \in Tx
        BY <1>t, <3>1, <3>2, Zenon DEF Tx
      <3>5. tx' \in [Actor -> Tx]  BY <3>3, <3>4, TxSet, Zenon
      <3>6. pc' \in [Actor -> Label]  BY <2>2, <1>l, GotoType
      <3> QED  BY <1>1, <3>5, <3>6 DEF Query, TypeOK
    <2> QED  BY <1>1, <2>1, <2>2 DEF Query
  <1>2. CASE PauseMonitor(a)
    <2>1. pc' \in [Actor -> Label]  BY <1>2, <1>l, GotoType DEF PauseMonitor
    <2> QED  BY <1>2, <2>1 DEF PauseMonitor, TypeOK
  <1>3. CASE apply_merged_state_once(a)
    <2>1. CASE /\ Write(a, tx[a].desired)
               /\ Goto(a, IF no_verify(tx[a]) THEN Applied(a) ELSE "verify")
               /\ UNCHANGED tx
      <3>1. pc' \in [Actor -> Label]  BY <2>1, <1>l, GotoType DEF Applied
      <3>2. /\ kernel' \in [Iface -> Value] /\ entry' \in Partial
            /\ raced' \subseteq Iface
        BY <2>1, <1>t, WriteType
      <3> QED  BY <1>3, <2>1, <3>1, <3>2
               DEF apply_merged_state_once, TypeOK
    <2>2. CASE /\ \E S \in SUBSET DOMAIN tx[a].desired :
                    Write(a, Part(tx[a].desired, S))
               /\ AttemptFails(a)
      <3>1. PICK S \in SUBSET DOMAIN tx[a].desired :
                    Write(a, Part(tx[a].desired, S))
        BY <2>2
      <3>2. Part(tx[a].desired, S) \in Partial  BY <1>t, PartType
      <3>3. /\ kernel' \in [Iface -> Value] /\ entry' \in Partial
            /\ raced' \subseteq Iface
        BY <3>1, <3>2, WriteType
      <3>4. tx' \in [Actor -> Tx] /\ pc' \in [Actor -> Label]
        BY <2>2, AttemptFailsType
      <3> QED  BY <1>3, <3>3, <3>4 DEF apply_merged_state_once, TypeOK
    <2> QED  BY <1>3, <2>1, <2>2 DEF apply_merged_state_once
  <1>4. CASE verify(a)
    <2>1. tx' \in [Actor -> Tx] /\ pc' \in [Actor -> Label]
      BY <1>4, <1>l, GotoType, AttemptFailsType DEF verify, Applied, TypeOK
    <2> QED  BY <1>4, <2>1 DEF verify, TypeOK
  <1>5. CASE rollback(a)
    <2>1. pc' \in [Actor -> Label]  BY <1>5, <1>l, GotoType DEF rollback
    <2>2. CASE /\ Write(a, tx[a].revert)
               /\ tx' = [tx EXCEPT ![a].rolled_back = TRUE]
      <3>1. [tx[a] EXCEPT !.rolled_back = TRUE] \in Tx  BY <1>t, Zenon DEF Tx
      <3>2. tx' = [tx EXCEPT ![a] = [tx[a] EXCEPT !.rolled_back = TRUE]]
        BY <2>2
      <3>3. tx' \in [Actor -> Tx]  BY <3>1, <3>2, TxSet, Zenon
      <3>4. /\ kernel' \in [Iface -> Value] /\ entry' \in Partial
            /\ raced' \subseteq Iface
        BY <2>2, <1>t, WriteType
      <3> QED  BY <1>5, <2>1, <3>3, <3>4 DEF rollback, TypeOK
    <2>3. CASE /\ \E S \in SUBSET DOMAIN tx[a].revert :
                    Write(a, Part(tx[a].revert, S))
               /\ UNCHANGED tx
      <3>1. PICK S \in SUBSET DOMAIN tx[a].revert :
                    Write(a, Part(tx[a].revert, S))
        BY <2>3
      <3>2. Part(tx[a].revert, S) \in Partial  BY <1>t, PartType
      <3>3. /\ kernel' \in [Iface -> Value] /\ entry' \in Partial
            /\ raced' \subseteq Iface
        BY <3>1, <3>2, WriteType
      <3> QED  BY <1>5, <2>1, <2>3, <3>3 DEF rollback, TypeOK
    <2> QED  BY <1>5, <2>2, <2>3 DEF rollback
  <1>6. CASE Save(a)
    <2>1. saved' \in [Iface -> Value]  BY <1>6 DEF Save, At, TypeOK
    <2>2. [tx[a] EXCEPT !.to_save = Nothing] \in Tx
      BY <1>t, NothingPartial DEF Tx
    <2>3. tx' = [tx EXCEPT ![a] = [tx[a] EXCEPT !.to_save = Nothing]]
      BY <1>6 DEF Save
    <2>4. tx' \in [Actor -> Tx]  BY <2>2, <2>3, TxSet, Zenon
    <2>5. pc' \in [Actor -> Label]  BY <1>6, <1>l, GotoType DEF Save
    <2> QED  BY <1>6, <2>1, <2>4, <2>5 DEF Save, TypeOK
  <1>7. CASE setup_monitor(a)
    <2>1. tx' \in [Actor -> Tx] /\ pc' \in [Actor -> Label]
      BY <1>7, <1>l, GotoType, FailType DEF setup_monitor, TypeOK
    <2> QED  BY <1>7, <2>1 DEF setup_monitor, TypeOK
  <1>8. CASE ResumeMonitor(a)
    <2>1. tx' \in [Actor -> Tx] /\ pc' \in [Actor -> Label]
      BY <1>8, <1>l, GotoType, FailType DEF ResumeMonitor, TypeOK
    <2>2. pauses' \in Nat
      <3>1. pauses' = pauses - 1 /\ pc[a] = "resume"
        BY <1>8 DEF ResumeMonitor, At
      <3>2. pauses > 0 /\ pauses \in Nat  BY <3>1 DEF Paused, TypeOK
      <3> QED  BY <3>1, <3>2
    <2> QED  BY <1>8, <2>1, <2>2 DEF ResumeMonitor, TypeOK
  <1>9. CASE Finish(a)
    <2>1. PICK failed \in {TRUE, tx[a].err} :
            /\ tx' = [tx EXCEPT ![a] = [NewTx(tx[a].op, Nothing)
                                        EXCEPT !.err = failed]]
            /\ explicitly_down' =
                 IF failed /\ tx[a].op = "down"
                 THEN explicitly_down \ DOMAIN tx[a].desired
                 ELSE explicitly_down
      BY <1>9, Zenon DEF Finish
    <2>2. failed \in BOOLEAN  BY <1>t, Zenon DEF Tx
    <2>3. NewTx(tx[a].op, Nothing) \in Tx
      BY <1>t, NewTxType, NothingPartial DEF Tx
    <2>4. [NewTx(tx[a].op, Nothing) EXCEPT !.err = failed] \in Tx
      BY <2>2, <2>3 DEF Tx
    <2>5. tx' \in [Actor -> Tx]  BY <2>1, <2>4, TxSet, Zenon
    <2>6. pc' \in [Actor -> Label]  BY <1>9, <1>l, GotoType DEF Finish
    <2>7. explicitly_down' \subseteq Iface  BY <2>1 DEF TypeOK
    <2> QED  BY <1>9, <2>5, <2>6, <2>7 DEF Finish, TypeOK
  <1>10. CASE ClearPid(a)
    <2>1. pc' \in [Actor -> Label]  BY <1>10, <1>l, GotoType DEF ClearPid
    <2> QED  BY <1>10, <2>1, NothingPartial DEF ClearPid, TypeOK
  <1>11. CASE Release(a)
    <2>1. tx' \in [Actor -> Tx] /\ pc' \in [Actor -> Label]
      BY <1>11, <1>l, GotoType, AnswerType DEF Release, TypeOK
    <2> QED  BY <1>11, <2>1, Zenon DEF Release, TypeOK
  <1> QED  BY <1>1, <1>2, <1>3, <1>4, <1>5, <1>6, <1>7, <1>8, <1>9, <1>10,
              <1>11 DEF OwnerStep, ApplyStep

(* Starting the monitor sends a message of its type.                         *)
LEMMA StartType ==
    ASSUME TypeOK, Start
    PROVE  started' \in BOOLEAN /\ managers_ipc' \in Seq(Message)
  <1>1. CASE started  BY <1>1 DEF Start, TypeOK
  <1>2. CASE ~started
    <2>1. PICK ups \in SUBSET Iface, downs \in SUBSET Iface :
            managers_ipc' = Append(managers_ipc,
                   [boot |-> TRUE, ups |-> ups, downs |-> downs])
      BY <1>2, Zenon DEF Start
    <2>2. [boot |-> TRUE, ups |-> ups, downs |-> downs] \in Message
      BY DEF Message
    <2> QED  BY <2>1, <2>2 DEF Start, TypeOK
  <1> QED  BY <1>1, <1>2

(* The boot task.                                                            *)
LEMMA BootTypes ==
    ASSUME TypeOK,
           \/ boot_apply_inner \/ setup_saved_state_monitors \/ StartMonitor
           \/ BootFailed \/ BootNotified
    PROVE  TypeOK'
  <1> USE DEF BootStep, bootVars, lockVars, history, bounds
  <1>a. Boot \in Actor  BY DEF Actor
  <1>l. {"bootfail", "monitors", "query", "start", "notified", "drop"}
            \subseteq Label
    BY DEF Label, Locked, Paused
  <1>1. CASE boot_apply_inner
    <2>1. Configured(saved, Virtual) \subseteq Iface
      BY TransactionAssumption DEF Configured
    <2>2. Part(saved, Configured(saved, Virtual)) \in Partial
      BY <2>1, FullPartial, PartType DEF TypeOK
    <2>3. NewTx("boot", Part(saved, Configured(saved, Virtual))) \in Tx
      BY <2>2, NewTxType
    <2>4. tx' \in [Actor -> Tx]
      BY <1>1, <1>a, <2>3, TxSet DEF boot_apply_inner, TypeOK
    <2>5. pc' \in [Actor -> Label]
      BY <1>1, <1>a, <1>l, GotoType DEF boot_apply_inner
    <2> QED  BY <1>1, <2>4, <2>5 DEF boot_apply_inner, TypeOK
  <1>2. CASE setup_saved_state_monitors
    <2>1. pc' \in [Actor -> Label]
      BY <1>2, <1>a, <1>l, GotoType DEF setup_saved_state_monitors
    <2> QED  BY <1>2, <2>1 DEF setup_saved_state_monitors, TypeOK
  <1>3. CASE StartMonitor
    <2>1. pc' \in [Actor -> Label]
      BY <1>3, <1>a, <1>l, GotoType DEF StartMonitor
    <2>2. started' \in BOOLEAN /\ managers_ipc' \in Seq(Message)
      BY <1>3, StartType DEF StartMonitor
    <2> QED  BY <1>3, <2>1, <2>2 DEF StartMonitor, TypeOK
  <1>4. CASE BootFailed
    <2>1. pc' \in [Actor -> Label]
      BY <1>4, <1>a, <1>l, GotoType DEF BootFailed
    <2>2. started' \in BOOLEAN /\ managers_ipc' \in Seq(Message)
      BY <1>4, StartType DEF BootFailed
    <2> QED  BY <1>4, <2>1, <2>2 DEF BootFailed, TypeOK
  <1>5. CASE BootNotified
    <2>1. pc' \in [Actor -> Label]
      BY <1>5, <1>a, <1>l, GotoType DEF BootNotified
    <2> QED  BY <1>5, <2>1, Zenon DEF BootNotified, TypeOK
  <1> QED  BY <1>1, <1>2, <1>3, <1>4, <1>5

(* The monitor and the main loop.                                            *)
LEMMA MainTypes ==
    ASSUME TypeOK,
           \/ \E i \in Iface : LinkEvent(i)
           \/ handle_events \/ handle_manager_cmd
    PROVE  TypeOK'
  <1> USE DEF monitorVars, bootVars, lockVars, history, bounds
  <1>a. Main \in Actor  BY DEF Actor
  <1>l. {"done", "pause"} \subseteq Label  BY DEF Label, Locked, Paused
  <1>1. CASE \E i \in Iface : LinkEvent(i)
    <2>1. PICK i \in Iface : LinkEvent(i)  BY <1>1
    <2>2. PICK up \in BOOLEAN :
            managers_ipc' = Append(managers_ipc,
              [boot |-> FALSE, ups |-> IF up THEN {i} ELSE {},
               downs |-> IF up THEN {} ELSE {i}])
      BY <2>1, Zenon DEF LinkEvent
    <2>3. [boot |-> FALSE, ups |-> IF up THEN {i} ELSE {},
           downs |-> IF up THEN {} ELSE {i}] \in Message
      BY DEF Message
    <2>4. managers_ipc' \in Seq(Message)  BY <2>2, <2>3 DEF TypeOK
    <2>5. events' \in 0..MaxEvents
      <3>1. events < MaxEvents /\ events' = events + 1  BY <2>1 DEF LinkEvent
      <3>2. events \in 0..MaxEvents  BY DEF TypeOK
      <3> QED  BY <3>1, <3>2, TransactionAssumption
    <2> QED  BY <2>1, <2>4, <2>5 DEF LinkEvent, TypeOK
  <1>2. CASE handle_events
    <2> DEFINE m == Head(managers_ipc)
               op == IF m.boot THEN "boot_batch" ELSE "event"
               des(handled) == [i \in handled |->
                                  IF i \in m.ups THEN saved[i] ELSE None]
    <2>1. m \in Message /\ managers_ipc' \in Seq(Message)
      BY <1>2 DEF handle_events, TypeOK
    <2>2. m.ups \subseteq Iface /\ m.downs \subseteq Iface
      BY <2>1 DEF Message
    <2>3. PICK handled \in SUBSET Configured(saved, m.ups \cup m.downs) :
            \/ /\ tx' = [tx EXCEPT ![Main] = NewTx(op, des(handled))]
               /\ Goto(Main, IF handled = {} THEN "done" ELSE "pause")
            \/ /\ tx' = [tx EXCEPT ![Main] =
                            [NewTx(op, des(handled)) EXCEPT !.err = TRUE]]
               /\ Goto(Main, "done")
      BY <1>2, Zenon DEF handle_events
    <2>4. handled \subseteq Iface  BY <2>2 DEF Configured
    <2>5. des(handled) \in [handled -> Value]  BY <2>4 DEF TypeOK, Value
    <2>6. des(handled) \in Partial  BY <2>4, <2>5, PartialIntro
    <2>7. op \in {"event", "boot_batch"}  OBVIOUS
    <2> HIDE DEF op, des
    <2>8. NewTx(op, des(handled)) \in Tx  BY <2>6, <2>7, NewTxType
    <2>9. [NewTx(op, des(handled)) EXCEPT !.err = TRUE] \in Tx
      BY <2>8, Zenon DEF Tx
    <2>10. tx' \in [Actor -> Tx]  BY <2>3, <1>a, <2>8, <2>9, TxSet, Zenon
    <2>11. pc' \in [Actor -> Label]  BY <2>3, <1>a, <1>l, GotoType
    <2> QED  BY <1>2, <2>1, <2>10, <2>11 DEF handle_events, TypeOK
  <1>3. CASE handle_manager_cmd
    <2>1. tx' \in [Actor -> Tx] /\ pc' \in [Actor -> Label]
      BY <1>3, <1>a, AnswerType, Zenon DEF handle_manager_cmd
    <2> QED  BY <1>3, <2>1, Zenon DEF handle_manager_cmd, TypeOK
  <1> QED  BY <1>1, <1>2, <1>3

------------------------------------------------------------------------------
(* Control.  Apart from Acquire, StorePid, ClearPid and Release, a step      *)
(* moves one actor and does not touch the lock; a lock owner stays inside    *)
(* its transaction, and another actor outside of one.                        *)

Moves(a, l) == pc' = [pc EXCEPT ![a] = l]

StaysPut(a, l) ==
    /\ Moves(a, l)
    /\ a = Main \/ /\ pc[a] \in Locked <=> l \in Locked
                   /\ {pc[a], l} \cap {"store", "release"} = {}
    /\ UNCHANGED <<lock_holder, cur_locker_pid>>

(* The actors, and those of them that take the lock.                         *)
LEMMA Actors ==
    /\ Main \notin Locker /\ Boot \in Locker /\ None \notin Locker
    /\ Actor = Locker \cup {Main} /\ Client \subseteq Locker
    /\ Boot \notin Client
  BY TransactionAssumption DEF Actor, Locker

(* Such a step keeps the lock invariants.                                    *)
LEMMA StaysPutKeepsLock ==
    ASSUME TypeOK, LockInv, NEW a \in Actor, NEW l \in Label, StaysPut(a, l)
    PROVE  LockInv'
  <1>1. pc \in [Actor -> Label]  BY DEF TypeOK
  <1>2. \A b \in Locker : /\ pc'[b] \in Locked <=> pc[b] \in Locked
                          /\ \A x \in {"store", "release"} :
                               pc'[b] = x <=> pc[b] = x
    BY <1>1, Actors, Zenon DEF StaysPut, Moves
  <1>3. MutualExclusion'  BY <1>2 DEF LockInv, MutualExclusion, StaysPut
  <1>4. LockerPidSound'  BY <1>2 DEF LockInv, LockerPidSound, StaysPut
  <1>5. PidUnset'  BY <1>2 DEF LockInv, PidUnset, StaysPut
  <1> QED  BY <1>3, <1>4, <1>5 DEF LockInv

(* The steps on the lock itself.                                             *)
LEMMA LockSteps ==
    ASSUME TypeOK, LockInv, NEW a \in Locker,
           \/ a \in Client /\ (Acquire(a) \/ StorePid(a))
           \/ ClearPid(a) \/ Release(a)
    PROVE  LockInv'
  <1> USE DEF LockInv
  <1>a. a \in Actor /\ a # None  BY Actors
  <1>1. pc \in [Actor -> Label]  BY DEF TypeOK
  <1>2. Locker \subseteq Actor  BY Actors
  <1>3. \A b, d \in Locker : pc[b] \in Locked /\ pc[d] \in Locked => b = d
    BY DEF MutualExclusion
  <1>l. /\ {"store", "begin", "drop", "release"} \subseteq Locked
        /\ {"wait", "await", "idle"} \cap Locked = {}
    BY DEF Locked, Paused
  <1>4. CASE Acquire(a)
    <2>1. /\ lock_holder = None /\ lock_holder' = a /\ pc[a] = "wait"
          /\ pc' = [pc EXCEPT ![a] = "store"]
          /\ cur_locker_pid' = cur_locker_pid
      BY <1>4 DEF Acquire, At, Goto
    <2>2. cur_locker_pid = None  BY <2>1, Actors DEF LockerPidSound, TypeOK
    <2>3. \A b \in Locker : pc[b] \notin Locked
      BY <2>1, Actors DEF MutualExclusion
    <2>4. \A b \in Locker : pc'[b] = IF b = a THEN "store" ELSE pc[b]
      BY <2>1, <1>1, <1>2
    <2>5. MutualExclusion'  BY <2>1, <2>3, <2>4, <1>l DEF MutualExclusion
    <2>6. LockerPidSound'  BY <2>1, <2>2, <2>4 DEF LockerPidSound
    <2>7. PidUnset'  BY <2>1, <2>2 DEF PidUnset
    <2> QED  BY <2>5, <2>6, <2>7
  <1>5. CASE StorePid(a)
    <2>1. /\ pc[a] = "store" /\ cur_locker_pid' = a
          /\ pc' = [pc EXCEPT ![a] = "begin"] /\ lock_holder' = lock_holder
      BY <1>5 DEF StorePid, At, Goto
    <2>2. lock_holder = a  BY <2>1, <1>l DEF MutualExclusion
    <2>3. \A b \in Locker : pc'[b] = IF b = a THEN "begin" ELSE pc[b]
      BY <2>1, <1>1, <1>2
    <2>4. \A b \in Locker : b # a => pc[b] \notin Locked
      BY <2>2 DEF MutualExclusion
    <2>5. MutualExclusion'
      BY <2>1, <2>2, <2>3, <2>4, <1>l DEF MutualExclusion
    <2>6. LockerPidSound'  BY <2>1, <2>2 DEF LockerPidSound
    <2>7. PidUnset'  BY <2>3, <2>4, <1>l DEF PidUnset
    <2> QED  BY <2>5, <2>6, <2>7
  <1>6. CASE ClearPid(a)
    <2>1. /\ pc[a] = "drop" /\ cur_locker_pid' = None
          /\ pc' = [pc EXCEPT ![a] = "release"] /\ lock_holder' = lock_holder
      BY <1>6 DEF ClearPid, At, Goto
    <2>2. lock_holder = a  BY <2>1, <1>l DEF MutualExclusion
    <2>3. \A b \in Locker : pc'[b] = IF b = a THEN "release" ELSE pc[b]
      BY <2>1, <1>1, <1>2
    <2>4. \A b \in Locker : b # a => pc[b] \notin Locked
      BY <2>2 DEF MutualExclusion
    <2>5. MutualExclusion'
      BY <2>1, <2>2, <2>3, <2>4, <1>l DEF MutualExclusion
    <2>6. LockerPidSound'  BY <2>1, <2>2, <2>3 DEF LockerPidSound
    <2>7. PidUnset'  BY <2>1 DEF PidUnset
    <2> QED  BY <2>5, <2>6, <2>7
  <1>7. CASE Release(a)
    <2>1. /\ pc[a] = "release" /\ lock_holder' = None
          /\ cur_locker_pid' = cur_locker_pid
          /\ \E l \in {"await", "idle"} : pc' = [pc EXCEPT ![a] = l]
      BY <1>7 DEF Release, At, Goto, Answer
    <2>2. lock_holder = a /\ cur_locker_pid = None
      BY <2>1, <1>l DEF MutualExclusion, PidUnset
    <2>3. \A b \in Locker : pc'[b] \notin Locked
      BY <2>1, <2>2, <1>1, <1>2, <1>l DEF MutualExclusion
    <2>5. MutualExclusion'  BY <2>1, <2>3, Actors DEF MutualExclusion
    <2>6. LockerPidSound'  BY <2>1, <2>2, Actors DEF LockerPidSound
    <2>7. PidUnset'  BY <2>1, <2>2 DEF PidUnset
    <2> QED  BY <2>5, <2>6, <2>7
  <1> QED  BY <1>4, <1>5, <1>6, <1>7

(* What a step does to the pause count.                                      *)
PauseEffect(a, l) ==
    \/ (pc[a] \in Paused <=> l \in Paused) /\ pauses' = pauses
    \/ pc[a] \notin Paused /\ l \in Paused /\ pauses' = pauses + 1
    \/ pc[a] \in Paused /\ l \notin Paused /\ pauses' = pauses - 1

(* The applies in progress can be counted.                                   *)
LEMMA InApplyFinite ==
    IsFiniteSet(InApply) /\ Cardinality(InApply) \in Nat
  <1>1. IsFiniteSet(Client \cup {Boot})
    BY TransactionAssumption, FS_AddElement
  <1>2. IsFiniteSet((Client \cup {Boot}) \cup {Main})
    BY <1>1, FS_AddElement
  <1>3. InApply \subseteq (Client \cup {Boot}) \cup {Main}
    BY DEF InApply, Actor
  <1>4. IsFiniteSet(InApply)  BY <1>2, <1>3, FS_Subset
  <1> QED  BY <1>4, FS_CardinalityType

(* An apply in progress keeps the count above zero.                          *)
LEMMA PauseCount ==
    ASSUME PauseBalanced, NEW a \in Actor, pc[a] \in Paused
    PROVE  pauses > 0
  <1>1. a \in InApply  BY DEF InApply
  <1>2. Cardinality(InApply) # 0  BY <1>1, InApplyFinite, FS_EmptySet
  <1> QED  BY <1>2, InApplyFinite DEF PauseBalanced, InApply

(* The count follows the actors that are between a pause and a resume.       *)
LEMMA PauseStep ==
    ASSUME TypeOK, PauseBalanced, NEW a \in Actor, NEW l \in Label,
           Moves(a, l), PauseEffect(a, l)
    PROVE  PauseBalanced'
  <1>0. pauses = Cardinality(InApply)  BY DEF PauseBalanced, InApply
  <1>g. SUFFICES pauses' = Cardinality(InApply')
    BY DEF PauseBalanced, InApply
  <1>p. \A b \in Actor : pc'[b] = IF b = a THEN l ELSE pc[b]
    BY DEF Moves, TypeOK
  <1>1. CASE (pc[a] \in Paused <=> l \in Paused) /\ pauses' = pauses
    <2>1. InApply' = InApply  BY <1>1, <1>p DEF InApply
    <2> QED  BY <1>0, <1>1, <2>1
  <1>2. CASE pc[a] \notin Paused /\ l \in Paused /\ pauses' = pauses + 1
    <2>1. InApply' = InApply \cup {a} /\ a \notin InApply
      BY <1>2, <1>p DEF InApply
    <2>2. Cardinality(InApply \cup {a}) = Cardinality(InApply) + 1
      BY <2>1, InApplyFinite, FS_AddElement, Zenon
    <2> QED  BY <1>0, <1>2, <2>1, <2>2
  <1>3. CASE pc[a] \in Paused /\ l \notin Paused /\ pauses' = pauses - 1
    <2>1. InApply' = InApply \ {a} /\ a \in InApply
      BY <1>3, <1>p DEF InApply
    <2>2. Cardinality(InApply \ {a}) = Cardinality(InApply) - 1
      BY <2>1, InApplyFinite, FS_RemoveElement, Zenon
    <2> QED  BY <1>0, <1>3, <2>1, <2>2
  <1> QED  BY <1>1, <1>2, <1>3 DEF PauseEffect

(* What the state to save depends on changes in one actor only.              *)
LEMMA FreshStep ==
    ASSUME TypeOK, SaveFresh, NEW a \in Actor, NEW l \in Label, Moves(a, l),
           \A b \in Actor \ {a} : tx'[b] = tx[b],
           saved' = saved,
           a \in Locker /\ l \in Holding => Fresh(a)',
           a = Boot => tx'[Boot].op = "boot"
    PROVE  SaveFresh'
  <1>1. \A b \in Locker \ {a} : pc'[b] = pc[b] /\ tx'[b] = tx[b]
    BY Actors DEF Moves, TypeOK
  <1>2. ASSUME NEW b \in Locker \ {a}, pc'[b] \in Holding PROVE Fresh(b)'
    <2>1. Fresh(b)  BY <1>1, <1>2, Zenon DEF SaveFresh
    <2>2. tx'[b] = tx[b]  BY <1>1
    <2> QED  BY <2>1, <2>2 DEF Fresh
  <1>3. a \in Locker /\ pc'[a] \in Holding => Fresh(a)'
    BY DEF Moves, TypeOK
  <1>4. tx'[Boot].op = "boot"  BY <1>1, Actors DEF SaveFresh
  <1> QED  BY <1>2, <1>3, <1>4 DEF SaveFresh

------------------------------------------------------------------------------
(* The shape of every step.                                                  *)

(* A step that does not start the monitor, and does not bring the boot task  *)
(* past its start.                                                           *)
Passive(a, l) ==
    /\ UNCHANGED <<started, managers_ipc>>
    /\ a = Boot => l \notin {"notified", "drop", "release"}

TxFrame(a) == \A b \in Actor \ {a} : tx'[b] = tx[b]

(* A request of a client, apart from the lock.                               *)
LEMMA ClientShape ==
    ASSUME TypeOK, NEW c \in Client,
           \/ Send(c) \/ check_up_interface(c)
           \/ BeginApply(c) \/ up_interface(c) \/ down_interface(c)
           \/ wifi_control(c) \/ wait_for_iface_action(c)
    PROVE  /\ \E l \in Label : /\ StaysPut(c, l) /\ PauseEffect(c, l)
                               /\ Passive(c, l) /\ l \notin Holding
           /\ TxFrame(c) /\ saved' = saved
  <1> USE DEF monitorVars, bootVars, lockVars, history, bounds
  <1>a. c \in Actor /\ c # Boot  BY Actors
  <1>f. tx \in [Actor -> Tx]  BY DEF TypeOK
  <1>s. SUFFICES
          /\ TxFrame(c)
          /\ UNCHANGED <<lock_holder, cur_locker_pid, pauses, started,
                         managers_ipc, saved>>
          /\ \/ /\ pc[c] \in {"idle", "check", "await"}
                /\ \E l \in {"idle", "check", "wait"} : Moves(c, l)
             \/ /\ pc[c] = "begin"
                /\ \E l \in {"query", "drop"} : Moves(c, l)
    BY <1>a, Actors DEF StaysPut, PauseEffect, Passive, Holding, Label,
                        Locked, Paused
  <1>1. CASE Send(c)
    <2>1. TxFrame(c)  BY <1>1, <1>f DEF Send, TxFrame
    <2> QED  BY <1>1, <2>1 DEF Send, At, Goto, Moves
  <1>2. CASE check_up_interface(c)
    <2>1. TxFrame(c)  BY <1>2, <1>f DEF check_up_interface, Answer, TxFrame
    <2> QED  BY <1>2, <2>1 DEF check_up_interface, At, Goto, Moves, Answer
  <1>3. CASE BeginApply(c)
    BY <1>3, Zenon DEF BeginApply, Begin, At, Goto, Moves, TxFrame
  <1>4. CASE up_interface(c)
    <2>1. TxFrame(c)  BY <1>4, <1>f DEF up_interface, Fail, TxFrame
    <2> QED  BY <1>4, <2>1 DEF up_interface, Begin, At, Goto, Moves, Fail
  <1>5. CASE down_interface(c)
    <2>1. TxFrame(c)  BY <1>5, <1>f DEF down_interface, Fail, TxFrame
    <2> QED  BY <1>5, <2>1 DEF down_interface, Begin, At, Goto, Moves, Fail
  <1>6. CASE wifi_control(c)
    <2>1. TxFrame(c)  BY <1>6, <1>f DEF wifi_control, Fail, TxFrame
    <2> QED  BY <1>6, <2>1 DEF wifi_control, Begin, At, Goto, Moves, Fail
  <1>7. CASE wait_for_iface_action(c)
    <2>1. TxFrame(c)  BY <1>7, <1>f DEF wait_for_iface_action, Answer, TxFrame
    <2> QED  BY <1>7, <2>1 DEF wait_for_iface_action, At, Goto, Moves, Answer
  <1> QED  BY <1>1, <1>2, <1>3, <1>4, <1>5, <1>6, <1>7

(* The steps on the lock.                                                    *)
LEMMA LockShape ==
    ASSUME TypeOK, NEW a \in Locker,
           \/ a \in Client /\ (Acquire(a) \/ StorePid(a))
           \/ ClearPid(a) \/ Release(a)
    PROVE  /\ \E l \in Label : /\ Moves(a, l) /\ PauseEffect(a, l)
                               /\ l \notin Holding
           /\ UNCHANGED <<saved, started, managers_ipc>> /\ TxFrame(a)
           /\ a = Boot => pc[Boot] \in {"drop", "release"}
           /\ a = Boot => tx'[Boot].op \in {tx[Boot].op, "boot"}
           /\ lock_holder' # lock_holder =>
                lock_holder = None \/ pc[a] = "release"
  <1> USE DEF monitorVars, bootVars, lockVars, history, bounds
  <1>a. a \in Actor /\ (a \in Client => a # Boot)  BY Actors
  <1>f. tx \in [Actor -> Tx]  BY DEF TypeOK
  <1>s. SUFFICES
          /\ TxFrame(a)
          /\ UNCHANGED <<pauses, started, managers_ipc, saved>>
          /\ pc[a] \in {"wait", "store", "drop", "release"}
          /\ \E l \in {"store", "begin", "release", "await", "idle"} :
               Moves(a, l)
          /\ a = Boot => pc[Boot] \in {"drop", "release"}
          /\ a = Boot => tx'[Boot].op \in {tx[Boot].op, "boot"}
          /\ lock_holder' # lock_holder =>
                lock_holder = None \/ pc[a] = "release"
    BY Zenon DEF PauseEffect, Holding, Label, Locked, Paused
  <1>1. CASE a \in Client /\ Acquire(a)
    BY <1>1, <1>a, Zenon DEF Acquire, At, Goto, Moves, TxFrame
  <1>2. CASE a \in Client /\ StorePid(a)
    BY <1>2, <1>a DEF StorePid, At, Goto, Moves, TxFrame
  <1>3. CASE ClearPid(a)
    BY <1>3 DEF ClearPid, At, Goto, Moves, TxFrame
  <1>4. CASE Release(a)
    <2>0. UNCHANGED tx \/ tx' = [tx EXCEPT ![a] = NoTx]
      BY <1>4 DEF Release, Answer
    <2>1. TxFrame(a)  BY <2>0, <1>a, <1>f DEF TxFrame
    <2>2. a = Boot => tx'[Boot].op \in {tx[Boot].op, "boot"}
      BY <2>0, <1>a, <1>f DEF NoTx, NewTx
    <2>3. \E l \in {"await", "idle"} : Moves(a, l)
      BY <1>4 DEF Release, Answer, Goto, Moves
    <2> QED  BY <1>4, <2>1, <2>2, <2>3, Zenon DEF Release, At
  <1> QED  BY <1>1, <1>2, <1>3, <1>4, Zenon

(* A failed attempt keeps what the transaction is about.                     *)
LEMMA AttemptFailsShape ==
    ASSUME TypeOK, NEW a \in Actor, AttemptFails(a)
    PROVE  /\ TxFrame(a)
           /\ \A f \in {"op", "desired", "to_save"} : tx'[a][f] = tx[a][f]
           /\ \E l \in {"apply", "resume", "rollback"} : Moves(a, l)
  <1>f. tx \in [Actor -> Tx] /\ tx[a] \in Tx  BY DEF TypeOK
  <1>1. CASE /\ tx' = [tx EXCEPT ![a].attempt = @ + 1]
             /\ Goto(a, "apply")
    BY <1>1, <1>f DEF TxFrame, Goto, Moves, Tx
  <1>2. CASE /\ tx' = [tx EXCEPT ![a].err = TRUE, ![a].attempt = 1]
             /\ Goto(a, IF a = Main THEN "resume" ELSE "rollback")
    BY <1>2, <1>f, Zenon DEF TxFrame, Goto, Moves, Tx
  <1> QED  BY <1>1, <1>2, Zenon DEF AttemptFails

(* The labels of a transaction between its start and its end.                *)
Inside == {"query", "pause", "apply", "verify", "rollback", "save", "setup",
           "resume", "finish", "monitors", "drop"}

(* A move between them does not touch the lock or the start of the monitor.  *)
LEMMA InsideMove ==
    ASSUME NEW a \in Actor, NEW l, Moves(a, l), pc[a] \in Inside,
           l \in Inside \/ (a = Main /\ l = "done"),
           a = Boot => l # "drop",
           UNCHANGED <<lock_holder, cur_locker_pid, started, managers_ipc>>
    PROVE  l \in Label /\ StaysPut(a, l) /\ Passive(a, l)
  <1>1. l \in Label  BY DEF Inside, Label, Locked, Paused
  <1>2. l \in Inside => l \in Locked /\ l \notin {"store", "release", "notified"}
    BY DEF Inside, Locked, Paused
  <1>3. pc[a] \in Locked /\ pc[a] \notin {"store", "release"}
    BY DEF Inside, Locked, Paused
  <1>4. StaysPut(a, l)  BY <1>2, <1>3 DEF StaysPut
  <1>5. Passive(a, l)  BY <1>2, TransactionAssumption DEF Passive
  <1> QED  BY <1>1, <1>4, <1>5

(* The steps of an apply; only Save changes the saved state.                 *)
LEMMA ApplyShape ==
    ASSUME TypeOK, NEW a \in Actor,
           \/ Query(a) \/ ApplyStep(a) \/ verify(a) \/ rollback(a)
           \/ Save(a) \/ Finish(a)
    PROVE  /\ \E l \in Label :
                /\ StaysPut(a, l) /\ PauseEffect(a, l) /\ Passive(a, l)
                /\ l \in Holding /\ ~Query(a) =>
                     /\ pc[a] \in Holding
                     /\ tx'[a].desired = tx[a].desired
                     /\ tx'[a].to_save = tx[a].to_save
           /\ TxFrame(a) /\ tx'[a].op = tx[a].op
           /\ saved' = saved \/ Save(a)
  <1> USE DEF Within, monitorVars, bootVars, lockVars, history, bounds
  <1>f. tx \in [Actor -> Tx] /\ tx[a] \in Tx  BY DEF TypeOK
  <1>b. Boot # Main  BY TransactionAssumption
  <1> DEFINE Kept == /\ tx'[a].desired = tx[a].desired
                     /\ tx'[a].to_save = tx[a].to_save
             Rest == /\ UNCHANGED <<lock_holder, cur_locker_pid, started,
                                    managers_ipc>>
                     /\ TxFrame(a) /\ tx'[a].op = tx[a].op
                     /\ saved' = saved \/ Save(a)
  <1>1. CASE Query(a)
    <2>1. TxFrame(a) /\ tx'[a].op = tx[a].op
      BY <1>1, <1>f DEF Query, Fail, TxFrame, Tx
    <2>2. /\ pc[a] = "query" /\ pauses' = pauses
          /\ \E l \in {"finish", "pause"} : Moves(a, l)
      BY <1>1 DEF Query, Fail, Goto, Moves, At
    <2>3. Rest  BY <1>1, <2>1 DEF Query
    <2>6. PICK l \in {"finish", "pause"} : Moves(a, l)
      BY <2>2
    <2>7. l \in Label /\ StaysPut(a, l) /\ Passive(a, l)
      BY <2>2, <2>3, <2>6, InsideMove, Zenon DEF Inside
    <2>8. PauseEffect(a, l)  BY <2>2, <2>6 DEF PauseEffect, Paused
    <2> QED  BY <1>1, <2>3, <2>7, <2>8
  <1>2. CASE PauseMonitor(a)
    <2>1. /\ pc[a] = "pause" /\ pauses' = pauses + 1 /\ Moves(a, "apply")
          /\ Kept /\ Rest
      BY <1>2 DEF PauseMonitor, At, Goto, Moves, TxFrame
    <2>7. "apply" \in Label /\ StaysPut(a, "apply") /\ Passive(a, "apply")
      BY <2>1, InsideMove, Zenon DEF Inside
    <2>8. PauseEffect(a, "apply")  BY <2>1, Zenon DEF PauseEffect, Paused
    <2>9. pc[a] \in Holding  BY <2>1 DEF Holding
    <2> QED  BY <2>1, <2>7, <2>8, <2>9, Zenon
  <1>3. CASE apply_merged_state_once(a)
    <2>1. /\ TxFrame(a) /\ tx'[a].op = tx[a].op /\ Kept
          /\ \E l \in {"verify", "save", "setup", "apply", "resume",
                       "rollback"} : Moves(a, l)
      <3>1. CASE /\ Goto(a, IF no_verify(tx[a]) THEN Applied(a) ELSE "verify")
                 /\ UNCHANGED tx
        BY <3>1, Zenon DEF Applied, Goto, Moves, TxFrame
      <3>2. CASE AttemptFails(a)  BY <3>2, AttemptFailsShape, Zenon
      <3> QED  BY <1>3, <3>1, <3>2, Zenon DEF apply_merged_state_once
    <2>2. pc[a] = "apply" /\ pauses' = pauses /\ Rest
      BY <1>3, <2>1, Zenon DEF apply_merged_state_once, At
    <2>6. PICK l \in {"verify", "save", "setup", "apply", "resume",
                   "rollback"} : Moves(a, l)
      BY <2>1, Zenon
    <2>7. l \in Label /\ StaysPut(a, l) /\ Passive(a, l)
      BY <2>2, <2>6, InsideMove, Zenon DEF Inside
    <2>8. PauseEffect(a, l)  BY <2>2, <2>6, Zenon DEF PauseEffect, Paused
    <2>9. pc[a] \in Holding  BY <2>2, Zenon DEF Holding
    <2> QED  BY <2>1, <2>2, <2>7, <2>8, <2>9, Zenon
  <1>4. CASE verify(a)
    <2>1. /\ TxFrame(a) /\ tx'[a].op = tx[a].op /\ Kept
          /\ \E l \in {"save", "setup", "apply", "resume", "rollback"} :
               Moves(a, l)
      <3>1. CASE Goto(a, Applied(a)) /\ UNCHANGED tx
        BY <3>1, Zenon DEF Applied, Goto, Moves, TxFrame
      <3>2. CASE AttemptFails(a)  BY <3>2, AttemptFailsShape, Zenon
      <3> QED  BY <1>4, <3>1, <3>2, Zenon DEF verify
    <2>2. pc[a] = "verify" /\ pauses' = pauses /\ Rest
      BY <1>4, <2>1, Zenon DEF verify, At
    <2>6. PICK l \in {"save", "setup", "apply", "resume", "rollback"} : Moves(a, l)
      BY <2>1, Zenon
    <2>7. l \in Label /\ StaysPut(a, l) /\ Passive(a, l)
      BY <2>2, <2>6, InsideMove DEF Inside
    <2>8. PauseEffect(a, l)  BY <2>2, <2>6 DEF PauseEffect, Paused
    <2>9. pc[a] \in Holding  BY <2>2 DEF Holding
    <2> QED  BY <2>1, <2>2, <2>7, <2>8, <2>9, Zenon
  <1>5. CASE rollback(a)
    <2>1. TxFrame(a) /\ tx'[a].op = tx[a].op
      BY <1>5, <1>f DEF rollback, TxFrame, Tx
    <2>2. pc[a] = "rollback" /\ pauses' = pauses /\ Rest /\ Moves(a, "resume")
      BY <1>5, <2>1 DEF rollback, At, Goto, Moves
    <2>7. "resume" \in Label /\ StaysPut(a, "resume") /\ Passive(a, "resume")
      BY <2>2, InsideMove DEF Inside
    <2>8. PauseEffect(a, "resume")  BY <2>2 DEF PauseEffect, Paused
    <2>9. "resume" \notin Holding  BY DEF Holding
    <2> QED  BY <2>2, <2>7, <2>8, <2>9, Zenon
  <1>6. CASE Save(a)
    <2>1. TxFrame(a) /\ tx'[a].op = tx[a].op
      BY <1>6, <1>f DEF Save, TxFrame, Tx
    <2>2. pc[a] = "save" /\ pauses' = pauses /\ Rest /\ Moves(a, "setup")
      BY <1>6, <2>1 DEF Save, At, Goto, Moves
    <2>7. "setup" \in Label /\ StaysPut(a, "setup") /\ Passive(a, "setup")
      BY <2>2, InsideMove, Zenon DEF Inside
    <2>8. PauseEffect(a, "setup")  BY <2>2 DEF PauseEffect, Paused
    <2>9. "setup" \notin Holding  BY DEF Holding
    <2> QED  BY <2>2, <2>7, <2>8, <2>9, Zenon
  <1>7. CASE setup_monitor(a)
    <2>1. TxFrame(a) /\ tx'[a].op = tx[a].op
      BY <1>7, <1>f DEF setup_monitor, Fail, TxFrame, Tx
    <2>2. pc[a] = "setup" /\ pauses' = pauses /\ Rest /\ Moves(a, "resume")
      BY <1>7, <2>1 DEF setup_monitor, Fail, At, Goto, Moves
    <2>7. "resume" \in Label /\ StaysPut(a, "resume") /\ Passive(a, "resume")
      BY <2>2, InsideMove, Zenon DEF Inside
    <2>8. PauseEffect(a, "resume")  BY <2>2 DEF PauseEffect, Paused
    <2>9. "resume" \notin Holding  BY DEF Holding
    <2> QED  BY <2>2, <2>7, <2>8, <2>9, Zenon
  <1>8. CASE ResumeMonitor(a)
    <2>1. TxFrame(a) /\ tx'[a].op = tx[a].op
      BY <1>8, <1>f DEF ResumeMonitor, Fail, TxFrame, Tx
    <2>2. /\ pc[a] = "resume" /\ pauses' = pauses - 1 /\ Rest
          /\ Moves(a, IF a = Main THEN "done" ELSE "finish")
      BY <1>8, <2>1 DEF ResumeMonitor, Fail, At, Goto, Moves
    <2> DEFINE l == IF a = Main THEN "done" ELSE "finish"
    <2>7. l \in Label /\ StaysPut(a, l) /\ Passive(a, l)
      BY <1>b, <2>2, InsideMove, Zenon DEF Inside
    <2>8. PauseEffect(a, l)  BY <2>2 DEF PauseEffect, Paused
    <2>9. l \notin Holding  BY DEF Holding
    <2> HIDE DEF l
    <2> QED  BY <2>2, <2>7, <2>8, <2>9, Zenon
  <1>9. CASE Finish(a)
    <2>1. TxFrame(a) /\ tx'[a].op = tx[a].op
      BY <1>9, <1>f DEF Finish, TxFrame, NewTx
    <2>2. /\ pc[a] = "finish" /\ pauses' = pauses /\ Rest
          /\ Moves(a, IF a = Boot THEN "monitors" ELSE "drop")
      BY <1>9, <2>1 DEF Finish, At, Goto, Moves
    <2> DEFINE l == IF a = Boot THEN "monitors" ELSE "drop"
    <2>7. l \in Label /\ StaysPut(a, l) /\ Passive(a, l)
      BY <1>b, <2>2, InsideMove, Zenon DEF Inside
    <2>8. PauseEffect(a, l)  BY <2>2 DEF PauseEffect, Paused
    <2>9. l \notin Holding  BY DEF Holding
    <2> HIDE DEF l
    <2> QED  BY <2>2, <2>7, <2>8, <2>9, Zenon
  <1> QED  BY <1>1, <1>2, <1>3, <1>4, <1>5, <1>6, <1>7, <1>8, <1>9, Zenon
           DEF ApplyStep

(* The boot task outside of its apply.                                       *)
LEMMA BootShape ==
    ASSUME TypeOK, BootFirst, tx[Boot].op = "boot",
           \/ boot_apply_inner \/ setup_saved_state_monitors \/ StartMonitor
           \/ BootFailed \/ BootNotified
    PROVE  /\ \E l \in Label : /\ StaysPut(Boot, l) /\ PauseEffect(Boot, l)
                               /\ l \notin Holding
                               /\ Passive(Boot, l) \/ started'
           /\ TxFrame(Boot) /\ saved' = saved /\ tx'[Boot].op = "boot"
           /\ started => started'
           /\ ~started /\ started' => pc[Boot] \notin Paused
  <1> USE DEF BootStep, bootVars, lockVars, history, bounds
  <1>a. Boot \in Actor  BY Actors
  <1>f. tx \in [Actor -> Tx]  BY DEF TypeOK
  <1> DEFINE Rest == /\ UNCHANGED <<lock_holder, cur_locker_pid, pauses, saved>>
                     /\ TxFrame(Boot) /\ tx'[Boot].op = "boot"
  <1>1. CASE boot_apply_inner
    <2>0. UNCHANGED tx \/ \E d : tx' = [tx EXCEPT ![Boot] = NewTx("boot", d)]
      BY <1>1 DEF boot_apply_inner
    <2>1. TxFrame(Boot) /\ tx'[Boot].op = "boot"
      BY <2>0, <1>a, <1>f DEF TxFrame, NewTx
    <2>2. /\ pc[Boot] = "boot" /\ Rest /\ UNCHANGED <<started, managers_ipc>>
          /\ \E l \in {"bootfail", "monitors", "query"} : Moves(Boot, l)
      BY <1>1, <2>1 DEF boot_apply_inner, At, Goto, Moves
    <2> QED  BY <2>2, Zenon
             DEF StaysPut, PauseEffect, Passive, Holding, Label, Locked, Paused
  <1>2. CASE setup_saved_state_monitors
    <2>1. /\ pc[Boot] = "monitors" /\ Rest /\ UNCHANGED <<started, managers_ipc>>
          /\ \E l \in {"start", "bootfail"} : Moves(Boot, l)
      BY <1>2, Zenon DEF setup_saved_state_monitors, At, Goto, Moves, TxFrame
    <2> QED  BY <2>1
             DEF StaysPut, PauseEffect, Passive, Holding, Label, Locked, Paused
  <1>3. CASE StartMonitor
    <2>1. /\ pc[Boot] = "start" /\ Rest /\ started'
          /\ \E l \in {"notified", "bootfail"} : Moves(Boot, l)
      BY <1>3 DEF StartMonitor, Start, At, Goto, Moves, TxFrame
    <2> QED  BY <2>1
             DEF StaysPut, PauseEffect, Holding, Label, Locked, Paused
  <1>4. CASE BootFailed
    <2>1. /\ pc[Boot] = "bootfail" /\ Rest /\ started' /\ Moves(Boot, "drop")
      BY <1>4 DEF BootFailed, Start, At, Goto, Moves, TxFrame
    <2> QED  BY <2>1, Zenon
             DEF StaysPut, PauseEffect, Holding, Label, Locked, Paused
  <1>5. CASE BootNotified
    <2>1. /\ pc[Boot] = "notified" /\ Rest /\ UNCHANGED <<started, managers_ipc>>
          /\ Moves(Boot, "drop")
      BY <1>5 DEF BootNotified, At, Goto, Moves, TxFrame
    <2>2. started'  BY <2>1 DEF BootFirst
    <2> QED  BY <2>1, <2>2
             DEF StaysPut, PauseEffect, Holding, Label, Locked, Paused
  <1> QED  BY <1>1, <1>2, <1>3, <1>4, <1>5, Zenon

(* The main loop outside of its apply.                                       *)
LEMMA MainShape ==
    ASSUME TypeOK, handle_events \/ handle_manager_cmd
    PROVE  /\ \E l \in Label : StaysPut(Main, l) /\ PauseEffect(Main, l)
           /\ TxFrame(Main) /\ UNCHANGED <<saved, started>>
           /\ managers_ipc # <<>> \/ pc[Main] # "idle"
  <1> USE DEF monitorVars, bootVars, lockVars, history, bounds
  <1>f. tx \in [Actor -> Tx]  BY DEF TypeOK
  <1>1. CASE handle_events
    <2>1. TxFrame(Main)  BY <1>1, <1>f DEF handle_events, TxFrame
    <2>2. pc[Main] = "idle" /\ \E l \in {"done", "pause"} : Moves(Main, l)
      BY <1>1 DEF handle_events, At, Goto, Moves
    <2> QED  BY <1>1, <2>1, <2>2
             DEF handle_events, StaysPut, PauseEffect, Label, Locked, Paused
  <1>2. CASE handle_manager_cmd
    <2>1. TxFrame(Main)  BY <1>2, <1>f DEF handle_manager_cmd, Answer, TxFrame
    <2>2. pc[Main] = "done" /\ Moves(Main, "idle")
      BY <1>2 DEF handle_manager_cmd, Answer, At, Goto, Moves
    <2>3. UNCHANGED <<lock_holder, cur_locker_pid, pauses, saved, started>>
      BY <1>2 DEF handle_manager_cmd
    <2>4. "idle" \in Label /\ StaysPut(Main, "idle")
      BY <2>2, <2>3 DEF StaysPut, Label
    <2>5. PauseEffect(Main, "idle")  BY <2>2, <2>3 DEF PauseEffect, Paused
    <2> QED  BY <2>1, <2>2, <2>3, <2>4, <2>5
  <1> QED  BY <1>1, <1>2

------------------------------------------------------------------------------
(* The inductive invariant holds initially and is kept, one lemma per actor. *)

(* It holds initially, where the boot task owns the lock.                    *)
LEMMA InitInv == Init => IInv
  <1> SUFFICES ASSUME Init PROVE IInv  OBVIOUS
  <1> USE DEF Init
  <1>1. TypeOK
    <2>1. kernel \in [Iface -> Value]  BY DEF Value
    <2>2. entry \in Partial  BY <2>1, FullPartial
    <2>3. tx \in [Actor -> Tx]  BY NoTxType
    <2>4. pc \in [Actor -> Label]  BY DEF Label, Locked
    <2>5. lock_waiters \in Seq(Client) /\ managers_ipc \in Seq(Message)
      OBVIOUS
    <2>6. requests \in 0..MaxRequests /\ events \in 0..MaxEvents
      BY TransactionAssumption
    <2>7. /\ lock_holder \in Locker \cup {None}
          /\ cur_locker_pid \in Locker \cup {None}
      BY Actors
    <2>8. /\ started \in BOOLEAN /\ pauses \in Nat /\ boot_applied \in BOOLEAN
          /\ explicitly_down \subseteq Iface /\ raced \subseteq Iface
          /\ boot_log \in {None, "applied", "failed"}
          /\ saved \in [Iface -> Value]
      BY Zenon
    <2> HIDE DEF Init
    <2> QED  BY <2>1, <2>2, <2>3, <2>4, <2>5, <2>6, <2>7, <2>8 DEF TypeOK
  <1>p. /\ \A a \in Actor : pc[a] = IF a = Boot THEN "boot" ELSE "idle"
        /\ Boot \in Actor /\ Main \in Actor /\ Locker \subseteq Actor
        /\ Boot # Main /\ Boot # None
    BY Actors, TransactionAssumption
  <1>2. LockInv
    BY <1>p DEF LockInv, MutualExclusion, LockerPidSound, PidUnset, Locked,
                Paused
  <1>3. PauseBalanced
    <2>1. InApply = {}  BY <1>p DEF InApply, Paused
    <2> QED  BY <2>1, FS_EmptySet, Zenon DEF PauseBalanced, InApply
  <1>4. BootFirst  BY <1>p DEF BootFirst
  <1>5. SaveFresh
    <2>1. tx[Boot].op = "boot"  BY <1>p DEF NoTx, NewTx
    <2> QED  BY <1>p, <2>1 DEF SaveFresh, Holding
  <1> QED  BY <1>1, <1>2, <1>3, <1>4, <1>5 DEF IInv

(* The steps of an apply keep SaveFresh.                                     *)
LEMMA ApplyFresh ==
    ASSUME TypeOK, MutualExclusion, SaveFresh, NEW a \in Actor,
           \/ Query(a) \/ ApplyStep(a) \/ verify(a) \/ rollback(a)
           \/ Save(a) \/ Finish(a),
           a = Main => ApplyStep(Main)
    PROVE  SaveFresh'
  <1>0. tx \in [Actor -> Tx] /\ pc \in [Actor -> Label]  BY DEF TypeOK
  <1>1. PICK l \in Label :
          /\ Moves(a, l)
          /\ l \in Holding /\ ~Query(a) =>
               /\ pc[a] \in Holding
               /\ tx'[a].desired = tx[a].desired
               /\ tx'[a].to_save = tx[a].to_save
    BY ApplyShape, Zenon DEF StaysPut
  <1>2. TxFrame(a) /\ tx'[a].op = tx[a].op  BY ApplyShape, Zenon
  <1>3. CASE Save(a)
    <2>1. a # Main
      BY <1>3 DEF Save, ApplyStep, At, PauseMonitor, apply_merged_state_once,
                  setup_monitor, ResumeMonitor
    <2>2. a \in Locker /\ pc[a] = "save"  BY <1>3, <2>1, Actors DEF Save, At
    <2>3. \A b \in Locker \ {a} : pc[b] \notin Locked
      BY <2>2 DEF MutualExclusion, Locked, Paused
    <2>4. \A b \in Locker : pc'[b] \notin Holding
      BY <1>0, <1>3, <2>2, <2>3, Actors
         DEF Save, Goto, Holding, Locked, Paused
    <2>5. tx'[Boot].op = "boot"  BY <1>2, Actors DEF TxFrame, SaveFresh
    <2> QED  BY <2>4, <2>5, Zenon DEF SaveFresh
  <1>4. CASE ~Save(a)
    <2>1. saved' = saved  BY <1>4, ApplyShape, Zenon
    <2>2. a \in Locker /\ l \in Holding => Fresh(a)'
      <3> SUFFICES ASSUME a \in Locker, l \in Holding PROVE Fresh(a)'
        OBVIOUS
      <3>1. CASE ~Query(a)
        BY <1>1, <2>1, <3>1, Zenon DEF SaveFresh, Fresh
      <3>2. CASE Query(a)
        <4>1. pc'[a] = l  BY <1>0, <1>1 DEF Moves
        <4>2. tx' = [tx EXCEPT
                      ![a].revert = Part(kernel, DOMAIN tx[a].desired),
                      ![a].to_save = Update(saved, tx[a].desired)]
          BY <1>0, <3>2, <4>1 DEF Query, Fail, Goto, Holding
        <4>3. tx[a] \in Tx  BY <1>0
        <4>4. /\ tx'[a].to_save = Update(saved, tx[a].desired)
              /\ tx'[a].desired = tx[a].desired
          BY <1>0, <4>2, <4>3 DEF Tx
        <4>5. Update(saved, tx[a].desired) \in [Iface -> Value]
          BY <4>3, UpdateType DEF Tx, TypeOK
        <4> QED  BY <2>1, <4>4, <4>5, Zenon DEF Fresh, Update
      <3> QED  BY <3>1, <3>2
    <2>3. a = Boot => tx'[Boot].op = "boot"  BY <1>2, Zenon DEF SaveFresh
    <2> QED  BY <1>1, <1>2, <2>1, <2>2, <2>3, FreshStep, Zenon DEF TxFrame
  <1> QED  BY <1>3, <1>4

(* An owner of the lock, a client or the boot task.                          *)
LEMMA OwnerInv ==
    ASSUME IInv, NEW a \in Locker, OwnerStep(a)
    PROVE  IInv'
  <1> USE DEF IInv
  <1>a. a \in Actor /\ a # Main  BY Actors
  <1>1. TypeOK'
    <2>1. pc[a] \in Paused => pauses > 0  BY <1>a, PauseCount
    <2>2. pc[a] = "save" => tx[a].to_save \in [Iface -> Value]
      BY DEF SaveFresh, Fresh, Holding
    <2> QED  BY <1>a, <2>1, <2>2, ApplyTypes
  <1>2. CASE ClearPid(a) \/ Release(a)
    <2>1. PICK l \in Label : /\ Moves(a, l) /\ PauseEffect(a, l)
                             /\ l \notin Holding
      BY <1>2, LockShape, Zenon
    <2>2. /\ UNCHANGED <<saved, started, managers_ipc>> /\ TxFrame(a)
          /\ a = Boot => pc[Boot] \in {"drop", "release"}
          /\ a = Boot => tx'[Boot].op \in {tx[Boot].op, "boot"}
          /\ lock_holder' # lock_holder =>
                lock_holder = None \/ pc[a] = "release"
      BY <1>2, LockShape, Zenon
    <2>3. LockInv'  BY <1>2, LockSteps
    <2>4. PauseBalanced'  BY <1>a, <2>1, PauseStep
    <2>5. BootFirst'
      <3>1. started => BootFirst'
        <4>1. started => started'  BY <2>2
        <4> QED  BY <4>1 DEF BootFirst
      <3>2. a = Boot => started  BY <2>2 DEF BootFirst
      <3>3. CASE ~started /\ a # Boot
        <4>1. lock_holder = Boot /\ lock_holder # None
          BY <3>3, TransactionAssumption DEF BootFirst, Actor
        <4>2. pc[a] \notin Locked
          BY <3>3, <4>1 DEF LockInv, MutualExclusion
        <4>3. lock_holder' = lock_holder  BY <2>2, <4>1, <4>2, Zenon DEF Locked
        <4>4. pc'[Main] = pc[Main] /\ pc'[Boot] = pc[Boot]
          BY <1>a, <2>1, <3>3, Actors DEF Moves, TypeOK
        <4> QED  BY <2>2, <4>3, <4>4 DEF BootFirst
      <3> QED  BY <3>1, <3>2, <3>3
    <2>6. SaveFresh'
      <3>1. a = Boot => tx'[Boot].op = "boot"  BY <2>2 DEF SaveFresh
      <3> QED  BY <1>a, <2>1, <2>2, <3>1, FreshStep DEF TxFrame
    <2> QED  BY <1>1, <2>3, <2>4, <2>5, <2>6
  <1>3. CASE ~(ClearPid(a) \/ Release(a))
    <2>0. \/ Query(a) \/ ApplyStep(a) \/ verify(a) \/ rollback(a)
          \/ Save(a) \/ Finish(a)
      BY <1>3 DEF OwnerStep
    <2>1. PICK l \in Label :
            StaysPut(a, l) /\ PauseEffect(a, l) /\ Passive(a, l)
      BY <1>a, <2>0, ApplyShape, Zenon
    <2>2. LockInv'  BY <1>a, <2>1, StaysPutKeepsLock
    <2>3. PauseBalanced'  BY <1>a, <2>1, PauseStep DEF StaysPut
    <2>4. BootFirst'
      <3>1. /\ pc'[Main] = pc[Main]
            /\ pc'[Boot] = IF a = Boot THEN l ELSE pc[Boot]
        BY <1>a, <2>1, Actors DEF StaysPut, Moves, TypeOK
      <3> QED  BY <2>1, <3>1 DEF BootFirst, StaysPut, Passive
    <2>5. SaveFresh'  BY <1>a, <2>0, ApplyFresh DEF LockInv
    <2> QED  BY <1>1, <2>2, <2>3, <2>4, <2>5
  <1> QED  BY <1>2, <1>3

(* Every step of a client keeps the invariant.                               *)
LEMMA ClientInv ==
    ASSUME IInv, NEW c \in Client, Send(c) \/ ClientStep(c)
    PROVE  IInv'
  <1> USE DEF IInv
  <1>a. /\ c \in Locker /\ c \in Actor /\ c # Boot /\ c # Main
        /\ Boot \in Actor /\ Main \in Actor
    BY Actors
  <1>1. CASE OwnerStep(c)  BY <1>1, <1>a, OwnerInv
  <1>2. CASE Acquire(c) \/ StorePid(c)
    <2>0. TypeOK'  BY <1>2, ClientTypes
    <2>1. PICK l \in Label : /\ Moves(c, l) /\ PauseEffect(c, l)
                             /\ l \notin Holding
      BY <1>2, <1>a, LockShape, Zenon
    <2>2. UNCHANGED <<saved, started, managers_ipc>> /\ TxFrame(c)
      BY <1>2, <1>a, LockShape, Zenon
    <2>3. LockInv'  BY <1>2, <1>a, LockSteps
    <2>4. PauseBalanced'  BY <1>a, <2>1, PauseStep
    <2>5. BootFirst'
      <3>1. pc'[Main] = pc[Main] /\ pc'[Boot] = pc[Boot]
        BY <1>a, <2>1 DEF Moves, TypeOK
      <3>2. Boot # None  BY TransactionAssumption DEF Actor
      <3>3. lock_holder' # lock_holder => lock_holder = None
        BY <1>2 DEF Acquire, StorePid
      <3> QED  BY <2>2, <3>1, <3>2, <3>3 DEF BootFirst
    <2>6. SaveFresh'  BY <1>a, <2>1, <2>2, FreshStep, Zenon DEF TxFrame
    <2> QED  BY <2>0, <2>3, <2>4, <2>5, <2>6
  <1>3. CASE \/ Send(c) \/ check_up_interface(c)
             \/ BeginApply(c) \/ up_interface(c) \/ down_interface(c)
             \/ wifi_control(c) \/ wait_for_iface_action(c)
    <2>0. TypeOK'  BY <1>3, ClientTypes
    <2>1. PICK l \in Label : /\ StaysPut(c, l) /\ PauseEffect(c, l)
                             /\ Passive(c, l) /\ l \notin Holding
      BY <1>3, ClientShape
    <2>2. TxFrame(c) /\ saved' = saved  BY <1>3, ClientShape
    <2>3. LockInv'  BY <1>a, <2>1, StaysPutKeepsLock
    <2>4. PauseBalanced'  BY <1>a, <2>1, PauseStep DEF StaysPut
    <2>5. BootFirst'
      <3>1. pc'[Main] = pc[Main] /\ pc'[Boot] = pc[Boot]
        BY <1>a, <2>1 DEF StaysPut, Moves, TypeOK
      <3> QED  BY <2>1, <3>1, Zenon DEF BootFirst, StaysPut, Passive
    <2>6. SaveFresh'
      BY <1>a, <2>1, <2>2, FreshStep, Zenon DEF TxFrame, StaysPut
    <2> QED  BY <2>0, <2>3, <2>4, <2>5, <2>6
  <1> QED  BY <1>1, <1>2, <1>3 DEF ClientStep

(* The boot task.                                                            *)
LEMMA BootInv ==
    ASSUME IInv, BootTask
    PROVE  IInv'
  <1> USE DEF IInv
  <1>a. Boot \in Locker /\ Boot \in Actor /\ Main \in Actor /\ Boot # Main
    BY Actors
  <1>1. CASE OwnerStep(Boot)  BY <1>1, <1>a, OwnerInv
  <1>2. CASE \/ boot_apply_inner \/ setup_saved_state_monitors
             \/ StartMonitor \/ BootFailed \/ BootNotified
    <2>0. TypeOK'  BY <1>2, BootTypes
    <2>b. tx[Boot].op = "boot"  BY DEF SaveFresh
    <2>1. PICK l \in Label : /\ StaysPut(Boot, l) /\ PauseEffect(Boot, l)
                             /\ l \notin Holding
                             /\ Passive(Boot, l) \/ started'
      BY <1>2, <2>b, BootShape
    <2>2. TxFrame(Boot) /\ saved' = saved /\ tx'[Boot].op = "boot"
      BY <1>2, <2>b, BootShape, Zenon
    <2>3. LockInv'  BY <1>a, <2>1, StaysPutKeepsLock
    <2>4. PauseBalanced'  BY <1>a, <2>1, PauseStep DEF StaysPut
    <2>5. BootFirst'
      <3>1. pc'[Main] = pc[Main] /\ pc'[Boot] = l
        BY <1>a, <2>1 DEF StaysPut, Moves, TypeOK
      <3>2. CASE started'  BY <3>2 DEF BootFirst
      <3>3. CASE Passive(Boot, l)
        BY <2>1, <3>1, <3>3, Zenon DEF BootFirst, StaysPut, Passive
      <3> QED  BY <2>1, <3>2, <3>3
    <2>6. SaveFresh'
      BY <1>a, <2>1, <2>2, FreshStep, Zenon DEF TxFrame, StaysPut
    <2> QED  BY <2>0, <2>3, <2>4, <2>5, <2>6
  <1> QED  BY <1>1, <1>2 DEF BootTask

(* The main loop with the event worker.                                      *)
LEMMA MainInv ==
    ASSUME IInv, MainLoop
    PROVE  IInv'
  <1> USE DEF IInv
  <1>a. Main \in Actor /\ Main \notin Locker /\ Main # Boot /\ Boot \in Actor
    BY Actors
  <1>1. /\ TypeOK' /\ SaveFresh' /\ started /\ started'
        /\ \E l \in Label : StaysPut(Main, l) /\ PauseEffect(Main, l)
    <2>1. CASE ApplyStep(Main)
      <3>0. OwnerStep(Main)  BY <2>1 DEF OwnerStep
      <3>1. pc[Main] \in {"pause", "apply", "setup", "resume"}
        BY <2>1, Zenon DEF ApplyStep, PauseMonitor, apply_merged_state_once,
                    setup_monitor, ResumeMonitor, At
      <3>2. TypeOK'
        <4>1. pc[Main] \in Paused => pauses > 0  BY <1>a, PauseCount
        <4>2. pc[Main] # "save"  BY <3>1
        <4> QED  BY <1>a, <3>0, <4>1, <4>2, ApplyTypes
      <3>3. \E l \in Label : /\ StaysPut(Main, l) /\ PauseEffect(Main, l)
                             /\ Passive(Main, l)
        BY <1>a, <2>1, ApplyShape, Zenon
      <3>4. SaveFresh'  BY <1>a, <2>1, ApplyFresh DEF LockInv
      <3>5. started  BY <3>1 DEF BootFirst
      <3> QED  BY <3>2, <3>3, <3>4, <3>5 DEF Passive
    <2>2. CASE handle_events \/ handle_manager_cmd
      <3>1. TypeOK'  BY <2>2, MainTypes
      <3>2. PICK l \in Label : StaysPut(Main, l) /\ PauseEffect(Main, l)
        BY <2>2, MainShape
      <3>3. /\ TxFrame(Main) /\ UNCHANGED <<saved, started>>
            /\ managers_ipc # <<>> \/ pc[Main] # "idle"
        BY <2>2, MainShape
      <3>4. started  BY <3>3 DEF BootFirst
      <3>5. SaveFresh'
        BY <1>a, <3>2, <3>3, FreshStep, Zenon DEF TxFrame, StaysPut
      <3> QED  BY <3>1, <3>2, <3>3, <3>4, <3>5
    <2> QED  BY <2>1, <2>2 DEF MainLoop
  <1>2. PICK l \in Label : StaysPut(Main, l) /\ PauseEffect(Main, l)
    BY <1>1
  <1>3. LockInv'  BY <1>a, <1>2, StaysPutKeepsLock
  <1>4. PauseBalanced'  BY <1>a, <1>2, PauseStep DEF StaysPut
  <1>5. BootFirst'  BY <1>1 DEF BootFirst
  <1> QED  BY <1>1, <1>3, <1>4, <1>5

(* A link event of the monitor.                                              *)
LEMMA LinkInv ==
    ASSUME IInv, NEW i \in Iface, LinkEvent(i)
    PROVE  IInv'
  <1> USE DEF IInv
  <1>1. TypeOK'  BY MainTypes
  <1>2. UNCHANGED <<lock_holder, cur_locker_pid, pc, tx, saved, pauses, started>>
        /\ started
    BY DEF LinkEvent, lockVars
  <1>3. LockInv'
    BY <1>2 DEF LockInv, MutualExclusion, LockerPidSound, PidUnset
  <1>4. PauseBalanced'  BY <1>2 DEF PauseBalanced
  <1>5. BootFirst'  BY <1>2 DEF BootFirst
  <1>6. SaveFresh'  BY <1>2 DEF SaveFresh, Fresh
  <1> QED  BY <1>1, <1>3, <1>4, <1>5, <1>6

(* Stuttering changes nothing.                                               *)
LEMMA StutterInv ==
    ASSUME IInv, UNCHANGED vars
    PROVE  IInv'
  <1> USE DEF vars
  <1>1. TypeOK'  BY DEF IInv, TypeOK
  <1>2. LockInv'
    BY DEF IInv, LockInv, MutualExclusion, LockerPidSound, PidUnset
  <1>3. PauseBalanced'  BY DEF IInv, PauseBalanced
  <1>4. BootFirst' /\ SaveFresh'  BY Zenon DEF IInv, BootFirst, SaveFresh, Fresh
  <1> QED  BY <1>1, <1>2, <1>3, <1>4 DEF IInv

(* Every step keeps it.                                                      *)
LEMMA StepInv == IInv /\ [Next]_vars => IInv'
  BY ClientInv, BootInv, MainInv, LinkInv, StutterInv DEF Next

(* The invariant the theorems rest on.                                       *)
LEMMA Inductive == Spec => []IInv
  BY InitInv, StepInv, PTL DEF Spec

------------------------------------------------------------------------------
(* Every variable has its type: in particular the daemon never resumes the   *)
(* monitor below zero, and always saves a whole configuration.               *)
THEOREM TypeCorrect == Spec => []TypeOK
  <1>1. IInv => TypeOK  BY DEF IInv
  <1> QED  BY <1>1, Inductive, PTL

(* LOCK of lock.rs with the guards of its callers: through every early       *)
(* return and failure, who is inside a transaction owns the lock, and who    *)
(* owns it is inside one.                                                    *)
THEOREM TransactionsExclude == Spec => []MutualExclusion
  <1>1. IInv => MutualExclusion  BY DEF IInv, LockInv
  <1> QED  BY <1>1, Inductive, PTL

(* CUR_LOCKER_PID of lock.rs: the PID shown to a waiting client is the       *)
(* owner's.                                                                  *)
THEOREM PidIsTheOwners == Spec => []LockerPidSound
  <1>1. IInv => LockerPidSound  BY DEF IInv, LockInv
  <1> QED  BY <1>1, Inductive, PTL

(* pause_monitor and resume_monitor in apply.rs and event_worker.rs are      *)
(* balanced: the pause count is the number of applies in progress.           *)
THEOREM PausesAreApplies == Spec => []PauseBalanced
  <1>1. IInv => PauseBalanced  BY DEF IInv
  <1> QED  BY <1>1, Inductive, PTL

(* The boot task starts the monitor when no apply holds it paused, its own   *)
(* and the event worker's included.                                          *)
THEOREM StartsUnpaused == Spec => StartUnpaused
  <1>1. IInv /\ [Next]_vars => [~started /\ started' => pauses = 0]_vars
    <2> SUFFICES ASSUME IInv, Next, ~started, started' PROVE pauses = 0
      OBVIOUS
    <2> USE DEF IInv
    <2>0. Boot \in Locker /\ Boot # None /\ Actor = Locker \cup {Main}
      BY Actors
    <2>1. pc[Boot] \notin Paused
      <3>1. BootTask
        <4>1. ASSUME NEW c \in Client, Send(c) \/ ClientStep(c) PROVE FALSE
          <5> c \in Locker /\ c \in Actor  BY Actors
          <5>1. CASE Acquire(c) \/ StorePid(c) \/ ClearPid(c) \/ Release(c)
            BY <5>1, LockShape, Zenon
          <5>2. CASE \/ Query(c) \/ ApplyStep(c) \/ verify(c) \/ rollback(c)
                     \/ Save(c) \/ Finish(c)
            BY <5>2, ApplyShape, Zenon DEF Passive
          <5>3. CASE \/ Send(c) \/ check_up_interface(c)
                     \/ BeginApply(c) \/ up_interface(c) \/ down_interface(c)
                     \/ wifi_control(c) \/ wait_for_iface_action(c)
            BY <5>3, ClientShape, Zenon DEF Passive
          <5> QED  BY <4>1, <5>1, <5>2, <5>3 DEF ClientStep, OwnerStep
        <4>2. ~MainLoop
          <5>1. ~ApplyStep(Main)
            BY <2>0, ApplyShape, Zenon DEF Passive
          <5> QED  BY <5>1, MainShape, Zenon DEF MainLoop
        <4>3. ~\E i \in Iface : LinkEvent(i)  BY Zenon DEF LinkEvent
        <4> QED  BY <4>1, <4>2, <4>3 DEF Next
      <3>2. ~OwnerStep(Boot)
        <4> Boot \in Actor  BY <2>0
        <4>1. ~(ClearPid(Boot) \/ Release(Boot))  BY <2>0, LockShape, Zenon
        <4>2. ~(\/ Query(Boot) \/ ApplyStep(Boot) \/ verify(Boot)
                \/ rollback(Boot) \/ Save(Boot) \/ Finish(Boot))
          BY ApplyShape, Zenon DEF Passive
        <4> QED  BY <4>1, <4>2 DEF OwnerStep
      <3>3. tx[Boot].op = "boot"  BY DEF SaveFresh
      <3> QED  BY <3>1, <3>2, <3>3, BootShape, Zenon DEF BootTask
    <2>2. lock_holder = Boot /\ pc[Main] = "idle"  BY DEF BootFirst
    <2>3. \A b \in Locker \ {Boot} : pc[b] \notin Locked
      BY <2>2 DEF LockInv, MutualExclusion
    <2>4. InApply = {}
      BY <2>0, <2>1, <2>2, <2>3 DEF InApply, Locked, Paused
    <2> QED  BY <2>4, FS_EmptySet DEF PauseBalanced, InApply
  <1> QED  BY <1>1, Inductive, PTL DEF Spec, StartUnpaused

(* The save at the end of an apply in apply.rs, computed from the saved      *)
(* state read at its start, changes what the request asked for and nothing   *)
(* else, and the boot task saves nothing.                                    *)
THEOREM SavesAreNotLost == Spec => NoLostSave
  <1>1. IInv /\ [Next]_vars =>
          [\A i \in Iface : saved'[i] # saved[i] =>
             \E c \in Client : At(c, "save") /\ i \in DOMAIN tx[c].desired]_vars
    <2> SUFFICES ASSUME IInv, Next, NEW i \in Iface, saved'[i] # saved[i]
                 PROVE  \E c \in Client :
                          At(c, "save") /\ i \in DOMAIN tx[c].desired
      OBVIOUS
    <2> USE DEF IInv
    <2>1. PICK a \in Locker : Save(a)
      <3>1. ASSUME NEW a \in Locker, OwnerStep(a) PROVE Save(a)
        <4> a \in Actor  BY Actors
        <4>1. ~(ClearPid(a) \/ Release(a))  BY LockShape, Zenon
        <4> QED  BY <3>1, <4>1, ApplyShape, Zenon DEF OwnerStep
      <3>2. ASSUME NEW c \in Client, Send(c) \/ ClientStep(c)
            PROVE  OwnerStep(c)
        <4> c \in Locker  BY Actors
        <4>1. ~(Acquire(c) \/ StorePid(c))  BY LockShape
        <4> QED  BY <3>2, <4>1, ClientShape DEF ClientStep
      <3>3. BootTask => OwnerStep(Boot)
        <4>1. tx[Boot].op = "boot"  BY DEF SaveFresh
        <4> QED  BY <4>1, BootShape, Zenon DEF BootTask
      <3>4. ~MainLoop
        <4>1. Main \in Actor /\ Main \notin Locker  BY Actors
        <4>2. ApplyStep(Main) => saved' = saved
          BY DEF ApplyStep, PauseMonitor, apply_merged_state_once,
                 setup_monitor, ResumeMonitor
        <4> QED  BY <4>2, MainShape DEF MainLoop
      <3>5. ~\E j \in Iface : LinkEvent(j)  BY DEF LinkEvent
      <3> QED  BY <3>1, <3>2, <3>3, <3>4, <3>5, Actors DEF Next
    <2>2. pc[a] = "save" /\ tx[a].op = "apply" /\ saved' = tx[a].to_save
      BY <2>1 DEF Save, At, memory_only
    <2>3. Fresh(a)  BY <2>2, Zenon DEF SaveFresh, Holding
    <2>4. i \in DOMAIN tx[a].desired  BY <2>2, <2>3 DEF Fresh
    <2>5. a \in Client  BY <2>2 DEF SaveFresh, Locker
    <2> QED  BY <2>2, <2>4, <2>5 DEF At
  <1> QED  BY <1>1, Inductive, PTL DEF Spec, NoLostSave
==============================================================================
