--------------------------- MODULE RollbackProofs ---------------------------
(***************************************************************************)
(* That a rollback restores what a failed transaction changed, for any set *)
(* of clients and interfaces and any number of requests and link events.   *)
(***************************************************************************)
EXTENDS TransactionProofs

(* Rollback.  Up to its pause a transaction finds the kernel as it was at    *)
(* its start, except for what the event worker wrote; its attempts write     *)
(* what it desires, all of which the reverting state has as it was.          *)

Untouched(S) == \A i \in S : kernel[i] = entry[i] \/ i \in raced

Before == {"store", "begin", "boot", "query", "pause"}
Applying == {"apply", "verify", "rollback"}

Relies(a) ==
    \/ pc[a] \in Before \cup Applying
    \/ pc[a] \in {"resume", "finish"} /\ tx[a].rolled_back

Written(a) == IF pc[a] \in Applying THEN DOMAIN tx[a].desired ELSE {}

RevertSound(a) ==
    /\ DOMAIN tx[a].revert = DOMAIN tx[a].desired
    /\ \A i \in DOMAIN tx[a].revert : tx[a].revert[i] = entry[i] \/ i \in raced

Rely(a) ==
    /\ tx[a].rolled_back => pc[a] \in {"resume", "finish"}
    /\ Relies(a) => /\ entry \in [Iface -> Value]
                    /\ Untouched(Iface \ Written(a))
    /\ pc[a] \in Applying \cup {"pause"} => RevertSound(a)

(* The inductive invariant of rollback, on top of IInv.                      *)
Reverting == \A a \in Locker : Rely(a)

(* Only the owner of the lock relies on the state it entered with.           *)
LEMMA ReliesOwner ==
    ASSUME LockInv, NEW a \in Locker, Relies(a)
    PROVE  lock_holder = a
  <1>1. pc[a] \in Locked
    BY DEF Relies, Before, Applying, Locked, Paused
  <1> QED BY <1>1 DEF LockInv, MutualExclusion

(* What another actor may do to the kernel meanwhile.                        *)
Harmless ==
    /\ entry' = entry /\ raced \subseteq raced'
    /\ entry # Nothing =>
         \A i \in Iface : kernel'[i] = kernel[i] \/ i \in raced'

LEMMA RelyFrame ==
    ASSUME TypeOK, NEW a \in Locker, Rely(a), pc'[a] = pc[a], tx'[a] = tx[a],
           Relies(a) => Harmless
    PROVE  Rely(a)'
  <1>0. tx[a] \in Tx
    BY Actors DEF TypeOK
  <1>1. (tx[a].rolled_back => pc[a] \in {"resume", "finish"})'
    BY DEF Rely
  <1>2. Relies(a)' <=> Relies(a)
    BY DEF Relies
  <1>3. Written(a)' = Written(a)
    BY DEF Written
  <1>4. ASSUME Relies(a)
        PROVE  (entry \in [Iface -> Value])' /\ Untouched(Iface \ Written(a))'
    <2>1. entry \in [Iface -> Value] /\ Untouched(Iface \ Written(a)) /\ entry' = entry
      BY <1>4 DEF Rely, Harmless
    <2>2. CASE entry = Nothing
      <3>1. Iface = {}
        BY <2>1, <2>2 DEF Nothing
      <3> QED BY <2>1, <3>1 DEF Untouched
    <2>3. CASE entry # Nothing
      BY <1>3, <1>4, <2>1, <2>3 DEF Harmless, Untouched
    <2> QED BY <2>2, <2>3
  <1>5. ASSUME pc[a] \in Applying \cup {"pause"} PROVE RevertSound(a)'
    <2>1. Relies(a)
      BY <1>5 DEF Relies, Before
    <2>2. RevertSound(a)
      BY <1>5 DEF Rely
    <2> QED BY <2>1, <2>2 DEF RevertSound, Harmless
  <1> QED BY <1>1, <1>2, <1>4, <1>5 DEF Rely

(* A step of one actor leaves the others what they rely on: a lock owner     *)
(* because it owns the lock, the event worker because its writes are raced.  *)
LEMMA RelyOthers ==
    ASSUME IInv, NEW b \in Actor, NEW l, Moves(b, l), TxFrame(b),
           NEW a \in Locker, a # b, Rely(a),
           Harmless \/ (b \in Locker /\ lock_holder \in {None, b})
    PROVE  Rely(a)'
  <1>0. TypeOK /\ LockInv
    BY DEF IInv
  <1>1. a \in Actor /\ a # None
    BY Actors
  <1>2. pc'[a] = pc[a] /\ tx'[a] = tx[a]
    BY <1>0, <1>1 DEF Moves, TxFrame, TypeOK
  <1>3. Relies(a) => Harmless
    BY <1>0, <1>1, ReliesOwner
  <1> QED BY <1>0, <1>2, <1>3, RelyFrame

(* The writes of an apply.                                                   *)
LEMMA WriteEffect ==
    ASSUME TypeOK, NEW a \in Actor, NEW d, Write(a, d)
    PROVE  /\ entry' = entry
           /\ a # Main => raced' = raced
           /\ a = Main => Harmless
           /\ \A i \in Iface : kernel'[i] = IF i \in DOMAIN d THEN d[i] ELSE kernel[i]
  BY DEF Write, Update, Harmless, TypeOK

(* An actor that relies on nothing after its step.                           *)
LEMMA RelyNothing ==
    ASSUME NEW a, ~tx'[a].rolled_back,
           pc'[a] \notin Before \cup Applying
    PROVE  Rely(a)'
  BY DEF Rely, Relies, Before

(* The first steps of a transaction, and its query, write nothing.           *)
LEMMA RelyBefore ==
    ASSUME NEW a, Rely(a), pc[a] \in Before, pc'[a] \in Before,
           ~tx'[a].rolled_back, UNCHANGED <<kernel, entry, raced>>,
           pc'[a] = "pause" => RevertSound(a)'
    PROVE  Rely(a)'
  <1>1. entry \in [Iface -> Value] /\ Untouched(Iface)
    BY DEF Rely, Relies, Written, Before, Applying
  <1>2. (entry \in [Iface -> Value])' /\ Untouched(Iface)'
    BY <1>1 DEF Untouched
  <1>3. Written(a)' = {}
    BY DEF Written, Before, Applying
  <1>4. Untouched(Iface \ Written(a))'
    BY <1>2, <1>3 DEF Untouched
  <1>5. pc'[a] \notin Applying
    BY DEF Before, Applying
  <1> QED BY <1>2, <1>4, <1>5 DEF Rely

(* A new transaction, or none, was not rolled back.                          *)
LEMMA FreshTx ==
    ASSUME NEW a \in Actor, tx \in [Actor -> Tx], ~tx[a].rolled_back,
           tx' = tx \/ \E op, d : tx' = [tx EXCEPT ![a] = NewTx(op, d)]
    PROVE  ~tx'[a].rolled_back
  <1>1. CASE tx' = tx
    BY <1>1
  <1>2. ASSUME NEW op, NEW d, tx' = [tx EXCEPT ![a] = NewTx(op, d)]
        PROVE  ~tx'[a].rolled_back
    <2>1. tx'[a] = NewTx(op, d)
      BY <1>2
    <2>2. ~NewTx(op, d).rolled_back
      BY DEF NewTx
    <2> QED BY <2>1, <2>2
  <1> QED BY <1>1, <1>2

(* Requests of clients, apart from the lock.                                 *)
LEMMA ClientRely ==
    ASSUME TypeOK, NEW c \in Client, Rely(c),
           \/ Send(c) \/ check_up_interface(c)
           \/ BeginApply(c) \/ up_interface(c) \/ down_interface(c)
           \/ wifi_control(c) \/ wait_for_iface_action(c)
    PROVE  Rely(c)' /\ UNCHANGED <<kernel, entry, raced>>
  <1> USE DEF history
  <1>a. c \in Actor
    BY Actors
  <1>f. tx \in [Actor -> Tx] /\ tx[c] \in Tx /\ pc \in [Actor -> Label]
    BY <1>a DEF TypeOK
  <1>u. UNCHANGED <<kernel, entry, raced>>
    BY DEF Send, check_up_interface, BeginApply, up_interface, down_interface,
           wifi_control, wait_for_iface_action, Begin
  <1>1. CASE Send(c) \/ check_up_interface(c) \/ wait_for_iface_action(c)
    <2>1. pc[c] \in {"idle", "check", "await"} /\ pc'[c] \in {"idle", "check", "wait"}
      BY <1>1, <1>a, <1>f DEF Send, check_up_interface, wait_for_iface_action,
                              At, Goto, Answer
    <2>2. ~tx[c].rolled_back
      BY <2>1 DEF Rely
    <2>3. ~tx'[c].rolled_back
      <3>1. CASE Send(c)
        <4>1. \E op, d : tx' = [tx EXCEPT ![c] = NewTx(op, d)]
          BY <3>1, Zenon DEF Send
        <4> QED BY <1>a, <1>f, <2>2, <4>1, FreshTx, Zenon
      <3>2. CASE check_up_interface(c) \/ wait_for_iface_action(c)
        <4>1. tx' = tx \/ tx' = [tx EXCEPT ![c] = NewTx("boot", Nothing)]
          BY <3>2 DEF check_up_interface, wait_for_iface_action, Answer, NoTx
        <4> QED BY <1>a, <1>f, <2>2, <4>1, FreshTx
      <3> QED BY <1>1, <3>1, <3>2
    <2>4. pc'[c] \notin Before \cup Applying
      BY <2>1 DEF Before, Applying
    <2> QED BY <1>u, <2>3, <2>4, RelyNothing
  <1>2. CASE BeginApply(c) \/ up_interface(c) \/ down_interface(c) \/ wifi_control(c)
    <2>1. pc[c] = "begin" /\ pc'[c] \in {"query", "drop"}
      BY <1>2, <1>a, <1>f DEF BeginApply, up_interface, down_interface,
                              wifi_control, Begin, At, Goto, Fail
    <2>2. ~tx[c].rolled_back
      BY <2>1 DEF Rely
    <2>3. tx'[c].rolled_back = tx[c].rolled_back
      BY <1>2, <1>a, <1>f DEF BeginApply, up_interface, down_interface,
                              wifi_control, Begin, Fail, Tx
    <2>4. CASE pc'[c] = "query"
      <3>1. pc[c] \in Before /\ pc'[c] \in Before
        BY <2>1, <2>4 DEF Before
      <3> QED BY <1>u, <2>2, <2>3, <2>4, <3>1, RelyBefore
    <2>5. CASE pc'[c] = "drop"
      <3>1. pc'[c] \notin Before \cup Applying
        BY <2>5 DEF Before, Applying
      <3> QED BY <1>u, <2>2, <2>3, <3>1, RelyNothing
    <2> QED BY <2>1, <2>4, <2>5
  <1> QED BY <1>1, <1>2

(* The lock: a transaction begins with the kernel it finds.                  *)
LEMMA LockRely ==
    ASSUME TypeOK, NEW a \in Locker, Rely(a),
           \/ a \in Client /\ (Acquire(a) \/ StorePid(a))
           \/ ClearPid(a) \/ Release(a)
    PROVE  /\ Rely(a)'
           /\ \/ UNCHANGED <<kernel, entry, raced>>
              \/ lock_holder = None \/ pc[a] = "drop"
  <1> USE DEF history
  <1>a. a \in Actor
    BY Actors
  <1>f. tx \in [Actor -> Tx] /\ tx[a] \in Tx /\ pc \in [Actor -> Label]
    BY <1>a DEF TypeOK
  <1>1. CASE Acquire(a)
    <2>1. /\ pc[a] = "wait" /\ pc'[a] = "store" /\ tx' = tx
          /\ entry' = kernel /\ kernel' = kernel /\ lock_holder = None
      BY <1>1, <1>a, <1>f DEF Acquire, At, Goto
    <2>2. ~tx'[a].rolled_back
      BY <2>1 DEF Rely
    <2>3. (entry \in [Iface -> Value])' /\ Untouched(Iface \ Written(a))'
      BY <2>1 DEF TypeOK, Untouched
    <2>4. pc'[a] \notin Applying \cup {"pause"}
      BY <2>1 DEF Applying
    <2> QED BY <2>1, <2>2, <2>3, <2>4 DEF Rely
  <1>2. CASE StorePid(a)
    <2>1. /\ pc[a] \in Before /\ pc'[a] \in Before /\ pc'[a] # "pause" /\ tx' = tx
          /\ pc[a] = "store" /\ UNCHANGED <<kernel, entry, raced>>
      BY <1>2, <1>a, <1>f DEF StorePid, At, Goto, Before
    <2>2. ~tx'[a].rolled_back
      BY <2>1 DEF Rely
    <2> QED BY <2>1, <2>2, RelyBefore
  <1>3. CASE ClearPid(a) \/ Release(a)
    <2>1. pc[a] \in {"drop", "release"} /\ pc'[a] \in {"release", "await", "idle"}
      BY <1>3, <1>a, <1>f DEF ClearPid, Release, At, Goto, Answer
    <2>2. ~tx[a].rolled_back
      BY <2>1 DEF Rely
    <2>3. ~tx'[a].rolled_back
      <3>1. tx' = tx \/ tx' = [tx EXCEPT ![a] = NewTx("boot", Nothing)]
        BY <1>3 DEF ClearPid, Release, Answer, NoTx
      <3> QED BY <1>a, <1>f, <2>2, <3>1, FreshTx
    <2>4. pc'[a] \notin Before \cup Applying
      BY <2>1 DEF Before, Applying
    <2>5. pc[a] = "drop" \/ UNCHANGED <<kernel, entry, raced>>
      BY <1>3 DEF ClearPid, Release, At
    <2> QED BY <2>3, <2>4, <2>5, RelyNothing
  <1> QED BY <1>1, <1>2, <1>3

(* The boot task outside of its apply.                                       *)
LEMMA BootRely ==
    ASSUME TypeOK, Rely(Boot),
           \/ boot_apply_inner \/ setup_saved_state_monitors \/ StartMonitor
           \/ BootFailed \/ BootNotified
    PROVE  Rely(Boot)' /\ UNCHANGED <<kernel, entry, raced>>
  <1> USE DEF history
  <1>a. Boot \in Actor
    BY Actors
  <1>f. tx \in [Actor -> Tx] /\ tx[Boot] \in Tx /\ pc \in [Actor -> Label]
    BY <1>a DEF TypeOK
  <1>u. UNCHANGED <<kernel, entry, raced>>
    BY DEF boot_apply_inner, setup_saved_state_monitors, StartMonitor,
           BootFailed, BootNotified, BootStep
  <1>1. CASE boot_apply_inner
    <2>1. /\ pc[Boot] = "boot"
          /\ pc'[Boot] \in {"bootfail", "monitors", "query"}
      BY <1>1, <1>a, <1>f DEF boot_apply_inner, BootStep, At, Goto
    <2>2. ~tx[Boot].rolled_back
      BY <2>1 DEF Rely
    <2>3. ~tx'[Boot].rolled_back
      <3>1. tx' = tx \/ \E op, d : tx' = [tx EXCEPT ![Boot] = NewTx(op, d)]
        BY <1>1 DEF boot_apply_inner
      <3> QED BY <1>a, <1>f, <2>2, <3>1, FreshTx
    <2>4. CASE pc'[Boot] = "query"
      <3>1. pc[Boot] \in Before /\ pc'[Boot] \in Before
        BY <2>1, <2>4 DEF Before
      <3> QED BY <1>u, <2>3, <2>4, <3>1, RelyBefore
    <2>5. CASE pc'[Boot] # "query"
      <3>1. pc'[Boot] \notin Before \cup Applying
        BY <2>1, <2>5 DEF Before, Applying
      <3> QED BY <1>u, <2>3, <3>1, RelyNothing
    <2> QED BY <2>4, <2>5
  <1>2. CASE setup_saved_state_monitors \/ StartMonitor \/ BootFailed \/ BootNotified
    <2>1. /\ pc[Boot] \in {"monitors", "start", "bootfail", "notified"}
          /\ pc'[Boot] \in {"start", "bootfail", "notified", "drop"}
          /\ tx' = tx
      BY <1>2, <1>a, <1>f DEF setup_saved_state_monitors, StartMonitor,
                 BootFailed, BootNotified, BootStep, At, Goto
    <2>2. ~tx'[Boot].rolled_back
      BY <2>1 DEF Rely
    <2>3. pc'[Boot] \notin Before \cup Applying
      BY <2>1 DEF Before, Applying
    <2> QED BY <1>u, <2>2, <2>3, RelyNothing
  <1> QED BY <1>1, <1>2

(* A failed attempt keeps the transaction and its reverting state.           *)
LEMMA AttemptFailsKeeps ==
    ASSUME TypeOK, NEW a \in Locker, AttemptFails(a)
    PROVE  /\ tx'[a].desired = tx[a].desired /\ tx'[a].revert = tx[a].revert
           /\ tx'[a].rolled_back = tx[a].rolled_back
           /\ pc'[a] \in {"apply", "rollback"}
  <1>a. a \in Actor /\ a # Main
    BY Actors
  <1>f. tx \in [Actor -> Tx] /\ tx[a] \in Tx /\ pc \in [Actor -> Label]
    BY <1>a DEF TypeOK
  <1>1. CASE /\ tx' = [tx EXCEPT ![a].attempt = @ + 1]
             /\ Goto(a, "apply")
    BY <1>1, <1>a, <1>f DEF Goto, Tx
  <1>2. CASE /\ tx' = [tx EXCEPT ![a].err = TRUE, ![a].attempt = 1]
             /\ Goto(a, IF a = Main THEN "resume" ELSE "rollback")
    BY <1>2, <1>a, <1>f DEF Goto, Tx
  <1> QED BY <1>1, <1>2, Zenon DEF AttemptFails

(* An attempt, or its verification, by a lock owner.                         *)
LEMMA AttemptRely ==
    ASSUME TypeOK, NEW a \in Locker, Rely(a),
           apply_merged_state_once(a) \/ verify(a)
    PROVE  Rely(a)'
  <1>a. a \in Actor /\ a # Main
    BY Actors
  <1>f. /\ tx \in [Actor -> Tx] /\ tx[a] \in Tx /\ pc \in [Actor -> Label]
        /\ tx[a].desired \in Partial
    BY <1>a DEF TypeOK, Tx
  <1>1. pc[a] \in {"apply", "verify"}
    BY DEF apply_merged_state_once, verify, At
  <1>2. /\ ~tx[a].rolled_back /\ RevertSound(a) /\ entry \in [Iface -> Value]
        /\ Untouched(Iface \ DOMAIN tx[a].desired)
    BY <1>1 DEF Rely, Relies, Written, Applying
  <1>3. /\ entry' = entry /\ raced' = raced
        /\ \A i \in Iface \ DOMAIN tx[a].desired : kernel'[i] = kernel[i]
    <2>1. CASE verify(a)
      BY <2>1 DEF verify, history
    <2>2. CASE apply_merged_state_once(a)
      <3>1. CASE Write(a, tx[a].desired)
        BY <1>a, <3>1, WriteEffect
      <3>2. ASSUME NEW S \in SUBSET DOMAIN tx[a].desired,
                   Write(a, Part(tx[a].desired, S))
            PROVE  /\ entry' = entry /\ raced' = raced
                   /\ \A i \in Iface \ DOMAIN tx[a].desired : kernel'[i] = kernel[i]
        <4>1. DOMAIN Part(tx[a].desired, S) = S
          BY DEF Part
        <4> QED BY <1>a, <3>2, <4>1, WriteEffect
      <3> QED BY <2>2, <3>1, <3>2 DEF apply_merged_state_once
    <2> QED BY <2>1, <2>2
  <1>4. /\ tx'[a].desired = tx[a].desired /\ tx'[a].revert = tx[a].revert
        /\ tx'[a].rolled_back = tx[a].rolled_back
        /\ pc'[a] \in {"apply", "verify", "rollback", "save"}
    <2>1. CASE AttemptFails(a)
      BY <2>1, AttemptFailsKeeps
    <2>2. CASE UNCHANGED tx /\ \E l \in {"save", "verify"} : Goto(a, l)
      BY <1>a, <1>f, <2>2 DEF Goto
    <2> QED BY <1>a, <2>1, <2>2 DEF apply_merged_state_once, verify, Applied
  <1>5. Untouched(Iface \ DOMAIN tx[a].desired)'
    BY <1>2, <1>3, <1>4 DEF Untouched
  <1>6. CASE pc'[a] = "save"
    BY <1>2, <1>4, <1>6, RelyNothing DEF Before, Applying
  <1>7. CASE pc'[a] # "save"
    <2>1. Written(a)' = (DOMAIN tx[a].desired)'
      BY <1>4, <1>7 DEF Written, Applying
    <2>2. RevertSound(a)'
      BY <1>2, <1>3, <1>4 DEF RevertSound
    <2>3. Untouched(Iface \ Written(a))'
      BY <1>5, <2>1 DEF Untouched
    <2> QED BY <1>2, <1>3, <1>4, <2>2, <2>3 DEF Rely
  <1> QED BY <1>6, <1>7

(* The reverting state puts back all that the attempts may have written.     *)
LEMMA RollbackRely ==
    ASSUME TypeOK, NEW a \in Locker, Rely(a), rollback(a)
    PROVE  Rely(a)'
  <1>a. a \in Actor /\ a # Main
    BY Actors
  <1>f. tx \in [Actor -> Tx] /\ tx[a] \in Tx /\ pc \in [Actor -> Label]
    BY <1>a DEF TypeOK, Tx
  <1>1. pc[a] = "rollback" /\ pc'[a] = "resume"
    BY <1>a, <1>f DEF rollback, At, Goto
  <1>2. /\ ~tx[a].rolled_back /\ RevertSound(a) /\ entry \in [Iface -> Value]
        /\ Untouched(Iface \ DOMAIN tx[a].desired)
    BY <1>1 DEF Rely, Relies, Written, Applying
  <1>3. CASE Write(a, tx[a].revert)
    <2>1. /\ entry' = entry /\ raced' = raced
          /\ \A i \in Iface : kernel'[i] = IF i \in DOMAIN tx[a].revert
                                           THEN tx[a].revert[i] ELSE kernel[i]
      BY <1>a, <1>3, WriteEffect
    <2>2. Untouched(Iface)'
      BY <1>2, <2>1 DEF Untouched, RevertSound
    <2>3. Untouched(Iface \ Written(a))'
      BY <2>2 DEF Untouched
    <2>4. pc'[a] \notin Applying \cup {"pause"}
      BY <1>1 DEF Applying
    <2> QED BY <1>1, <1>2, <2>1, <2>3, <2>4 DEF Rely
  <1>4. CASE UNCHANGED tx
    <2>1. pc'[a] \notin Before \cup Applying
      BY <1>1 DEF Before, Applying
    <2> QED BY <1>2, <1>4, <2>1, RelyNothing
  <1> QED BY <1>3, <1>4 DEF rollback

(* The other steps of an apply by a lock owner.                              *)
LEMMA QuietRely ==
    ASSUME TypeOK, NEW a \in Locker, Rely(a),
           \/ Query(a) \/ PauseMonitor(a) \/ Save(a) \/ setup_monitor(a)
           \/ ResumeMonitor(a) \/ Finish(a)
    PROVE  Rely(a)' /\ UNCHANGED <<kernel, entry, raced>>
  <1> USE DEF history
  <1>a. a \in Actor /\ a # Main
    BY Actors
  <1>f. /\ tx \in [Actor -> Tx] /\ tx[a] \in Tx /\ pc \in [Actor -> Label]
        /\ DOMAIN tx[a].desired \subseteq Iface
    BY <1>a, PartialElim DEF TypeOK, Tx
  <1>u. UNCHANGED <<kernel, entry, raced>>
    BY DEF Query, PauseMonitor, Save, setup_monitor, ResumeMonitor, Finish
  <1>1. CASE Query(a)
    <2>1. pc[a] = "query" /\ pc[a] \in Before
      BY <1>1 DEF Query, At, Before
    <2>2. ~tx[a].rolled_back /\ entry \in [Iface -> Value] /\ Untouched(Iface)
      BY <2>1 DEF Rely, Relies, Written, Before, Applying
    <2>3. CASE Fail(a, "finish")
      <3>1. pc'[a] = "finish" /\ tx'[a].rolled_back = tx[a].rolled_back
        BY <1>a, <1>f, <2>3 DEF Fail, Goto, Tx
      <3>2. pc'[a] \notin Before \cup Applying
        BY <3>1 DEF Before, Applying
      <3> QED BY <1>u, <2>2, <3>1, <3>2, RelyNothing
    <2>4. CASE /\ tx' = [tx EXCEPT
                          ![a].revert = Part(kernel, DOMAIN tx[a].desired),
                          ![a].to_save = Update(saved, tx[a].desired)]
               /\ Goto(a, "pause")
      <3>1. /\ pc'[a] = "pause" /\ tx'[a].rolled_back = tx[a].rolled_back
            /\ tx'[a].desired = tx[a].desired
            /\ tx'[a].revert = Part(kernel, DOMAIN tx[a].desired)
        BY <1>a, <1>f, <2>4 DEF Goto, Tx
      <3>2. RevertSound(a)'
        BY <1>f, <1>u, <2>2, <3>1 DEF RevertSound, Part, Untouched
      <3>3. pc'[a] \in Before
        BY <3>1 DEF Before
      <3> QED BY <1>u, <2>1, <2>2, <3>1, <3>2, <3>3, RelyBefore
    <2> QED BY <1>1, <2>3, <2>4 DEF Query
  <1>2. CASE PauseMonitor(a)
    <2>1. pc[a] = "pause" /\ pc'[a] = "apply" /\ tx' = tx
      BY <1>2, <1>a, <1>f DEF PauseMonitor, At, Goto
    <2>2. /\ ~tx[a].rolled_back /\ RevertSound(a) /\ entry \in [Iface -> Value]
          /\ Untouched(Iface)
      BY <2>1 DEF Rely, Relies, Written, Before, Applying
    <2>3. Untouched(Iface \ Written(a))' /\ RevertSound(a)'
      BY <1>u, <2>1, <2>2 DEF Untouched, RevertSound
    <2> QED BY <1>u, <2>1, <2>2, <2>3 DEF Rely
  <1>3. CASE Save(a) \/ setup_monitor(a)
    <2>1. pc[a] \in {"save", "setup"} /\ pc'[a] \in {"setup", "resume"}
      BY <1>3, <1>a, <1>f DEF Save, setup_monitor, At, Goto, Fail
    <2>2. ~tx[a].rolled_back
      BY <2>1 DEF Rely
    <2>3. tx'[a].rolled_back = tx[a].rolled_back
      BY <1>3, <1>a, <1>f DEF Save, setup_monitor, Fail, Tx
    <2>4. pc'[a] \notin Before \cup Applying
      BY <2>1 DEF Before, Applying
    <2> QED BY <1>u, <2>2, <2>3, <2>4, RelyNothing
  <1>4. CASE ResumeMonitor(a)
    <2>1. pc[a] = "resume" /\ pc'[a] = "finish"
      BY <1>4, <1>a, <1>f DEF ResumeMonitor, At, Goto, Fail
    <2>2. tx'[a].rolled_back = tx[a].rolled_back
      BY <1>4, <1>a, <1>f DEF ResumeMonitor, Fail, Tx
    <2>3. Relies(a)' <=> Relies(a)
      BY <2>1, <2>2 DEF Relies, Before, Applying
    <2>4. Written(a) = {} /\ Written(a)' = {}
      BY <2>1 DEF Written, Applying
    <2>5. Relies(a) => entry \in [Iface -> Value] /\ Untouched(Iface \ Written(a))
      BY Zenon DEF Rely
    <2>6. Relies(a) => (entry \in [Iface -> Value])' /\ Untouched(Iface \ Written(a))'
      BY <1>u, <2>4, <2>5 DEF Untouched
    <2>7. pc'[a] \notin Applying \cup {"pause"}
      BY <2>1 DEF Applying
    <2> QED BY <1>u, <2>1, <2>3, <2>6, <2>7 DEF Rely
  <1>5. CASE Finish(a)
    <2>1. pc'[a] \in {"monitors", "drop"}
      BY <1>5, <1>a, <1>f DEF Finish, Goto
    <2>2. ~tx'[a].rolled_back
      BY <1>5, <1>a, <1>f DEF Finish, NewTx
    <2>3. pc'[a] \notin Before \cup Applying
      BY <2>1 DEF Before, Applying
    <2> QED BY <1>u, <2>2, <2>3, RelyNothing
  <1> QED BY <1>1, <1>2, <1>3, <1>4, <1>5

(* Every step keeps it.                                                      *)
LEMMA RevertingStep ==
    ASSUME IInv, Reverting, [Next]_vars
    PROVE  Reverting'
  <1>0. TypeOK /\ LockInv /\ BootFirst /\ tx[Boot].op = "boot"
    BY DEF IInv, SaveFresh
  <1>r. ASSUME NEW a \in Locker PROVE Rely(a) /\ a \in Actor /\ a # Main
    BY <1>r, Actors DEF Reverting
  <1>s. ASSUME NEW b \in Locker, NEW l, Moves(b, l), TxFrame(b), Rely(b)',
               \/ UNCHANGED <<kernel, entry, raced>>
               \/ lock_holder \in {None, b}
        PROVE  Reverting'
    <2>1. Harmless \/ lock_holder \in {None, b}
      BY <1>s DEF Harmless
    <2>2. ASSUME NEW a \in Locker, a # b PROVE Rely(a)'
      <3>1. Rely(a) /\ b \in Actor
        BY <1>r
      <3> QED BY <1>s, <2>1, <2>2, <3>1, RelyOthers
    <2> QED BY <1>s, <2>2 DEF Reverting
  <1>k. ASSUME NEW b \in Locker, pc[b] \in Locked PROVE lock_holder = b
    BY <1>0, <1>k DEF LockInv, MutualExclusion
  <1>1. ASSUME NEW a \in Locker, OwnerStep(a) PROVE Reverting'
    <2>1. CASE ClearPid(a) \/ Release(a)
      <3>1. \E l \in Label : Moves(a, l)
        BY <1>0, <2>1, LockShape
      <3>2. TxFrame(a) /\ pc[a] \in {"drop", "release"}
        BY <1>0, <2>1, LockShape, Zenon DEF ClearPid, Release, At
      <3>3. Rely(a)'
        BY <1>0, <1>r, <2>1, LockRely
      <3>4. lock_holder = a
        BY <1>k, <3>2 DEF Locked
      <3> QED BY <1>s, <3>1, <3>2, <3>3, <3>4
    <2>2. CASE \/ Query(a) \/ ApplyStep(a) \/ verify(a) \/ rollback(a)
               \/ Save(a) \/ Finish(a)
      <3>1. (\E l \in Label : Moves(a, l)) /\ TxFrame(a)
        BY <1>0, <1>r, <2>2, ApplyShape DEF StaysPut
      <3>2. Rely(a)'
        BY <1>0, <1>r, <2>2, AttemptRely, RollbackRely, QuietRely, Zenon DEF ApplyStep
      <3>3. pc[a] \in Locked
        BY <2>2 DEF Query, ApplyStep, PauseMonitor, apply_merged_state_once,
                    verify, rollback, Save, setup_monitor, ResumeMonitor,
                    Finish, At, Locked, Paused
      <3>4. lock_holder = a
        BY <1>k, <3>3
      <3> QED BY <1>s, <3>1, <3>2, <3>4
    <2> QED BY <1>1, <2>1, <2>2 DEF OwnerStep
  <1>2. ASSUME NEW c \in Client, Send(c) \/ ClientStep(c) PROVE Reverting'
    <2>0. c \in Locker
      BY Actors
    <2>1. CASE \/ Send(c) \/ check_up_interface(c)
               \/ BeginApply(c) \/ up_interface(c) \/ down_interface(c)
               \/ wifi_control(c) \/ wait_for_iface_action(c)
      <3>1. (\E l \in Label : Moves(c, l)) /\ TxFrame(c)
        BY <1>0, <2>1, ClientShape DEF StaysPut
      <3>2. Rely(c)' /\ UNCHANGED <<kernel, entry, raced>>
        BY <1>0, <1>r, <2>0, <2>1, ClientRely, Zenon
      <3> QED BY <1>s, <2>0, <3>1, <3>2
    <2>2. CASE Acquire(c) \/ StorePid(c)
      <3>1. (\E l \in Label : Moves(c, l)) /\ TxFrame(c)
        BY <1>0, <2>0, <2>2, LockShape
      <3>2. Rely(c)'
        BY <1>0, <1>r, <2>0, <2>2, LockRely
      <3>3. lock_holder = None \/ UNCHANGED <<kernel, entry, raced>>
        BY <2>2 DEF Acquire, StorePid, history
      <3> QED BY <1>s, <2>0, <3>1, <3>2, <3>3
    <2> QED BY <1>1, <1>2, <2>0, <2>1, <2>2 DEF ClientStep
  <1>3. CASE BootTask
    <2>0. Boot \in Locker
      BY Actors
    <2>1. CASE \/ boot_apply_inner \/ setup_saved_state_monitors \/ StartMonitor
               \/ BootFailed \/ BootNotified
      <3>1. (\E l \in Label : Moves(Boot, l)) /\ TxFrame(Boot)
        BY <1>0, <2>1, BootShape DEF StaysPut
      <3>2. Rely(Boot)' /\ UNCHANGED <<kernel, entry, raced>>
        BY <1>0, <1>r, <2>0, <2>1, BootRely
      <3> QED BY <1>s, <2>0, <3>1, <3>2
    <2> QED BY <1>1, <1>3, <2>0, <2>1 DEF BootTask
  <1>4. CASE MainLoop
    <2>0. Main \in Actor /\ Main \notin Locker
      BY Actors
    <2>1. (\E l \in Label : Moves(Main, l)) /\ TxFrame(Main)
      <3>1. CASE ApplyStep(Main)
        BY <1>0, <2>0, <3>1, ApplyShape DEF StaysPut
      <3>2. CASE handle_events \/ handle_manager_cmd
        BY <1>0, <3>2, MainShape DEF StaysPut
      <3> QED BY <1>4, <3>1, <3>2 DEF MainLoop
    <2>2. Harmless
      <3>1. CASE apply_merged_state_once(Main)
        <4>1. CASE Write(Main, tx[Main].desired)
          BY <1>0, <2>0, <4>1, WriteEffect
        <4>2. ASSUME NEW S \in SUBSET DOMAIN tx[Main].desired,
                     Write(Main, Part(tx[Main].desired, S))
              PROVE  Harmless
          BY <1>0, <2>0, <4>2, WriteEffect
        <4> QED BY <3>1, <4>1, <4>2 DEF apply_merged_state_once
      <3>2. CASE UNCHANGED <<kernel, entry, raced>>
        BY <3>2 DEF Harmless
      <3> QED BY <1>4, <3>1, <3>2 DEF MainLoop, ApplyStep, handle_events,
                 handle_manager_cmd, PauseMonitor, setup_monitor,
                 ResumeMonitor, history
    <2>3. ASSUME NEW a \in Locker PROVE Rely(a)'
      <3>1. Rely(a) /\ a # Main
        BY <1>r
      <3>2. PICK l \in Label : Moves(Main, l)
        BY <2>1
      <3> QED BY <2>0, <2>1, <2>2, <3>1, <3>2, RelyOthers
    <2> QED BY <2>3 DEF Reverting
  <1>5. ASSUME UNCHANGED <<pc, tx, kernel, entry, raced>> PROVE Reverting'
    BY <1>5 DEF Reverting, Rely, Relies, Written, Untouched, RevertSound
  <1>6. ASSUME NEW i \in Iface, LinkEvent(i) PROVE Reverting'
    BY <1>5, <1>6 DEF LinkEvent, history
  <1>7. CASE UNCHANGED vars
    BY <1>5, <1>7 DEF vars
  <1> QED BY <1>2, <1>3, <1>4, <1>6, <1>7 DEF Next

LEMMA RevertingInit == Init => Reverting
  <1> SUFFICES ASSUME Init, NEW a \in Locker PROVE Rely(a)
    BY DEF Reverting
  <1>1. a \in Actor
    BY Actors
  <1>2. /\ pc[a] \in {"boot", "idle"} /\ ~tx[a].rolled_back
        /\ entry = kernel /\ kernel \in [Iface -> Value]
    BY <1>1 DEF Init, NoTx, NewTx, Value
  <1> QED BY <1>2 DEF Rely, Untouched, Applying

(* rollback in apply.rs: once it went through, the kernel is as the owner of *)
(* the lock found it, apart from what the event worker wrote meanwhile,      *)
(* whichever attempt failed and however much of it had been written.         *)
THEOREM RollbacksRestore == Spec => []RollbackRestores
  <1>1. Reverting => RollbackRestores
    BY DEF Reverting, Rely, Relies, Written, Untouched, RollbackRestores, Applying
  <1>2. IInv /\ Reverting /\ [Next]_vars => Reverting'
    BY RevertingStep
  <1> QED BY <1>1, <1>2, RevertingInit, Inductive, PTL DEF Spec
=============================================================================
