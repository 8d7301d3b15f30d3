----------------------------- MODULE NetworkProofs -----------------------------
(***************************************************************************)
(* The online latch and the waits for it, for any number of clients, any   *)
(* configurations and timeouts and any changes of the default routes;      *)
(* the views of the state, for any NICs and saved profiles; the VLANs of a *)
(* bridge, for any sections; and the saved addresses of an interface, for  *)
(* any requests, leases and faults.                                        *)
(***************************************************************************)
EXTENDS Online, Views, BridgeVlan, Addressing, WellFoundedInduction, TLAPS

Wait == [pc : {"none", "wait", "online", "timeout"}, cfg : Configs \cup {None},
         since : Nat, retry : Nat, wake : Nat]

Watched == {cfg.conditions : cfg \in Configs}

Shape ==
    /\ saved \in Configs /\ online \in BOOLEAN
    /\ now \in Nat
    /\ wait \in [Client -> Wait]
    /\ \A c \in Client : wait[c].pc # "none" => wait[c].cfg \in Configs
    /\ metSince \in [Watched -> Nat \cup {None}]

(* What the history variable records.                                        *)
Recorded ==
    \A S \in Watched :
        /\ metSince[S] # None <=> AllMet(S, gateway)
        /\ metSince[S] # None => metSince[S] <= now

(* The start of the stretch of time in which both the wait of c and its      *)
(* conditions last.                                                          *)
Met(c) == metSince[wait[c].cfg.conditions] # None
From(c) == Most(metSince[wait[c].cfg.conditions], wait[c].since)

(* A waiter polls at most MAX_RETRY_WAIT seconds after the last poll, and no *)
(* second ends before the one that is due.  While the latch is open, no poll *)
(* was made since the conditions are met; the poll that closes it is the     *)
(* last one.                                                                 *)
OnTime ==
    \A c \in Client :
        /\ Waiting(c) =>
             /\ wait[c].since <= now /\ now <= wait[c].wake /\ now <= Deadline(c)
             /\ wait[c].wake <= now + MAX_RETRY_WAIT
             /\ Met(c) => wait[c].wake <= From(c) + (IF online THEN 2 ELSE 1) * MAX_RETRY_WAIT
        /\ wait[c].pc = "timeout" =>
             /\ Deadline(c) <= now
             /\ Met(c) => Deadline(c) <= From(c) + 2 * MAX_RETRY_WAIT

IInv == Shape /\ Recorded /\ OnTime

-----------------------------------------------------------------------------
(* next_retry_wait(): at least one second and never more than two, or what   *)
(* is left of the budget.                                                    *)
LEMMA RetryWait ==
    ASSUME NEW r \in Nat, NEW budget \in Nat, NEW elapsed \in Nat, elapsed < budget
    PROVE  /\ next_retry_wait(r, budget, elapsed) \in 1..MAX_RETRY_WAIT
           /\ next_retry_wait(r, budget, elapsed) <= budget - elapsed
<1>1. MAX_RETRY_WAIT = 2 /\ MAX_RETRY_WAIT \div 2 = 1
  BY DEF MAX_RETRY_WAIT
<1> QED
  BY <1>1 DEF next_retry_wait, Least, Most, Pow2

LEMMA InitInv == ASSUME OnlineAssumption, Init PROVE IInv
<1>1. Shape
  BY Zenon DEF Init, Shape, Wait, NoWait, Watched
<1>2. Recorded
  BY DEF OnlineAssumption, Init, Recorded, Watched
<1>3. OnTime
  BY DEF Init, OnTime, NoWait, Waiting
<1> QED
  BY <1>1, <1>2, <1>3 DEF IInv

(* A step that moves only the waits keeps the record.                        *)
LEMMA RecordKept ==
    ASSUME Recorded, UNCHANGED <<gateway, metSince>>, now' \in {now, now + 1}, now \in Nat,
           metSince \in [Watched -> Nat \cup {None}], OnlineAssumption
    PROVE  Recorded'
<1> SUFFICES ASSUME NEW S \in Watched
             PROVE  /\ metSince'[S] # None <=> AllMet(S, gateway)'
                    /\ metSince'[S] # None => metSince'[S] <= now'
  BY DEF Recorded
<1>1. AllMet(S, gateway)' <=> AllMet(S, gateway)
  BY DEF AllMet, is_met, route_iface_link_usable, route_matches, Family
<1> QED
  BY <1>1 DEF Recorded, OnlineAssumption

(* What OnTime says of one client.                                           *)
InTime(c) ==
    /\ Waiting(c) =>
         /\ wait[c].since <= now /\ now <= wait[c].wake /\ now <= Deadline(c)
         /\ wait[c].wake <= now + MAX_RETRY_WAIT
         /\ Met(c) => wait[c].wake <= From(c) + (IF online THEN 2 ELSE 1) * MAX_RETRY_WAIT
    /\ wait[c].pc = "timeout" =>
         /\ Deadline(c) <= now
         /\ Met(c) => Deadline(c) <= From(c) + 2 * MAX_RETRY_WAIT

(* The numbers of a wait that was started.                                   *)
LEMMA Numbers ==
    ASSUME OnlineAssumption, Shape, NEW c \in Client, wait[c].pc # "none"
    PROVE  /\ wait[c].cfg \in Configs /\ wait[c].cfg.conditions \in Watched
           /\ wait[c].since \in Nat /\ wait[c].wake \in Nat /\ wait[c].retry \in Nat
           /\ wait[c].cfg.timeout_sec \in Nat /\ Deadline(c) \in Nat
           /\ metSince[wait[c].cfg.conditions] \in Nat \cup {None}
           /\ Met(c) => From(c) \in Nat /\ wait[c].since <= From(c)
           /\ Met(c) => metSince[wait[c].cfg.conditions] <= From(c)
<1>1. wait[c] \in Wait /\ wait[c].cfg \in Configs
  BY DEF Shape
<1>2. wait[c].cfg.conditions \in Watched /\ wait[c].cfg.timeout_sec \in Nat
  BY <1>1 DEF Watched, OnlineAssumption
<1>3. metSince[wait[c].cfg.conditions] \in Nat \cup {None}
  BY <1>2 DEF Shape
<1>4. wait[c].since \in Nat /\ wait[c].wake \in Nat /\ wait[c].retry \in Nat
  BY <1>1 DEF Wait
<1>5. Met(c) => metSince[wait[c].cfg.conditions] \in Nat
  BY <1>3 DEF Met
<1> QED
  BY <1>1, <1>2, <1>3, <1>4, <1>5 DEF Deadline, Met, From, Most

(* A client whose wait, and what it depends on, stays as it is; the latch    *)
(* may close.                                                                *)
LEMMA OtherInTime ==
    ASSUME OnlineAssumption, Shape, NEW c \in Client, InTime(c), wait'[c] = wait[c],
           UNCHANGED <<now, metSince>>, online' \in BOOLEAN, online => online'
    PROVE  InTime(c)'
<1>1. CASE wait[c].pc = "none"
  BY <1>1 DEF InTime, Waiting
<1>2. CASE wait[c].pc # "none"
  <2>1. /\ Met(c)' <=> Met(c)
        /\ From(c)' = From(c) /\ Deadline(c)' = Deadline(c)
        /\ Waiting(c)' <=> Waiting(c)
    BY DEF Met, From, Deadline, Waiting
  <2>2. Met(c) => From(c) \in Nat
    BY <1>2, Numbers
  <2>3. wait[c].wake \in Nat
    BY <1>2, Numbers
  <2> QED
    BY <2>1, <2>2, <2>3 DEF InTime, Shape, MAX_RETRY_WAIT
<1> QED
  BY <1>1, <1>2

LEMMA OnTimeIsInTime == OnTime <=> \A c \in Client : InTime(c)
  BY DEF OnTime, InTime

(* Steps of one waiter.                                                      *)
LEMMA WaiterStep ==
    ASSUME OnlineAssumption, IInv, NEW c \in Client,
           StartWait(c) \/ Poll(c) \/ FinishWait(c) \/ Timeout(c)
    PROVE  IInv'
<1> USE DEF MAX_RETRY_WAIT
<1>0. /\ Shape /\ Recorded /\ \A d \in Client : InTime(d)
      /\ wait \in [Client -> Wait] /\ now \in Nat /\ online \in BOOLEAN /\ saved \in Configs
      /\ metSince \in [Watched -> Nat \cup {None}]
  BY OnTimeIsInTime DEF IInv, Shape
<1>1. UNCHANGED <<saved, gateway, now, metSince>>
  BY DEF StartWait, Poll, FinishWait, Timeout
<1>2. Recorded'
  BY <1>0, <1>1, RecordKept
<1>3. /\ online' \in BOOLEAN /\ (online => online')
      /\ \A d \in Client : d # c => wait'[d] = wait[d]
  BY <1>0, Zenon DEF StartWait, Poll, FinishWait, Timeout, Latched, AllMet
<1>4. SUFFICES /\ wait' \in [Client -> Wait]
               /\ wait'[c].cfg \in Configs
               /\ InTime(c)'
  <2>1. \A d \in Client : d # c => InTime(d)'
    BY <1>0, <1>1, <1>3, OtherInTime
  <2>2. OnTime' <=> \A d \in Client : InTime(d)'
    BY DEF OnTime, InTime
  <2>3. Shape'
    BY <1>0, <1>1, <1>3, <1>4 DEF Shape
  <2> QED
    BY <1>2, <1>4, <2>1, <2>2, <2>3 DEF IInv
<1>5. CASE StartWait(c)
  <2>1. wait'[c] = [pc |-> "wait", cfg |-> saved, since |-> now, retry |-> 0, wake |-> now]
    BY <1>0, <1>5 DEF StartWait
  <2>2. wait' \in [Client -> Wait] /\ wait'[c].cfg \in Configs
    BY <1>0, <1>5, <2>1 DEF StartWait, Wait
  <2>3. saved.conditions \in Watched /\ saved.timeout_sec \in Nat
    BY <1>0 DEF Watched, OnlineAssumption
  <2>4. metSince'[saved.conditions] \in Nat \cup {None}
    BY <1>0, <1>1, <2>3
  <2>5. Met(c)' => From(c)' \in Nat /\ now <= From(c)'
    BY <1>0, <2>1, <2>4 DEF Met, From, Most
  <2>6. Deadline(c)' \in Nat /\ now <= Deadline(c)'
    BY <1>0, <2>1, <2>3 DEF Deadline
  <2>7. InTime(c)'
    BY <1>0, <1>1, <1>3, <2>1, <2>5, <2>6 DEF InTime
  <2> QED
    BY <2>2, <2>7
<1>6. CASE Poll(c)
  <2>1. Waiting(c) /\ InTime(c) /\ ~online /\ wait[c].wake <= now /\ now < Deadline(c)
    BY <1>0, <1>6 DEF Poll
  <2>2. wait[c].pc = "wait" /\ wait[c] \in Wait
    BY <1>0, <2>1 DEF Waiting
  <2> DEFINE w == next_retry_wait(wait[c].retry, wait[c].cfg.timeout_sec, now - wait[c].since)
  <2>3. /\ wait[c].cfg \in Configs /\ wait[c].since \in Nat /\ wait[c].wake \in Nat
        /\ wait[c].retry \in Nat /\ wait[c].cfg.timeout_sec \in Nat /\ Deadline(c) \in Nat
        /\ Met(c) => From(c) \in Nat
        /\ wait[c].cfg.conditions \in Watched
    BY <1>0, <2>2, Numbers
  <2>4. /\ wait[c].since <= now /\ now <= wait[c].wake
        /\ Met(c) => wait[c].wake <= From(c) + 2
    BY <2>1, <2>3 DEF InTime
  <2>5. w \in 1..MAX_RETRY_WAIT /\ w <= wait[c].cfg.timeout_sec - (now - wait[c].since)
    <3>1. now - wait[c].since \in Nat /\ now - wait[c].since < wait[c].cfg.timeout_sec
      BY <1>0, <2>1, <2>3, <2>4 DEF Deadline
    <3> QED
      BY <3>1, <2>3, RetryWait
  <2>6. wait'[c] = [wait[c] EXCEPT !.retry = @ + 1, !.wake = now + w]
    BY <1>0, <1>6 DEF Poll
  <2> HIDE DEF w
  <2>7. now + w \in Nat /\ wait[c].retry + 1 \in Nat
    BY <1>0, <2>3, <2>5
  <2>8. /\ wait'[c].pc = "wait" /\ wait'[c].cfg = wait[c].cfg
        /\ wait'[c].since = wait[c].since /\ wait'[c].wake = now + w
        /\ wait'[c] \in Wait
    BY <2>2, <2>6, <2>7, Zenon DEF Wait
  <2>9. wait' \in [Client -> Wait]
    BY <1>0, <1>6, <2>8 DEF Poll
  <2>10. /\ Met(c)' <=> Met(c)
         /\ From(c)' = From(c) /\ Deadline(c)' = Deadline(c) /\ Waiting(c)'
    BY <1>1, <2>8 DEF Met, From, Deadline, Waiting
  <2>11. Met(c) => online'
    BY <1>0, <1>6, <2>3, Zenon DEF Poll, Latched, Recorded, Met
  <2>12. Met(c) => now + w <= From(c) + 2 * MAX_RETRY_WAIT
    BY <1>0, <2>3, <2>4, <2>5
  <2>13. InTime(c)'
    BY <1>0, <1>1, <2>1, <2>3, <2>4, <2>5, <2>8, <2>10, <2>11, <2>12 DEF InTime
  <2> QED
    BY <2>3, <2>8, <2>9, <2>13
<1>7. CASE FinishWait(c) \/ Timeout(c)
  <2>1. Waiting(c) /\ InTime(c) /\ wait[c].pc = "wait" /\ wait[c] \in Wait
    BY <1>0, <1>7 DEF FinishWait, Timeout, Waiting
  <2>2. /\ wait[c].cfg \in Configs /\ wait[c].since \in Nat /\ wait[c].wake \in Nat
        /\ Deadline(c) \in Nat
        /\ Met(c) => From(c) \in Nat
    BY <1>0, <2>1, Numbers
  <2>3. PICK p \in {"online", "timeout"} : /\ wait' = [wait EXCEPT ![c].pc = p]
                                           /\ p = "timeout" => Deadline(c) <= now
    BY <1>7 DEF FinishWait, Timeout
  <2>4. /\ wait'[c].pc = p /\ wait'[c].cfg = wait[c].cfg
        /\ wait'[c].since = wait[c].since
        /\ wait'[c] \in Wait
    BY <1>0, <2>1, <2>3 DEF Wait
  <2>5. wait' \in [Client -> Wait]
    BY <1>0, <2>3, <2>4
  <2>6. /\ Met(c)' <=> Met(c)
        /\ From(c)' = From(c) /\ Deadline(c)' = Deadline(c) /\ ~Waiting(c)'
    BY <1>1, <2>3, <2>4 DEF Met, From, Deadline, Waiting
  <2>7. Met(c) => now <= From(c) + 2 * MAX_RETRY_WAIT
    BY <1>0, <2>1, <2>2 DEF InTime
  <2>8. InTime(c)'
    BY <1>0, <1>1, <2>1, <2>2, <2>3, <2>4, <2>6, <2>7 DEF InTime
  <2> QED
    BY <2>2, <2>4, <2>5, <2>8
<1> QED
  BY <1>5, <1>6, <1>7

(* Steps of the daemon: they move the saved configuration and the latch.     *)
LEMMA DaemonStep ==
    ASSUME OnlineAssumption, IInv,
           update_daemon_online_state \/ \E cfg \in Configs : ApplyWaitOnline(cfg)
    PROVE  IInv'
<1>0. Shape /\ Recorded /\ \A d \in Client : InTime(d)
  BY OnTimeIsInTime DEF IInv
<1>1. UNCHANGED <<gateway, wait, now, metSince>>
  BY DEF update_daemon_online_state, ApplyWaitOnline
<1>2. /\ online' \in BOOLEAN /\ (online => online')
      /\ saved' \in Configs
  BY <1>0, Zenon DEF Shape, update_daemon_online_state, ApplyWaitOnline, Latched, AllMet
<1>3. Recorded'
  BY <1>0, <1>1, RecordKept DEF Shape
<1>4. \A d \in Client : InTime(d)'
  BY <1>0, <1>1, <1>2, OtherInTime
<1>5. OnTime' <=> \A d \in Client : InTime(d)'
  BY DEF OnTime, InTime
<1>6. Shape'
  BY <1>0, <1>1, <1>2 DEF Shape
<1> QED
  BY <1>3, <1>4, <1>5, <1>6 DEF IInv

(* A default route comes, goes or changes its link.                          *)
LEMMA GatewayStep ==
    ASSUME OnlineAssumption, IInv, NEW f \in Family, NEW link, GatewayChanges(f, link)
    PROVE  IInv'
<1> USE DEF MAX_RETRY_WAIT
<1>0. /\ Shape /\ Recorded /\ \A d \in Client : InTime(d)
      /\ now \in Nat /\ online \in BOOLEAN
      /\ metSince \in [Watched -> Nat \cup {None}]
  BY OnTimeIsInTime DEF IInv, Shape
<1>1. UNCHANGED <<saved, online, wait, now>>
  BY DEF GatewayChanges
<1>2. metSince' = [S \in Watched |-> IF ~AllMet(S, gateway') THEN None
                                     ELSE IF metSince[S] = None THEN now ELSE metSince[S]]
  BY <1>0 DEF GatewayChanges
<1>3. metSince' \in [Watched -> Nat \cup {None}]
  BY <1>0, <1>2
<1>4. Shape'
  BY <1>0, <1>1, <1>3 DEF Shape
<1>5. Recorded'
  <2> SUFFICES ASSUME NEW S \in Watched
               PROVE  /\ metSince'[S] # None <=> AllMet(S, gateway)'
                      /\ metSince'[S] # None => metSince'[S] <= now'
    BY DEF Recorded
  <2>1. AllMet(S, gateway)' <=> AllMet(S, gateway')
    BY DEF AllMet, is_met, route_iface_link_usable, route_matches, Family
  <2> QED
    BY <1>0, <1>1, <1>2, <2>1 DEF Recorded, OnlineAssumption
<1>6. ASSUME NEW c \in Client PROVE InTime(c)'
  <2>1. CASE wait[c].pc = "none"
    BY <1>1, <2>1 DEF InTime, Waiting
  <2>2. CASE wait[c].pc # "none"
    <3>1. /\ wait[c].cfg.conditions \in Watched
          /\ wait[c].since \in Nat /\ wait[c].wake \in Nat /\ Deadline(c) \in Nat
          /\ Met(c) => From(c) \in Nat
      BY <1>0, <2>2, Numbers
    <3>2. Deadline(c)' = Deadline(c) /\ (Waiting(c)' <=> Waiting(c))
      BY <1>1 DEF Deadline, Waiting
    <3>3. Met(c)' => \/ Met(c) /\ From(c)' = From(c)
                     \/ From(c)' \in Nat /\ now <= From(c)'
      <4> DEFINE S == wait[c].cfg.conditions
      <4>1. metSince'[S] \in {None, now, metSince[S]} /\ metSince'[S] \in Nat \cup {None}
        BY <1>2, <1>3, <3>1
      <4>2. metSince'[S] = now \/ metSince'[S] = None \/ (metSince'[S] = metSince[S] /\ metSince[S] # None)
        BY <1>2, <3>1
      <4>3. wait' = wait /\ now \in Nat
        BY <1>0, <1>1
      <4>4. CASE metSince'[S] = None
        BY <4>3, <4>4 DEF Met
      <4>5. CASE metSince'[S] = metSince[S] /\ metSince[S] # None
        BY <4>3, <4>5 DEF Met, From
      <4>6. CASE metSince'[S] = now
        BY <3>1, <4>3, <4>6 DEF From, Most
      <4> QED BY <4>2, <4>4, <4>5, <4>6, Zenon
    <3> QED
      BY <1>0, <1>1, <3>1, <3>2, <3>3 DEF InTime
  <2> QED
    BY <2>1, <2>2
<1>7. OnTime' <=> \A d \in Client : InTime(d)'
  BY DEF OnTime, InTime
<1> QED
  BY <1>4, <1>5, <1>6, <1>7 DEF IInv

(* A second passes; no wait was due.                                         *)
LEMMA TickStep ==
    ASSUME OnlineAssumption, IInv, Tick
    PROVE  IInv'
<1> USE DEF MAX_RETRY_WAIT
<1>0. /\ Shape /\ Recorded /\ \A d \in Client : InTime(d)
      /\ now \in Nat /\ online \in BOOLEAN
      /\ metSince \in [Watched -> Nat \cup {None}]
  BY OnTimeIsInTime DEF IInv, Shape
<1>1. UNCHANGED <<saved, gateway, online, wait, metSince>> /\ now' = now + 1
  BY DEF Tick
<1>2. Recorded'
  BY <1>0, <1>1, RecordKept
<1>3. Shape'
  BY <1>0, <1>1 DEF Shape
<1>4. ASSUME NEW c \in Client PROVE InTime(c)'
  <2>1. CASE wait[c].pc = "none"
    BY <1>1, <2>1 DEF InTime, Waiting
  <2>2. CASE wait[c].pc # "none"
    <3>1. /\ wait[c].since \in Nat /\ wait[c].wake \in Nat /\ Deadline(c) \in Nat
          /\ Met(c) => From(c) \in Nat
      BY <1>0, <2>2, Numbers
    <3>2. /\ Deadline(c)' = Deadline(c) /\ (Waiting(c)' <=> Waiting(c))
          /\ (Met(c)' <=> Met(c)) /\ From(c)' = From(c)
      BY <1>1 DEF Deadline, Waiting, Met, From
    <3>3. Waiting(c) => now < wait[c].wake /\ now < Deadline(c)
      BY <1>0, <3>1 DEF Tick, Due
    <3> QED
      BY <1>0, <1>1, <3>1, <3>2, <3>3 DEF InTime
  <2> QED
    BY <2>1, <2>2
<1>5. OnTime' <=> \A d \in Client : InTime(d)'
  BY DEF OnTime, InTime
<1> QED
  BY <1>2, <1>3, <1>4, <1>5 DEF IInv

LEMMA Inductive == ASSUME OnlineAssumption PROVE Spec => []IInv
<1>1. Init => IInv
  BY InitInv
<1>2. IInv /\ [Next]_vars => IInv'
  <2> SUFFICES ASSUME IInv, [Next]_vars PROVE IInv'
    OBVIOUS
  <2>1. CASE Next
    BY <2>1, WaiterStep, DaemonStep, GatewayStep, TickStep DEF Next
  <2>2. CASE UNCHANGED vars
    <3>1. UNCHANGED <<saved, gateway, online, wait, now, metSince>>
      BY <2>2 DEF vars
    <3>2. Shape'
      BY <3>1 DEF IInv, Shape
    <3>3. Recorded'
      BY <3>1, RecordKept DEF IInv, Shape
    <3>4. \A d \in Client : InTime(d)'
      BY <3>1, <3>2, OtherInTime, OnTimeIsInTime DEF IInv, Shape
    <3>5. OnTime' <=> \A d \in Client : InTime(d)'
      BY DEF OnTime, InTime
    <3> QED
      BY <3>2, <3>3, <3>4, <3>5 DEF IInv
  <2> QED
    BY <2>1, <2>2
<1> QED
  BY <1>1, <1>2, PTL DEF Spec

(* A wait that times out had not had its conditions met for two rounds of    *)
(* polling before its deadline, whatever clients, configurations and         *)
(* gateways there are: next_retry_wait() never backs off further, and cuts   *)
(* its last round to the deadline.                                           *)
THEOREM TimeoutsWereOffline == ASSUME OnlineAssumption PROVE Spec => []TimeoutWasOffline
<1>1. IInv => TimeoutWasOffline
  <2> SUFFICES ASSUME IInv, NEW c \in Client, wait[c].pc = "timeout",
                      metSince[wait[c].cfg.conditions] # None
               PROVE  From(c) + 2 * MAX_RETRY_WAIT >= Deadline(c)
    BY DEF TimeoutWasOffline, From
  <2>1. InTime(c) /\ Met(c)
    BY OnTimeIsInTime DEF IInv, Met
  <2>2. From(c) \in Nat /\ Deadline(c) \in Nat
    BY <2>1, Numbers DEF IInv
  <2> QED
    BY <2>1, <2>2 DEF InTime, MAX_RETRY_WAIT
<1> QED
  BY <1>1, Inductive, PTL

(* The latch closes only in a step in which all conditions that some saved   *)
(* configuration or some waiter names are met, and never opens again.        *)
THEOREM LatchClosesWhenMet == Spec => LatchOnlyWhenMet
<1>1. [Next]_vars => [LatchStep]_vars
  <2> SUFFICES ASSUME Next PROVE LatchStep
    OBVIOUS
  <2>1. ASSUME NEW c \in Client, StartWait(c) \/ Poll(c) \/ FinishWait(c) \/ Timeout(c)
        PROVE  LatchStep
    <3>1. CASE Poll(c)
      BY <3>1, Zenon DEF Poll, LatchStep, Latched
    <3>2. CASE StartWait(c) \/ FinishWait(c) \/ Timeout(c)
      <4>1. online' = online
        BY <3>2 DEF StartWait, FinishWait, Timeout
      <4> QED
        BY <4>1 DEF LatchStep
    <3> QED
      BY <2>1, <3>1, <3>2
  <2>2. ASSUME update_daemon_online_state PROVE LatchStep
    BY <2>2, Zenon DEF update_daemon_online_state, LatchStep, Latched
  <2>3. ASSUME NEW cfg \in Configs, ApplyWaitOnline(cfg) PROVE LatchStep
    BY <2>3, Zenon DEF ApplyWaitOnline, LatchStep, Latched
  <2>4. ASSUME NEW f \in Family, NEW link \in LinkStates[f], GatewayChanges(f, link)
        PROVE  LatchStep
    BY <2>4 DEF GatewayChanges, LatchStep
  <2>5. ASSUME Tick PROVE LatchStep
    BY <2>5 DEF Tick, LatchStep
  <2> QED
    BY <2>1, <2>2, <2>3, <2>4, <2>5 DEF Next
<1> QED
  BY <1>1, PTL DEF Spec, LatchOnlyWhenMet

-----------------------------------------------------------------------------
(* The views of the state (Views), for any NICs and saved profiles.           *)

(* While the saved profiles are merged, those done are either matched, and   *)
(* then shown on a NIC unless they are ignored, or put aside; afterwards the *)
(* views agree.                                                              *)
IsEntry(e) == {"name", "kname", "profile", "state", "auto", "by"} \subseteq DOMAIN e

Merged(p) ==
    /\ p \in savedOnly <=> Matches(p) = {}
    /\ p \notin savedOnly /\ p.state # "ignore" => \E n \in Nics : p \in view[n].by

ViewInv ==
    /\ host \in Hosts
    /\ pc \in {"merge", "rules", "done"}
    /\ pending \subseteq host.saved /\ savedOnly \subseteq host.saved \ pending
    /\ pc = "merge" =>
          /\ DOMAIN view = Nics
          /\ \A n \in Nics : IsEntry(view[n]) /\ (n \in managed <=> view[n].by # {})
          /\ \A p \in host.saved \ pending : Merged(p)
    /\ pc # "merge" => Agreed

LEMMA ViewStart == ViewInit => ViewInv
  <1> SUFFICES ASSUME ViewInit PROVE ViewInv
    OBVIOUS
  <1>1. /\ DOMAIN view = Nics /\ managed = {}
        /\ \A n \in Nics : IsEntry(view[n]) /\ view[n].by = {}
    BY DEF ViewInit, Entry, IsEntry
  <1> QED BY <1>1 DEF ViewInit, ViewInv

LEMMA MatchedInView ==
  ASSUME NEW p PROVE saved_iface_has_kernel_match(p) <=> Matches(p) # {}
  BY DEF saved_iface_has_kernel_match, Matches, IsMatch, Nics

LEMMA MergeKeeps ==
  ASSUME ViewInv, NEW p \in pending, MergeSaved(p)
  PROVE  ViewInv'
  <1>1. /\ pc = "merge" /\ pending' = pending \ {p} /\ pc' = pc /\ host' = host
    BY Zenon DEF MergeSaved
  <1>2. Nics' = Nics /\ \A q : Matches(q)' = Matches(q)
    BY <1>1 DEF Nics, Matches, IsMatch
  <1>3. \A q \in host.saved : q \notin pending' => q = p \/ q \in host.saved \ pending
    BY <1>1
  <1>4. Matches(p) \subseteq Nics
    BY DEF Matches, Nics
  <1>5. CASE Matches(p) = {}
    <2>1. savedOnly' = savedOnly \cup {p} /\ UNCHANGED <<view, managed>>
      BY <1>5 DEF MergeSaved
    <2>2. \A q \in host.saved \ pending : Merged(q)'
      BY <1>1, <1>2, <2>1 DEF ViewInv, Merged
    <2>3. Merged(p)'
      BY <1>2, <1>5, <2>1 DEF Merged
    <2>4. savedOnly' \subseteq host.saved \ pending'
      BY <1>1, <2>1 DEF ViewInv
    <2> QED BY <1>1, <1>2, <1>3, <2>1, <2>2, <2>3, <2>4 DEF ViewInv
  <1>6. CASE Matches(p) # {}
    <2>1. PICK n \in Matches(p) :
            /\ UNCHANGED savedOnly
            /\ IF p.state = "ignore"
               THEN /\ view' = [view EXCEPT ![n].state = "ignore"]
                    /\ UNCHANGED managed
               ELSE /\ managed' = managed \cup {n}
                    /\ view' = [view EXCEPT ![n].auto = Filled(@, p.auto),
                                            ![n].profile = Filled(@, p.profile),
                                            ![n].by = @ \cup {p}]
      BY <1>6, Zenon DEF MergeSaved
    <2>2. n \in Nics /\ DOMAIN view = Nics /\ IsEntry(view[n])
      BY <1>1, <1>4, <2>1 DEF ViewInv
    <2>3. /\ DOMAIN view' = Nics /\ IsEntry(view'[n])
          /\ \A k \in Nics : k # n => view'[k] = view[k]
          /\ view'[n].by = IF p.state = "ignore" THEN view[n].by ELSE view[n].by \cup {p}
      BY <2>1, <2>2 DEF IsEntry
    <2>4. \A k \in Nics : IsEntry(view'[k]) /\ view[k].by \subseteq view'[k].by
                          /\ (k \in managed' <=> view'[k].by # {})
      BY <1>1, <2>1, <2>2, <2>3 DEF ViewInv
    <2>5. \A q \in host.saved \ pending : Merged(q)'
      BY <1>1, <1>2, <2>1, <2>4 DEF ViewInv, Merged
    <2>6. p \notin savedOnly'
      BY <2>1 DEF ViewInv
    <2>7. Merged(p)'
      BY <1>2, <1>6, <2>2, <2>3, <2>6 DEF Merged
    <2> QED BY <1>1, <1>2, <1>3, <2>1, <2>3, <2>4, <2>5, <2>7 DEF ViewInv
  <1> QED BY <1>5, <1>6

LEMMA PushKeeps ==
  ASSUME HostsAssumption, ViewInv, PushSavedOnly
  PROVE  ViewInv'
  <1>1. /\ pc = "merge" /\ pending = {} /\ pc' = "rules" /\ savedOnly' = savedOnly
        /\ UNCHANGED <<host, pending, managed, savedOnly>>
    BY DEF PushSavedOnly
  <1>2. Nics' = Nics /\ \A q : Matches(q)' = Matches(q) /\ Hidden(q)' = Hidden(q)
    BY <1>1 DEF Nics, Matches, IsMatch, Hidden
  <1>3. ASSUME NEW p \in savedOnly
        PROVE  view'[p.name].state = (IF p.state = "ignore" THEN "ignore" ELSE "saved")
    <2> DEFINE named == CHOOSE q \in savedOnly : q.name = p.name
    <2>1. named \in savedOnly /\ named.name = p.name
      BY <1>3
    <2>2. named = p
      BY <1>3, <2>1 DEF ViewInv, HostsAssumption
    <2> HIDE DEF named
    <2>3. view'[p.name] = SavedEntry(named)
      BY <1>3, Zenon DEF PushSavedOnly, named
    <2>4. SavedEntry(p).state = (IF p.state = "ignore" THEN "ignore" ELSE "saved")
      BY DEF SavedEntry
    <2> QED BY <2>2, <2>3, <2>4
  <1>4. ASSUME NEW n \in Nics, ~Hidden(n)
        PROVE  view'[n].by = view[n].by /\ (view'[n].state = "up" <=> n \in managed)
    <2>1. view'[n] = [view[n] EXCEPT !.state = StateOfNic(n)]
      BY <1>4 DEF PushSavedOnly, Hidden
    <2> QED BY <1>1, <1>4, <2>1 DEF ViewInv, IsEntry, StateOfNic
  <1>5. ASSUME NEW p \in host.saved
        PROVE  Merged(p) /\ (saved_iface_has_kernel_match(p)' <=> p \notin savedOnly)
    BY <1>1, <1>2, MatchedInView DEF ViewInv, Merged, saved_iface_has_kernel_match, IsMatch
  <1>6. Agreed'
    <2>1. ASSUME NEW p \in host.saved, p \notin savedOnly, p.state # "ignore"
          PROVE  \E n \in Nics : Hidden(n) \/ p \in view'[n].by
      BY <1>4, <1>5, <2>1 DEF Merged
    <2>2. ASSUME NEW n \in Nics
          PROVE  Hidden(n) \/ (view'[n].state = "up" <=> view'[n].by # {})
      BY <1>1, <1>4, Zenon DEF ViewInv
    <2> QED BY <1>1, <1>2, <1>3, <1>5, <2>1, <2>2 DEF Agreed
  <1> QED BY <1>1, <1>6 DEF ViewInv

(* query_saved_state() and query_running_and_saved_state(): both views agree *)
(* on which profiles are active, for any NICs, any profiles of different     *)
(* names and any order in which the profiles come out of the hash map.       *)
THEOREM BothViewsAgree == ASSUME HostsAssumption PROVE ViewSpec => []ViewsAgree
  <1>1. ViewInv /\ [ViewNext]_viewVars => ViewInv'
    <2> SUFFICES ASSUME ViewInv, [ViewNext]_viewVars PROVE ViewInv'
      OBVIOUS
    <2>1. ASSUME pc # "merge" /\ pc' \in {"rules", "done"}
                 /\ UNCHANGED <<host, pending, view, managed, savedOnly>>
          PROVE  ViewInv'
      <3>1. Agreed' <=> Agreed
        BY <2>1 DEF Agreed, Nics, Hidden, saved_iface_has_kernel_match, IsMatch
      <3> QED BY <2>1, <3>1 DEF ViewInv
    <2>2. ASSUME NEW r, append_saved_only_route_rules(r) PROVE ViewInv'
      BY <2>1, <2>2 DEF append_saved_only_route_rules
    <2>3. CASE Answer
      BY <2>1, <2>3 DEF Answer
    <2>4. CASE UNCHANGED viewVars
      BY <2>4, Zenon DEF viewVars, ViewInv, Agreed, Merged, Matches, Nics, Hidden,
                  saved_iface_has_kernel_match, IsMatch
    <2> QED BY <2>2, <2>3, <2>4, MergeKeeps, PushKeeps DEF ViewNext
  <1>2. ViewInv => ViewsAgree
    BY DEF ViewInv, ViewsAgree
  <1> QED BY ViewStart, <1>1, <1>2, PTL DEF ViewSpec

-----------------------------------------------------------------------------
(* BridgeVlan. A dump of the kernel's table is read back as a section, and a *)
(* section becomes entries again: what ReadBack says of the two makes the    *)
(* entries that an apply removes all those it does not ask for.              *)

Below == {p \in Nat \X Nat : p[1] < p[2]}

(* Every set of natural numbers that is not empty has a least member.        *)
LEMMA LeastNat ==
  ASSUME NEW T, T \subseteq Nat, T # {}
  PROVE  \E x \in T : \A y \in T : x <= y
<1>1. IsWellFoundedOn(Below, Nat)
  BY NatLessThanWellFounded DEF OpToRel, Below
<1>2. \E x \in T : \A y \in T : ~(<<y, x>> \in Below)
  BY <1>1, WFMin, Zenon
<1>3. PICK x \in T : \A y \in T : ~(<<y, x>> \in Below)
  BY <1>2
<1>4. ASSUME NEW y \in T PROVE x <= y
  <2>1. x \in Nat /\ y \in Nat /\ <<y, x>> \in Nat \X Nat /\ <<y, x>>[1] = y /\ <<y, x>>[2] = x
    OBVIOUS
  <2>2. ~(y < x)
    BY <2>1, <1>3 DEF Below
  <2> QED BY <2>1, <2>2
<1> QED BY <1>4

(* VlanAssumption, and that what is not set is no set of ranges either.       *)
VlanHypotheses == VlanAssumption /\ NotSet \notin SUBSET (Vid \X Vid)

Taggings == [Vid -> {"no", "tagged", "untagged"}]

RunRange(t, p, lo, hi) ==
    Run(t, p, lo, hi) /\ Ends(t, p, lo, lo - 1) /\ Ends(t, p, hi, hi + 1)

RunEntry(t, p, lo, hi) == VlanEntry(lo, hi, t[lo] = "untagged" /\ p = lo)

(* merge_vlan_range(): the entries of the dump are the runs that no VLAN     *)
(* extends.                                                                  *)
LEMMA Dumped ==
  ASSUME NEW t, NEW p, NEW e
  PROVE  e \in merge_vlan_range(t, p)
           <=> \E lo, hi \in Vid : RunRange(t, p, lo, hi) /\ e = RunEntry(t, p, lo, hi)
<1>1. ASSUME e \in merge_vlan_range(t, p)
      PROVE  \E lo, hi \in Vid : RunRange(t, p, lo, hi) /\ e = RunEntry(t, p, lo, hi)
  <2>1. PICK r \in Vid \X Vid : RunRange(t, p, r[1], r[2]) /\ e = RunEntry(t, p, r[1], r[2])
    BY <1>1 DEF merge_vlan_range, RunRange, RunEntry
  <2>2. r[1] \in Vid /\ r[2] \in Vid
    OBVIOUS
  <2> QED BY <2>1, <2>2
<1>2. ASSUME NEW lo \in Vid, NEW hi \in Vid, RunRange(t, p, lo, hi), e = RunEntry(t, p, lo, hi)
      PROVE  e \in merge_vlan_range(t, p)
  <2> DEFINE r == <<lo, hi>>
  <2>1. r \in Vid \X Vid /\ r[1] = lo /\ r[2] = hi
    OBVIOUS
  <2> HIDE DEF r
  <2>2. RunRange(t, p, r[1], r[2]) /\ e = RunEntry(t, p, r[1], r[2])
    BY <2>1, <1>2
  <2> QED BY <2>1, <2>2 DEF merge_vlan_range, RunRange, RunEntry
<1> QED BY <1>1, <1>2

(* Every VLAN of the table is in an entry of the dump: the longest run       *)
(* around it, which is found by the least number of VLANs to leave out on    *)
(* either side.                                                              *)
LEMMA RunOf ==
  ASSUME MaxVid \in Nat, NEW t \in Taggings, NEW p, NEW v \in Vid, t[v] # "no"
  PROVE  \E e \in merge_vlan_range(t, p) : v \in e.lo..e.hi
<1> DEFINE T == {l \in Vid : l <= v /\ \A u \in l..v : Same(t, p, u, v)}
           U == {d \in Nat : v <= MaxVid - d /\ \A u \in v..(MaxVid - d) : Same(t, p, u, v)}
<1>1. Vid \subseteq Nat /\ v <= MaxVid /\ v >= 1
  BY DEF Vid
<1>2. Same(t, p, v, v)
  BY DEF Same
<1>3. PICK lo \in T : \A l \in T : lo <= l
  <2>1. v \in T
    BY <1>1, <1>2
  <2> QED BY <2>1, <1>1, LeastNat, Zenon
<1>4. PICK d \in U : \A e \in U : d <= e
  <2>1. MaxVid - v \in U
    BY <1>1, <1>2
  <2> QED BY <2>1, LeastNat, Zenon
<1> DEFINE hi == MaxVid - d
<1>5. lo \in Vid /\ lo <= v /\ \A u \in lo..v : Same(t, p, u, v)
  BY <1>3
<1>6. hi \in Vid /\ v <= hi /\ \A u \in v..hi : Same(t, p, u, v)
  BY <1>4, <1>1 DEF Vid
<1>7. Run(t, p, lo, hi)
  <2>1. t[lo] # "no" /\ Same(t, p, lo, v)
    BY <1>5, <1>1 DEF Same
  <2>2. ASSUME NEW u \in lo..hi PROVE Same(t, p, u, lo)
    <3>1. Same(t, p, u, v)
      <4>1. u \in lo..v \/ u \in v..hi
        BY <1>1, <1>5, <1>6
      <4> QED BY <4>1, <1>5, <1>6
    <3> QED BY <3>1, <2>1 DEF Same
  <2> QED BY <2>1, <2>2, <1>5, <1>6, <1>1 DEF Run
<1>8. Ends(t, p, lo, lo - 1)
  <2> SUFFICES ASSUME lo - 1 \in Vid, Same(t, p, lo, lo - 1) PROVE FALSE
    BY DEF Ends
  <2>1. Same(t, p, lo - 1, v)
    BY <1>5, <1>1 DEF Same
  <2>2. \A u \in (lo - 1)..v : u = lo - 1 \/ u \in lo..v
    BY <1>1, <1>5
  <2>3. lo - 1 \in T
    BY <2>1, <2>2, <1>5, <1>1
  <2> QED BY <2>3, <1>3, <1>1, <1>5
<1>9. Ends(t, p, hi, hi + 1)
  <2> SUFFICES ASSUME hi + 1 \in Vid, Same(t, p, hi, hi + 1) PROVE FALSE
    BY DEF Ends
  <2>1. Same(t, p, hi + 1, v)
    BY <1>6, <1>1 DEF Same
  <2>2. \A u \in v..(hi + 1) : u = hi + 1 \/ u \in v..hi
    BY <1>1, <1>6
  <2>3. d - 1 \in Nat /\ MaxVid - (d - 1) = hi + 1
    BY <1>4 DEF Vid
  <2>4. d - 1 \in U
    BY <2>1, <2>2, <2>3, <1>6, <1>1
  <2> QED BY <2>4, <1>4
<1> DEFINE e == RunEntry(t, p, lo, hi)
<1>10. e \in merge_vlan_range(t, p)
  BY <1>5, <1>6, <1>7, <1>8, <1>9, Dumped DEF RunRange
<1>11. v \in e.lo..e.hi
  BY <1>5, <1>6, <1>1 DEF RunEntry, VlanEntry
<1> QED BY <1>10, <1>11

Shown(t, p) == {e \in merge_vlan_range(t, p) : NotDefault(e)}

EntryType == [lo : Vid, hi : Vid, native : BOOLEAN]

(* What an entry of the dump says of the table.                              *)
LEMMA DumpedEntry ==
  ASSUME MaxVid \in Nat, NEW t \in Taggings, NEW p, NEW e \in merge_vlan_range(t, p)
  PROVE  /\ e \in EntryType /\ e.lo <= e.hi
         /\ \A v \in e.lo..e.hi : v \in Vid /\ t[v] # "no"
         /\ e.native => e = VlanEntry(p, p, TRUE)
<1>1. PICK lo, hi \in Vid : RunRange(t, p, lo, hi) /\ e = RunEntry(t, p, lo, hi)
  BY Dumped
<1>2. Vid = 1..MaxVid
  BY DEF Vid
<1>3. e.lo = lo /\ e.hi = hi /\ e.native = (t[lo] = "untagged" /\ p = lo) /\ e \in EntryType
  BY <1>1, Zenon DEF RunEntry, VlanEntry, EntryType
<1>4. lo <= hi /\ t[lo] # "no" /\ \A v \in lo..hi : Same(t, p, v, lo)
  BY <1>1 DEF RunRange, Run
<1>5. ASSUME NEW v \in lo..hi PROVE v \in Vid /\ t[v] # "no"
  <2>1. v \in Vid
    BY <1>2
  <2>2. Same(t, p, v, lo)
    BY <1>4
  <2> QED BY <2>1, <2>2, <1>4 DEF Same
<1>6. ASSUME e.native PROVE e = VlanEntry(p, p, TRUE)
  <2>1. p = lo
    BY <1>3, <1>6, Zenon
  <2>2. hi \in lo..hi
    BY <1>4, <1>2
  <2>3. hi = lo
    BY <2>1, <2>2, <1>4 DEF Same
  <2>4. (t[lo] = "untagged" /\ p = lo) = TRUE
    BY <1>3, <1>6, Zenon
  <2> QED BY <1>1, <2>1, <2>3, <2>4, Zenon DEF RunEntry
<1> QED BY <1>3, <1>4, <1>5, <1>6, Zenon

(* The section that is read stands for the entries that are kept.            *)
LEMMA ReadBack ==
  ASSUME VlanHypotheses, NEW t \in Taggings, NEW p
  PROVE  /\ Shown(t, p) = {} => bridge_vlan_config(t, p) = NotSet
         /\ Shown(t, p) # {} => bridge_vlan_config(t, p) \in SectionType
         /\ bridge_vlan_entries_from_config(bridge_vlan_config(t, p)) = Shown(t, p)
<1> DEFINE kept == Shown(t, p)
           trunk == {e \in kept : ~e.native}
           native == kept \ trunk
           cfg == bridge_vlan_config(t, p)
           mode == IF trunk = {} THEN "access" ELSE "trunk"
           hasNative == IF trunk = {} THEN NotSet ELSE native # {}
           tag == IF native = {} THEN NotSet ELSE (CHOOSE e \in native : TRUE).hi
           tags == {<<e.lo, e.hi>> : e \in trunk}
<1>1. kept = {} => cfg = NotSet /\ bridge_vlan_entries_from_config(cfg) = {}
  BY Zenon DEF bridge_vlan_config, Shown, bridge_vlan_entries_from_config
<1>2. SUFFICES ASSUME kept # {}
               PROVE  cfg \in SectionType /\ bridge_vlan_entries_from_config(cfg) = kept
  BY <1>1
<1>3. cfg = [mode |-> mode, native |-> hasNative, tag |-> tag, tags |-> tags]
  BY <1>2 DEF bridge_vlan_config, Shown
<1>4. MaxVid \in Nat /\ NotSet \notin {"access", "trunk"} /\ NotSet \notin Vid
        /\ NotSet \notin SUBSET (Vid \X Vid) /\ NotSet \notin SectionType
  BY DEF VlanHypotheses, VlanAssumption
<1>5. \A e \in kept : /\ e \in EntryType
                      /\ e.native => e = VlanEntry(p, p, TRUE)
  BY <1>4, DumpedEntry, Zenon DEF Shown
<1>6. \A e \in native : e = VlanEntry(p, p, TRUE) /\ e.hi = p /\ p \in Vid
  <2> SUFFICES ASSUME NEW e \in native PROVE e = VlanEntry(p, p, TRUE) /\ e.hi = p /\ p \in Vid
    BY Zenon
  <2>1. e = VlanEntry(p, p, TRUE) /\ e \in EntryType
    BY <1>5, Zenon
  <2> QED BY <2>1 DEF VlanEntry, EntryType
<1>7. \A e \in trunk : e = VlanEntry(e.lo, e.hi, FALSE) /\ <<e.lo, e.hi>> \in Vid \X Vid
  <2> SUFFICES ASSUME NEW e \in trunk
               PROVE  e = VlanEntry(e.lo, e.hi, FALSE) /\ <<e.lo, e.hi>> \in Vid \X Vid
    BY Zenon
  <2>1. e \in EntryType /\ e.native = FALSE
    BY <1>5, Zenon DEF EntryType
  <2> QED BY <2>1 DEF EntryType, VlanEntry
<1>8. kept = trunk \cup native
  OBVIOUS
<1> HIDE DEF native, trunk, kept
<1>9. tag \in Vid \cup {NotSet} /\ (IF tag # NotSet THEN {VlanEntry(tag, tag, TRUE)} ELSE {}) = native
  <2>1. CASE native = {}
    BY <2>1
  <2>2. CASE native # {}
    <3>1. (CHOOSE e \in native : TRUE) \in native
      BY <2>2
    <3>2. tag = p /\ p # NotSet /\ p \in Vid
      BY <2>2, <3>1, <1>6, <1>4, Zenon
    <3>3. native = {VlanEntry(p, p, TRUE)}
      BY <2>2, <1>6, Zenon
    <3> HIDE DEF tag
    <3> QED BY <3>2, <3>3
  <2> QED BY <2>1, <2>2, Zenon
<1>10. tags \in SUBSET (Vid \X Vid) /\ tags # NotSet
  BY <1>7, <1>4, Zenon
<1>11. {VlanEntry(r[1], r[2], FALSE) : r \in tags} = trunk
  <2>1. ASSUME NEW r \in tags PROVE VlanEntry(r[1], r[2], FALSE) \in trunk
    <3>1. PICK e \in trunk : r = <<e.lo, e.hi>>
      OBVIOUS
    <3>2. r[1] = e.lo /\ r[2] = e.hi
      BY <3>1
    <3> QED BY <3>2, <1>7, Zenon
  <2>2. ASSUME NEW e \in trunk PROVE \E r \in tags : e = VlanEntry(r[1], r[2], FALSE)
    <3>1. <<e.lo, e.hi>> \in tags /\ <<e.lo, e.hi>>[1] = e.lo /\ <<e.lo, e.hi>>[2] = e.hi
      OBVIOUS
    <3> QED BY <3>1, <1>7, Zenon
  <2> HIDE DEF tags
  <2> QED BY <2>1, <2>2, Zenon
<1>12. mode \in {"access", "trunk"} /\ (mode = "trunk" <=> trunk # {}) /\ hasNative \in BOOLEAN \cup {NotSet}
  OBVIOUS
<1> HIDE DEF cfg, mode, hasNative, tag, tags
<1>13. cfg \in SectionType
  BY <1>3, <1>9, <1>10, <1>12 DEF SectionType
<1>14. cfg.mode = mode /\ cfg.tag = tag /\ cfg.tags = tags /\ mode # NotSet /\ cfg # NotSet
  BY <1>3, <1>4, <1>12, <1>13
<1>15. (IF cfg.mode = "trunk" /\ cfg.tags # NotSet
        THEN {VlanEntry(r[1], r[2], FALSE) : r \in cfg.tags} ELSE {}) = trunk
  BY <1>10, <1>11, <1>12, <1>14, Zenon
<1> QED BY <1>8, <1>9, <1>13, <1>14, <1>15, Zenon DEF bridge_vlan_entries_from_config

Others == Vid \ {DefaultPvid}

(* `cur` is what was read of the table `t`, or nothing was and there is      *)
(* nothing but the default VLAN.                                             *)
Known(t, p, cur) ==
    \/ cur = bridge_vlan_config(t, p)
    \/ cur = NotSet /\ \A v \in Others : t[v] = "no"

(* gen_bridge_vlan_entries(): a VLAN that is not asked for is gone.          *)
LEMMA NotAskedIsGone ==
  ASSUME VlanHypotheses, NEW t \in Taggings, NEW p, NEW des, NEW cur, Known(t, p, cur),
         NEW v \in Others, v \notin Covered(bridge_vlan_entries_from_config(des))
  PROVE  TableAfter(t, des, cur)[v] = "no"
<1> DEFINE add == bridge_vlan_entries_from_config(des)
<1>1. v \in Vid /\ v # DefaultPvid /\ MaxVid \in Nat
  BY Zenon DEF Others, VlanHypotheses, VlanAssumption
<1>2. v \notin Covered({e \in add : e.native})
  BY Zenon DEF Covered
<1>3. TableAfter(t, des, cur)[v] = IF v \in Covered(Removed(des, cur)) THEN "no" ELSE t[v]
  BY <1>1, <1>2 DEF TableAfter
<1>4. SUFFICES ASSUME t[v] # "no" PROVE v \in Covered(Removed(des, cur))
  BY <1>3, Zenon
<1>5. PICK e \in merge_vlan_range(t, p) : v \in e.lo..e.hi
  BY <1>1, <1>4, RunOf
<1>6. e \in Shown(t, p)
  <2>1. e.lo \in Nat /\ e.hi \in Nat
    <3>1. e \in EntryType
      BY <1>1, DumpedEntry, Zenon
    <3> QED BY <3>1, <1>1 DEF EntryType, Vid
  <2> QED BY <2>1, <1>1, <1>5 DEF Shown, NotDefault, DefaultPvid
<1>7. cur = bridge_vlan_config(t, p)
  BY <1>4 DEF Known
<1>8. e \in bridge_vlan_entries_from_config(cur)
  BY <1>6, <1>7, ReadBack
<1>9. e \notin add
  BY <1>5 DEF Covered
<1> QED BY <1>5, <1>8, <1>9 DEF Covered, Removed

(* A table without VLANs but the default one reads as no section.            *)
LEMMA NothingRead ==
  ASSUME VlanHypotheses, NEW t \in Taggings, NEW p, \A v \in Others : t[v] = "no"
  PROVE  bridge_vlan_config(t, p) = NotSet
<1>1. SUFFICES ASSUME NEW e \in Shown(t, p) PROVE FALSE
  BY ReadBack
<1>2. e \in EntryType /\ e.lo <= e.hi /\ \A v \in e.lo..e.hi : v \in Vid /\ t[v] # "no"
  BY DumpedEntry, Zenon DEF Shown, VlanHypotheses, VlanAssumption
<1>3. e.lo \in Nat /\ e.hi \in Nat /\ e.lo \in e.lo..e.hi /\ e.hi \in e.lo..e.hi
  BY <1>2 DEF EntryType, Vid
<1>4. e.lo = DefaultPvid /\ e.hi = DefaultPvid
  BY <1>2, <1>3 DEF Others
<1> QED BY <1>4 DEF Shown, NotDefault

(* A VLAN in the ranges that are read is in the table.                       *)
LEMMA ReadIsThere ==
  ASSUME VlanHypotheses, NEW t \in Taggings, NEW p, bridge_vlan_config(t, p) # NotSet,
         NEW v \in Ids(bridge_vlan_config(t, p).tags)
  PROVE  t[v] # "no"
<1> DEFINE trunk == {e \in Shown(t, p) : ~e.native}
<1>1. Shown(t, p) # {}
  BY ReadBack
<1>2. bridge_vlan_config(t, p).tags = {<<e.lo, e.hi>> : e \in trunk}
  BY <1>1, Zenon DEF bridge_vlan_config, Shown
<1>3. PICK e \in trunk : v \in <<e.lo, e.hi>>[1]..<<e.lo, e.hi>>[2]
  BY <1>2, Zenon DEF Ids
<1>4. v \in e.lo..e.hi
  BY <1>3
<1> QED BY <1>4, DumpedEntry, Zenon DEF Shown, VlanHypotheses, VlanAssumption

(* A section with more than the native tag is applied to a table that was    *)
(* known, and verified.                                                      *)
Confirmed(t, p, cur, des, q) ==
    /\ t \in Taggings /\ Known(t, p, cur)
    /\ des \in SectionType /\ Keys(des) \ {"tag"} # {}
    /\ Verified(des, bridge_vlan_config(TableAfter(t, des, cur), q))

(* What is read back as asked is what was asked for.                         *)
LEMMA AsAsked ==
  ASSUME VlanHypotheses, NEW t, NEW p, NEW cur, NEW des, NEW q, Confirmed(t, p, cur, des, q),
         NEW v \in Others
  PROVE  TableAfter(t, des, cur)[v] = Meant(des, v)
<1> SUFFICES ASSUME t \in Taggings, Known(t, p, cur),
                    des \in SectionType, Keys(des) \ {"tag"} # {},
                    Verified(des, bridge_vlan_config(TableAfter(t, des, cur), q))
             PROVE  TableAfter(t, des, cur)[v] = Meant(des, v)
  BY Zenon DEF Confirmed
<1> DEFINE add == bridge_vlan_entries_from_config(des)
           new == TableAfter(t, des, cur)
           got == bridge_vlan_config(new, q)
<1>1. MaxVid \in Nat /\ NotSet \notin SectionType /\ NotSet \notin Vid
        /\ NotSet \notin {"access", "trunk"} /\ NotSet \notin SUBSET (Vid \X Vid)
  BY Zenon DEF VlanHypotheses, VlanAssumption
<1>2. des # NotSet /\ got # NotSet /\ \A k \in Keys(des) : des[k] = got[k]
  BY <1>1 DEF Verified
<1>3. new \in Taggings
  BY DEF TableAfter, Taggings
<1>4. \A u \in Others : u \notin Covered(add) => new[u] = "no"
  BY NotAskedIsGone
<1>5. des.mode # NotSet
  <2> SUFFICES ASSUME des.mode = NotSet PROVE FALSE
    OBVIOUS
  <2>1. Covered(add) = {}
    BY DEF bridge_vlan_entries_from_config, Covered
  <2> QED BY <2>1, <1>2, <1>3, <1>4, NothingRead
<1> DEFINE trunk == IF des.mode = "trunk" /\ des.tags # NotSet
                    THEN {VlanEntry(r[1], r[2], FALSE) : r \in des.tags} ELSE {}
           native == IF des.tag # NotSet THEN {VlanEntry(des.tag, des.tag, TRUE)} ELSE {}
<1>6. add = trunk \cup native
  BY <1>2, <1>5, Zenon DEF bridge_vlan_entries_from_config
<1>7. {e \in add : e.native} = native
  <2>0. \A lo, hi : /\ VlanEntry(lo, hi, FALSE).native = FALSE
                    /\ VlanEntry(lo, hi, TRUE).native = TRUE
    BY DEF VlanEntry
  <2>1. \A e \in trunk : ~e.native
    BY <2>0, Zenon
  <2>2. \A e \in native : e.native
    BY <2>0, Zenon
  <2> HIDE DEF trunk, native
  <2> QED BY <2>1, <2>2, <1>6
<1>8. Covered(native) = IF des.tag # NotSet THEN {des.tag} ELSE {}
  <2>0. des.tag \in Vid \cup {NotSet}
    BY DEF SectionType
  <2>1. ASSUME des.tag # NotSet PROVE des.tag \in Nat
    <3>1. des.tag \in Vid
      BY <2>0, <2>1, Zenon
    <3> QED BY <1>1, <3>1 DEF Vid
  <2>2. ASSUME des.tag # NotSet PROVE des.tag..des.tag = {des.tag}
    BY <2>1, <2>2
  <2>3. VlanEntry(des.tag, des.tag, TRUE).lo = des.tag /\ VlanEntry(des.tag, des.tag, TRUE).hi = des.tag
    BY DEF VlanEntry
  <2>4. CASE des.tag # NotSet
    <3>1. native = {VlanEntry(des.tag, des.tag, TRUE)}
      BY <2>4
    <3> QED BY <2>2, <2>3, <2>4, <3>1, Zenon DEF Covered
  <2>5. CASE des.tag = NotSet
    BY <2>5, Zenon DEF Covered
  <2> QED BY <2>4, <2>5
<1>9. Covered(trunk) = IF des.mode = "trunk" /\ des.tags # NotSet THEN Ids(des.tags) ELSE {}
  <2>1. \A r \in des.tags : /\ VlanEntry(r[1], r[2], FALSE).lo = r[1]
                            /\ VlanEntry(r[1], r[2], FALSE).hi = r[2]
    BY Zenon DEF VlanEntry
  <2>2. CASE des.mode = "trunk" /\ des.tags # NotSet
    <3>1. \A u : u \in Covered(trunk) <=> \E r \in des.tags : u \in r[1]..r[2]
      BY <2>1, <2>2, Zenon DEF Covered
    <3> HIDE DEF trunk
    <3> QED BY <2>2, <3>1, Zenon DEF Ids
  <2>3. CASE ~(des.mode = "trunk" /\ des.tags # NotSet)
    BY <2>3, Zenon DEF Covered
  <2> QED BY <2>2, <2>3, Zenon
<1>10. Covered(add) = Covered(trunk) \cup Covered(native)
  BY <1>6, Zenon DEF Covered
<1>11. v \in Vid
  BY DEF Others
<1>12. CASE des.tag = v
  BY <1>1, <1>7, <1>8, <1>11, <1>12, Zenon DEF TableAfter, Meant
<1>13. CASE des.tag # v /\ v \in Covered(add)
  <2>1. v \in Covered(trunk) /\ v \notin Covered(native)
    BY <1>8, <1>10, <1>13
  <2>2. des.tags # NotSet /\ v \in Ids(des.tags)
    BY <2>1, <1>9
  <2> QED BY <2>1, <2>2, <1>7, <1>11, <1>13, Zenon DEF TableAfter, Meant
<1>14. CASE des.tag # v /\ v \notin Covered(add)
  <2>1. new[v] = "no"
    BY <1>4, <1>14, Zenon
  <2>2. ASSUME des.tags # NotSet, v \in Ids(des.tags) PROVE FALSE
    <3>1. "tags" \in Keys(des)
      BY <2>2, Zenon DEF Keys, Empty
    <3>2. v \in Ids(got.tags)
      BY <3>1, <2>2, <1>2
    <3> QED BY <3>2, <2>1, <1>2, <1>3, ReadIsThere
  <2> QED BY <2>1, <2>2, <1>14, Zenon DEF Meant
<1> QED BY <1>12, <1>13, <1>14, Zenon

-----------------------------------------------------------------------------
Cleared(t) == \A v \in Others : t[v] = "no"

(* What is read is what the table holds; without filtering, which only a     *)
(* section of the bridge itself turns on, there is no VLAN but the default   *)
(* one, unless an apply failed.                                              *)
VlanInv ==
    /\ table \in [Where -> Taggings] /\ filtering \in BOOLEAN
    /\ read = Query(table, pvid, filtering)
    /\ outcome = "failed" \/ filtering \/ \A w \in Where : Cleared(table[w])
    /\ VerifiedIsExact

Out(req) ==
    [w \in Where |-> IF w = "port" THEN DefaultMode(compress_port_vlan_ranges(Sent(req)[w]))
                     ELSE compress_port_vlan_ranges(Sent(req)[w])]

(* What is sent is a section or nothing.                                     *)
LEMMA OutType ==
  ASSUME VlanHypotheses, NEW req \in [Where -> Sections], NEW w \in Where
  PROVE  Out(req)[w] \in SectionType \cup {NotSet}
<1>1. Sent(req)[w] \in SectionType \cup {NotSet}
  BY DEF Sent, VlanHypotheses, VlanAssumption, Where
<1>2. ASSUME NEW cfg \in SectionType \cup {NotSet}
      PROVE  compress_port_vlan_ranges(cfg) \in SectionType \cup {NotSet}
  <2>1. CASE cfg = NotSet \/ cfg.tags = NotSet
    BY <2>1 DEF compress_port_vlan_ranges
  <2>2. CASE cfg # NotSet /\ cfg.tags # NotSet
    <3>1. cfg \in SectionType /\ cfg.tags \in SUBSET (Vid \X Vid)
      BY <2>2 DEF SectionType
    <3>2. ASSUME NEW r \in cfg.tags PROVE r[1]..r[2] \subseteq Vid
      <4>1. r[1] \in Vid /\ r[2] \in Vid
        BY <3>1
      <4> QED BY <4>1 DEF Vid, VlanHypotheses, VlanAssumption
    <3>3. Ids(cfg.tags) \subseteq Vid
      BY <3>2 DEF Ids
    <3>4. compress_vlan_ids(Ids(cfg.tags)) \in SUBSET (Vid \X Vid)
      BY <3>3 DEF compress_vlan_ids
    <3> DEFINE tags == compress_vlan_ids(Ids(cfg.tags))
    <3> HIDE DEF tags
    <3>5. [cfg EXCEPT !.tags = tags] \in SectionType
      BY <3>1, <3>4 DEF SectionType, tags
    <3> QED BY <2>2, <3>5 DEF compress_port_vlan_ranges, tags
  <2> QED BY <2>1, <2>2
<1>3. ASSUME NEW cfg \in SectionType \cup {NotSet}
      PROVE  DefaultMode(cfg) \in SectionType \cup {NotSet}
  BY DEF DefaultMode, SectionType
<1> QED BY <1>1, <1>2, <1>3 DEF Out

(* The bridge as the kernel creates it.                                      *)
LEMMA VlanInitInv == ASSUME VlanHypotheses, VlanInit PROVE VlanInv
<1>1. table \in [Where -> Taggings] /\ filtering \in BOOLEAN /\ \A w \in Where : Cleared(table[w])
  BY Zenon DEF VlanInit, Cleared, Others, Taggings
<1>2. read = Query(table, pvid, filtering)
  BY DEF VlanInit, Query
<1>3. VerifiedIsExact
  BY DEF VlanInit, VerifiedIsExact
<1> QED BY <1>1, <1>2, <1>3 DEF VlanInv

(* apply_bridge_vlans() keeps the invariant, refused or sent.                *)
LEMMA VlanStepInv ==
  ASSUME VlanHypotheses, VlanInv, NEW req \in [Where -> Sections], apply_bridge_vlans(req)
  PROVE  VlanInv'
<1> DEFINE out == Out(req)
<1>1. CASE out["port"] # NotSet /\ Refused(compress_port_vlan_ranges(req["port"]))
  <2>1. outcome' = "refused" /\ UNCHANGED <<table, pvid, filtering, read>> /\ outcome # "failed"
    BY <1>1, Zenon DEF apply_bridge_vlans, Out
  <2> QED BY <2>1, Zenon DEF VlanInv, VerifiedIsExact, Query
<1>2. CASE ~(out["port"] # NotSet /\ Refused(compress_port_vlan_ranges(req["port"])))
  <2>1. /\ sent' = out /\ filtering' = Filtering(out) /\ outcome # "failed"
        /\ table' = [w \in Where |-> IF out[w] = NotSet THEN table[w]
                                     ELSE TableAfter(table[w], out[w], read[w])]
        /\ read' = Query(table', pvid', filtering')
        /\ outcome' = IF \A w \in Where : Verified(out[w], read'[w]) THEN "ok" ELSE "failed"
    BY <1>2, Zenon DEF apply_bridge_vlans, Out
  <2> HIDE DEF out
  <2>2. \A w \in Where : out[w] \in SectionType \cup {NotSet}
    BY OutType DEF out
  <2>3. \A w \in Where : table[w] \in Taggings
    BY DEF VlanInv
  <2>4. ASSUME NEW w \in Where PROVE TableAfter(table[w], out[w], read[w]) \in Taggings
    BY <2>3, Zenon DEF TableAfter, Taggings
  <2>5. table' \in [Where -> Taggings]
    BY <2>1, <2>3, <2>4, Zenon
  <2>6. filtering' \in BOOLEAN
    BY <2>1, Zenon DEF VlanInv, Filtering
  <2>7. ASSUME outcome' # "failed", ~filtering' PROVE \A w \in Where : Cleared(table'[w])
    <3>1. \A w \in Where : read'[w] = NotSet /\ Verified(out[w], read'[w])
      BY <2>1, <2>7, Zenon DEF Query
    <3>2. \A w \in Where : out[w] = NotSet
      BY <3>1 DEF Verified
    <3>3. table' = table /\ filtering' = filtering
      BY <3>2, <2>1 DEF VlanInv, Filtering, Where
    <3>4. \A w \in Where : Cleared(table[w])
      <4>1. outcome = "failed" \/ filtering \/ \A w \in Where : Cleared(table[w])
        BY Zenon DEF VlanInv
      <4>2. ~filtering
        BY <2>7, <3>3, Zenon
      <4>3. outcome # "failed"
        BY <2>1, Zenon
      <4> QED BY <4>1, <4>2, <4>3, Zenon
    <3> QED BY <3>3, <3>4, Zenon
  <2>8. VerifiedIsExact'
    <3> SUFFICES ASSUME outcome' = "ok", NEW w \in Where, out[w] # NotSet, Keys(out[w]) \ {"tag"} # {},
                        NEW v \in Others
                 PROVE  table'[w][v] = Meant(out[w], v)
      BY <2>1, Zenon DEF VerifiedIsExact, Others
    <3>1. Verified(out[w], read'[w])
      BY <2>1, Zenon
    <3>2. table'[w] = TableAfter(table[w], out[w], read[w])
      BY <2>1, Zenon
    <3>3. read'[w] = bridge_vlan_config(table'[w], pvid'[w])
      BY <3>1, <2>1, Zenon DEF Verified, Query
    <3>4. Known(table[w], pvid[w], read[w])
      BY <2>1, Zenon DEF VlanInv, Query, Known, Cleared
    <3>5. out[w] \in SectionType
      BY <2>2
    <3>6. Verified(out[w], bridge_vlan_config(TableAfter(table[w], out[w], read[w]), pvid'[w]))
      BY <3>1, <3>2, <3>3, Zenon
    <3>7. TableAfter(table[w], out[w], read[w])[v] = Meant(out[w], v)
      <4>1. table[w] \in Taggings
        BY <2>3, Zenon
      <4> DEFINE t == table[w]
                 p == pvid[w]
                 cur == read[w]
                 des == out[w]
                 q == pvid'[w]
      <4>2. Confirmed(t, p, cur, des, q)
        BY <4>1, <3>4, <3>5, <3>6, Zenon DEF Confirmed
      <4>3. TableAfter(t, des, cur)[v] = Meant(des, v)
        <5> HIDE DEF t, p, cur, des, q
        <5> QED BY <4>2, AsAsked
      <4> QED BY <4>3, Zenon
    <3> QED BY <3>2, <3>7, Zenon
  <2> QED BY <2>1, <2>5, <2>6, <2>7, <2>8, Zenon DEF VlanInv
<1> QED BY <1>1, <1>2

(* gen_bridge_vlan_entries() and bridge_vlan_config(): when the kernel reads *)
(* back as asked, the VLANs other than the default one are exactly those     *)
(* asked for, whatever was configured before, for any number of VLAN ids,    *)
(* any sections and any number of applies.                                   *)
THEOREM VlansExact == ASSUME VlanHypotheses PROVE VlanSpec => []VerifiedIsExact
<1>1. VlanInit => VlanInv
  BY VlanInitInv
<1>2. VlanInv /\ [VlanNext]_vlanVars => VlanInv'
  <2> SUFFICES ASSUME VlanInv, [VlanNext]_vlanVars PROVE VlanInv'
    OBVIOUS
  <2>1. CASE VlanNext
    BY <2>1, VlanStepInv DEF VlanNext
  <2>2. CASE UNCHANGED vlanVars
    BY <2>2, Zenon DEF VlanInv, vlanVars, VerifiedIsExact, Query
  <2> QED BY <2>1, <2>2
<1>3. VlanInv => VerifiedIsExact
  BY DEF VlanInv
<1> QED BY <1>1, <1>2, <1>3, PTL DEF VlanSpec

-----------------------------------------------------------------------------
(* Addressing. What the apply in progress will save is fixed when the        *)
(* request is merged; the profile it was merged with is still the one saved  *)
(* when it ends.                                                             *)

(* A set that contains 0 and with a number the next one contains all.        *)
LEMMA Induction ==
  ASSUME NEW S, 0 \in S, \A n \in Nat : n \in S => n + 1 \in S
  PROVE  Nat \subseteq S
<1> SUFFICES ASSUME Nat \ S # {} PROVE FALSE
  OBVIOUS
<1>1. PICK x \in Nat \ S : \A y \in Nat \ S : x <= y
  BY LeastNat, Zenon
<1>2. x # 0 /\ x - 1 \in Nat /\ (x - 1) + 1 = x
  BY <1>1
<1>3. x - 1 \in S
  BY <1>1, <1>2
<1> QED BY <1>1, <1>2, <1>3

(* KeptAddrs(), as a relation between a list and the results for its prefixes. *)
Step(acc, a) == IF Kept(a) THEN Append(acc, a) ELSE acc

Follows(f, s, m) ==
    /\ f = [n \in 0..m |-> f[n]] /\ f[0] = <<>>
    /\ \A n \in 1..m : f[n] = Step(f[n - 1], s[n])

(* The fold over a list of addresses exists: it is built one address at a    *)
(* time.                                                                     *)
LEMMA FollowsExists ==
  ASSUME NEW s \in Seq(Address), NEW m \in Nat
  PROVE  \E f : Follows(f, s, m)
<1> DEFINE S == {k \in Nat : \E f : Follows(f, s, k)}
<1>1. 0 \in S
  <2> DEFINE f == [n \in 0..0 |-> <<>>]
  <2>1. Follows(f, s, 0)
    BY DEF Follows
  <2> QED BY <2>1
<1>2. ASSUME NEW k \in Nat, k \in S PROVE k + 1 \in S
  <2>1. PICK f : Follows(f, s, k)
    BY <1>2
  <2> DEFINE new == Step(f[k], s[k + 1])
             g == [n \in 0..(k + 1) |-> IF n = k + 1 THEN new ELSE f[n]]
  <2> HIDE DEF new
  <2>2. g = [n \in 0..(k + 1) |-> g[n]] /\ g[0] = <<>>
    BY <2>1 DEF Follows
  <2>3. ASSUME NEW n \in 1..(k + 1) PROVE g[n] = Step(g[n - 1], s[n])
    <3>1. CASE n = k + 1
      BY <3>1 DEF new
    <3>2. CASE n # k + 1
      <4>1. n \in 1..k /\ n - 1 \in 0..(k + 1) /\ n \in 0..(k + 1) /\ n - 1 # k + 1
        BY <3>2
      <4> QED BY <4>1, <2>1, <3>2, Zenon DEF Follows
    <3> QED BY <3>1, <3>2
  <2>4. Follows(g, s, k + 1)
    BY <2>2, <2>3, Zenon DEF Follows
  <2> QED BY <2>4
<1> HIDE DEF S
<1>3. m \in S
  BY <1>1, <1>2, Induction
<1> QED BY <1>3 DEF S

(* Sanitizing a list keeps its type and the addresses that are kept.         *)
LEMMA KeptStay ==
  ASSUME NEW s \in Seq(Address)
  PROVE  /\ KeptAddrs(s) \in Seq(Address)
         /\ \A i \in DOMAIN s : Kept(s[i]) => s[i] \in Range(KeptAddrs(s))
<1> DEFINE Def(f) == [n \in 0..Len(s) |->
                IF n = 0 THEN <<>> ELSE IF Kept(s[n]) THEN Append(f[n - 1], s[n]) ELSE f[n - 1]]
           upto == CHOOSE f : f = Def(f)
<1>0. Len(s) \in Nat /\ DOMAIN s = 1..Len(s)
  OBVIOUS
<1>1. PICK f : Follows(f, s, Len(s))
  BY FollowsExists, <1>0
<1>2. f = Def(f)
  <2>1. ASSUME NEW n \in 0..Len(s) PROVE f[n] = Def(f)[n]
    <3>1. CASE n = 0
      BY <3>1, <1>1 DEF Follows
    <3>2. CASE n # 0
      <4>1. n \in 1..Len(s)
        BY <3>2, <1>0
      <4> QED BY <4>1, <3>2, <1>1 DEF Follows, Step
    <3> QED BY <3>1, <3>2
  <2> QED BY <2>1, <1>1, Zenon DEF Follows
<1>3. upto = Def(upto)
  BY <1>2, Zenon
<1>4. KeptAddrs(s) = upto[Len(s)]
  BY DEF KeptAddrs
<1> HIDE DEF upto
<1>5. upto[0] = <<>>
  BY <1>3, <1>0
<1>6. ASSUME NEW n \in 1..Len(s) PROVE upto[n] = Step(upto[n - 1], s[n])
  <2>1. n \in 0..Len(s) /\ n # 0
    BY <1>0
  <2> QED BY <2>1, <1>3, Zenon DEF Step
<1> DEFINE Good(n) == /\ upto[n] \in Seq(Address)
                      /\ \A i \in 1..n : Kept(s[i]) => \E j \in DOMAIN upto[n] : upto[n][j] = s[i]
           S == {n \in Nat : n <= Len(s) => Good(n)}
<1>7. 0 \in S
  <2>1. <<>> \in Seq(Address) /\ \A i \in 1..0 : FALSE
    OBVIOUS
  <2>2. Good(0)
    BY <2>1, <1>5
  <2> QED BY <2>2
<1>8. ASSUME NEW n \in Nat, n \in S PROVE n + 1 \in S
  <2> SUFFICES ASSUME n + 1 <= Len(s) PROVE Good(n + 1)
    OBVIOUS
  <2>1. Good(n) /\ n + 1 \in 1..Len(s) /\ (n + 1) - 1 = n /\ s[n + 1] \in Address
    BY <1>8, <1>0
  <2>2. upto[n + 1] = Step(upto[n], s[n + 1])
    BY <1>6, <2>1
  <2> DEFINE u == upto[n]
             a == s[n + 1]
  <2>3. upto[n + 1] \in Seq(Address)
    BY <2>1, <2>2 DEF Step
  <2>4. ASSUME NEW i \in 1..(n + 1), Kept(s[i])
        PROVE  \E j \in DOMAIN upto[n + 1] : upto[n + 1][j] = s[i]
    <3>1. CASE i = n + 1
      <4>1. upto[n + 1] = Append(u, a)
        BY <2>2, <2>4, <3>1 DEF Step
      <4>2. Len(u) + 1 \in DOMAIN Append(u, a) /\ Append(u, a)[Len(u) + 1] = a
        BY <2>1
      <4> QED BY <4>1, <4>2, <3>1
    <3>2. CASE i # n + 1
      <4>1. i \in 1..n
        BY <3>2
      <4>2. PICK j \in DOMAIN u : u[j] = s[i]
        BY <4>1, <2>1, <2>4
      <4>3. j \in DOMAIN Append(u, a) /\ Append(u, a)[j] = u[j]
        BY <2>1
      <4> QED BY <2>2, <4>2, <4>3 DEF Step
    <3> QED BY <3>1, <3>2
  <2> QED BY <2>3, <2>4
<1> HIDE DEF S
<1>9. Len(s) \in S
  BY <1>7, <1>8, <1>0, Induction
<1>10. Good(Len(s))
  BY <1>9, <1>0 DEF S
<1> QED BY <1>10, <1>4, <1>0 DEF Range

-----------------------------------------------------------------------------
AddrsTyped(c) == Addrs(c) \in Seq(Address)

(* What a partial request leaves of a static profile.                        *)
Keeps(des, old, new) ==
    IsStatic(old) /\ ~Has(des, "addresses") /\ IsEnabled(des) /\ ~IsDynamic(des)
        => StaticIps(old) \subseteq StaticIps(new)

(* sanitize() leaves a list of addresses.                                    *)
LEMMA SanitizeTyped ==
  ASSUME NEW c, AddrsTyped(c)
  PROVE  AddrsTyped(Sanitize(c))
<1> DEFINE void == IF Is(c, "dhcp", TRUE) THEN {} ELSE {"auto-gateway"}
           kept == Without(c, void)
<1>1. CASE ~IsEnabled(c)
  <2>1. Sanitize(c) = [enabled |-> FALSE]
    BY <1>1, Zenon DEF Sanitize
  <2>2. "addresses" \notin DOMAIN [enabled |-> FALSE] /\ <<>> \in Seq(Address)
    OBVIOUS
  <2> QED BY <2>1, <2>2 DEF AddrsTyped, Addrs, Has
<1>2. CASE IsEnabled(c) /\ Has(c, "addresses")
  <2>1. Sanitize(c) = [kept EXCEPT !["addresses"] = KeptAddrs(@)]
    BY <1>2, Zenon DEF Sanitize
  <2>2. "addresses" \in DOMAIN kept /\ kept["addresses"] = c["addresses"]
    BY <1>2 DEF Has, Without, Restrict
  <2>3. Sanitize(c)["addresses"] = KeptAddrs(c["addresses"]) /\ Has(Sanitize(c), "addresses")
    BY <2>1, <2>2, Zenon DEF Has
  <2>4. c["addresses"] \in Seq(Address)
    BY <1>2 DEF AddrsTyped, Addrs
  <2> QED BY <2>3, <2>4, KeptStay DEF AddrsTyped, Addrs
<1>3. CASE IsEnabled(c) /\ ~Has(c, "addresses")
  <2>1. Sanitize(c) = kept
    BY <1>3, Zenon DEF Sanitize
  <2>2. "addresses" \notin DOMAIN kept /\ <<>> \in Seq(Address)
    BY <1>3 DEF Has, Without, Restrict
  <2> QED BY <2>1, <2>2 DEF AddrsTyped, Addrs, Has
<1> QED BY <1>1, <1>2, <1>3

(* Ipv6Config::sanitize() and its IPv4 namesake: static addresses stay.      *)
LEMMA SanitizeKeeps ==
  ASSUME NEW c, AddrsTyped(c), IsEnabled(c), Has(c, "addresses")
  PROVE  StaticIps(c) \subseteq StaticIps(Sanitize(c))
<1> DEFINE void == IF Is(c, "dhcp", TRUE) THEN {} ELSE {"auto-gateway"}
           kept == Without(c, void)
           s == c["addresses"]
<1>1. s \in Seq(Address) /\ Addrs(c) = s
  BY DEF AddrsTyped, Addrs
<1>2. Sanitize(c) = [kept EXCEPT !["addresses"] = KeptAddrs(@)]
  BY Zenon DEF Sanitize
<1>3. "addresses" \in DOMAIN kept /\ kept["addresses"] = s
  BY DEF Has, Without, Restrict
<1>4. Addrs(Sanitize(c)) = KeptAddrs(s)
  BY <1>2, <1>3, Zenon DEF Has, Addrs
<1> HIDE DEF s
<1> SUFFICES ASSUME NEW a \in Range(s), ~IsAuto(a), a # LinkLocal
             PROVE  a \in Range(KeptAddrs(s))
  BY <1>1, <1>4, Zenon DEF StaticIps
<1>5. PICK i \in DOMAIN s : a = s[i]
  BY DEF Range
<1> QED BY <1>1, <1>5, KeptStay DEF Kept

(* merge() and post_merge() leave a list of addresses.                       *)
LEMMA MergeTyped ==
  ASSUME NEW des, NEW old, AddrsTyped(des), AddrsTyped(old)
  PROVE  AddrsTyped(Merge(des, old))
<1> DEFINE new == Over(des, old)
           kept == IF IsDynamic(new) THEN new ELSE Without(new, {"auto-gateway"})
<1>1. AddrsTyped(new)
  BY DEF AddrsTyped, Addrs, Has, Over
<1>2. (Has(kept, "addresses") <=> Has(new, "addresses"))
        /\ (Has(new, "addresses") => kept["addresses"] = new["addresses"])
  BY DEF Has, Without, Restrict
<1>3. AddrsTyped(kept)
  BY <1>1, <1>2, Zenon DEF AddrsTyped, Addrs
<1> HIDE DEF kept
<1>4. CASE Merge(des, old) = kept
  BY <1>3, <1>4
<1>5. CASE /\ Has(new, "addresses")
           /\ Merge(des, old) = [kept EXCEPT !["addresses"] = [i \in DOMAIN @ |-> Forever(@[i].ip)]]
  <2> DEFINE s == kept["addresses"]
             t == [i \in DOMAIN s |-> Forever(s[i].ip)]
  <2>1. s \in Seq(Address)
    BY <1>2, <1>3, <1>5 DEF AddrsTyped, Addrs
  <2>2. \A i \in DOMAIN s : Forever(s[i].ip) \in Address
    <3> SUFFICES ASSUME NEW i \in DOMAIN s PROVE Forever(s[i].ip) \in Address
      OBVIOUS
    <3>1. s[i] \in Address
      BY <2>1
    <3> QED BY <3>1 DEF Forever, Address
  <2>3. t \in Seq(Address)
    BY <2>1, <2>2
  <2>4. Merge(des, old)["addresses"] = t /\ Has(Merge(des, old), "addresses")
    BY <1>2, <1>5 DEF Has
  <2> QED BY <2>3, <2>4 DEF AddrsTyped, Addrs
<1> QED BY <1>4, <1>5, Zenon DEF Merge, PostMerge, kept

(* The full configuration has a list of addresses.                           *)
LEMMA FillTyped ==
  ASSUME NEW des, NEW cur, NEW old, NEW save, AddrsTyped(save), old # Nothing
  PROVE  AddrsTyped(FillForApply(des, cur, old, save))
<1>1. FillForApply(des, cur, old, save) \in {save, Without(save, {"addresses"})}
  BY DEF FillForApply
<1>2. ~Has(Without(save, {"addresses"}), "addresses") /\ <<>> \in Seq(Address)
  BY DEF Has, Without, Restrict
<1> QED BY <1>1, <1>2 DEF AddrsTyped, Addrs

(* MergedIpConfig: a request that names no addresses and switches nothing    *)
(* leaves the static ones in the profile.                                    *)
LEMMA ProfileKeeps ==
  ASSUME NEW des, NEW cur, NEW old, AddrsTyped(des), old # Nothing => AddrsTyped(old)
  PROVE  /\ AddrsTyped(MergedIp(des, cur, old).save)
         /\ old # Nothing => Keeps(des, old, MergedIp(des, cur, old).save)
<1> DEFINE save == IF old = Nothing THEN des ELSE Merge(des, old)
           full == FillForApply(des, cur, old, save)
           pick == IF old = Nothing THEN save ELSE full
<1>1. MergedIp(des, cur, old).save = save \/ MergedIp(des, cur, old).save = Sanitize(pick)
  BY DEF MergedIp
<1>2. AddrsTyped(save)
  BY MergeTyped
<1>3. AddrsTyped(pick)
  BY <1>2, FillTyped
<1>4. AddrsTyped(MergedIp(des, cur, old).save)
  BY <1>1, <1>2, <1>3, SanitizeTyped
<1>5. ASSUME old # Nothing, IsStatic(old), ~Has(des, "addresses"), IsEnabled(des), ~IsDynamic(des)
      PROVE  StaticIps(old) \subseteq StaticIps(MergedIp(des, cur, old).save)
  <2> DEFINE new == Over(des, old)
  <2>1. IsEnabled(old) /\ ~IsDynamic(old) /\ Addrs(old) # <<>> /\ Has(old, "addresses")
    BY <1>5 DEF IsStatic, Addrs
  <2>2. IsEnabled(new) /\ ~IsDynamic(new) /\ Has(new, "addresses") /\ new["addresses"] = old["addresses"]
    BY <1>5, <2>1, Zenon DEF IsEnabled, IsDynamic, Is, Has, Over
  <2>3. save = Without(new, {"auto-gateway"})
    BY <1>5, <2>1, <2>2 DEF Merge, PostMerge
  <2>4. Has(save, "addresses") /\ save["addresses"] = old["addresses"] /\ IsEnabled(save)
    BY <2>2, <2>3 DEF Has, Without, Restrict, IsEnabled, Is
  <2>5. StaticIps(save) = StaticIps(old)
    BY <2>1, <2>4, Zenon DEF StaticIps, Addrs
  <2>6. full = save
    BY <1>5, <2>1, Zenon DEF FillForApply, IsDynamic
  <2> HIDE DEF save
  <2>7. StaticIps(save) \subseteq StaticIps(Sanitize(save))
    BY <1>2, <2>4, SanitizeKeeps
  <2> QED BY <1>1, <1>5, <2>5, <2>6, <2>7
<1> QED BY <1>4, <1>5 DEF Keeps

-----------------------------------------------------------------------------
TxFields == {"pc", "des", "persist", "plan", "todo", "tries", "undo", "disturbed", "revert"}

(* What an apply that is not undone will save.                               *)
AddressInv ==
    /\ family \in DOMAIN IpRequests
    /\ profile # Nothing => AddrsTyped(profile)
    /\ tx = Idle \/ (tx = [o \in TxFields |-> tx[o]] /\ tx.pc \in {"addr", "dhcp", "verify"})
    /\ tx # Idle => /\ tx.pc = "verify" => tx.undo = FALSE
                    /\ tx.undo = FALSE =>
                         /\ AddrsTyped(tx.plan.save)
                         /\ profile # Nothing => Keeps(tx.des, profile, tx.plan.save)

(* An interface without profile.                                             *)
LEMMA AddressInitInv == AddressInit => AddressInv
  BY DEF AddressInit, AddressInv

(* A request is merged with the profile of this moment, which no other step  *)
(* changes before the apply ends.                                            *)
LEMMA RequestInv ==
  ASSUME AddressAssumption, AddressInv, NEW r \in IpRequests[family], NEW persist \in BOOLEAN,
         Request(r, persist)
  PROVE  AddressInv'
<1> DEFINE plan == Plan(r, profile)
<1>1. /\ tx' = [pc |-> "addr", des |-> r, persist |-> persist, plan |-> plan,
                todo |-> plan.acts, tries |-> 1, undo |-> FALSE, disturbed |-> job # Nothing,
                revert |-> IF plan.apply = Nothing THEN Nothing ELSE Current]
      /\ UNCHANGED <<family, profile>>
  BY DEF Request
<1>2. plan.save = MergedIp(r, Current, profile).save
  BY Zenon DEF Plan
<1>3. AddrsTyped(r) /\ (profile # Nothing => AddrsTyped(profile))
  BY DEF AddressAssumption, AddressInv, AddrsTyped
<1>4. AddrsTyped(plan.save) /\ (profile # Nothing => Keeps(r, profile, plan.save))
  BY <1>2, <1>3, ProfileKeeps, Zenon
<1> HIDE DEF plan
<1>5. /\ tx'.pc = "addr" /\ tx'.undo = FALSE /\ tx'.des = r /\ tx'.plan = plan
      /\ tx' = [o \in TxFields |-> tx'[o]] /\ tx' # Idle
  BY <1>1, Zenon DEF TxFields, Idle
<1> QED BY <1>1, <1>3, <1>4, <1>5, Zenon DEF AddressInv

(* Every other step leaves the plan alone, replaces it by that of the        *)
(* rollback, or ends the apply.                                              *)
LEMMA TxStepInv ==
  ASSUME AddressInv, UNCHANGED <<family, profile>>,
         \/ tx' = tx
         \/ tx' = Idle
         \/ /\ tx # Idle /\ tx' = [o \in TxFields |-> tx'[o]]
            /\ tx'.pc \in {"addr", "dhcp", "verify"}
            /\ \/ /\ tx'.undo = TRUE /\ tx'.pc # "verify"
               \/ /\ tx'.undo = tx.undo /\ tx'.plan = tx.plan /\ tx'.des = tx.des
                  /\ tx'.pc = "verify" => tx.undo = FALSE
  PROVE  AddressInv'
BY DEF AddressInv

(* Every step keeps the invariant, and only VerifyAndSave changes the        *)
(* profile.                                                                  *)
LEMMA AddressNextInv ==
  ASSUME AddressAssumption, AddressInv, [AddressNext]_addressVars
  PROVE  AddressInv' /\ AddressesStayStep
<1> DEFINE Active == tx # Idle /\ tx = [o \in TxFields |-> tx[o]] /\ tx.pc \in {"addr", "dhcp", "verify"}
<1>0. tx # Idle => Active
  BY DEF AddressInv
<1>1. CASE UNCHANGED addressVars
  BY <1>1 DEF addressVars, AddressInv, AddressesStayStep
<1>2. CASE \E r \in IpRequests[family], persist \in BOOLEAN : Request(r, persist)
  BY <1>2, RequestInv, Zenon DEF Request, AddressesStayStep
<1>3. CASE AddressStep
  <2>1. UNCHANGED <<family, profile>> /\ tx # Idle
    BY <1>3 DEF AddressStep, Idle
  <2>2. tx' = [tx EXCEPT !.pc = "dhcp"] \/ tx' = [tx EXCEPT !.todo = Tail(@)]
    BY <1>3 DEF AddressStep
  <2>3. tx' = [o \in TxFields |-> tx'[o]] /\ tx'.undo = tx.undo /\ tx'.plan = tx.plan /\ tx'.des = tx.des
          /\ tx'.pc \in {"addr", "dhcp"}
    BY <1>0, <1>3, <2>1, <2>2, Zenon DEF TxFields, AddressStep
  <2> QED BY <2>1, <2>3, TxStepInv, Zenon DEF AddressesStayStep
<1>4. ASSUME tx # Idle, BeginRollback, UNCHANGED <<family, profile>>
      PROVE  AddressInv' /\ AddressesStayStep
  <2> DEFINE plan == Plan(tx.revert, Nothing)
  <2>1. CASE tx' = Idle
    BY <1>4, <2>1, TxStepInv DEF AddressesStayStep
  <2>2. CASE tx' = [tx EXCEPT !.pc = "addr", !.plan = plan, !.todo = plan.acts, !.undo = TRUE]
    <3> HIDE DEF plan
    <3>1. tx' = [o \in TxFields |-> tx'[o]] /\ tx'.undo = TRUE /\ tx'.pc = "addr"
      BY <1>0, <1>4, <2>2, Zenon DEF TxFields
    <3> QED BY <1>4, <3>1, TxStepInv, Zenon DEF AddressesStayStep
  <2> QED BY <1>4, <2>1, <2>2 DEF BeginRollback
<1>5. CASE AddressRefused
  BY <1>4, <1>5 DEF AddressRefused, Idle
<1>6. CASE ApplyDhcpConfig
  <2>0. UNCHANGED <<family, profile>> /\ tx.pc = "dhcp"
    BY <1>6, Zenon DEF ApplyDhcpConfig
  <2>1. UNCHANGED <<family, profile>> /\ tx # Idle
    BY <2>0 DEF Idle
  <2>2. tx' = Idle \/ (~tx.undo /\ tx' = [tx EXCEPT !.pc = "verify"])
    BY <1>6, Zenon DEF ApplyDhcpConfig
  <2>3. CASE tx' = Idle
    BY <2>1, <2>3, TxStepInv DEF AddressesStayStep
  <2>4. CASE ~tx.undo /\ tx' = [tx EXCEPT !.pc = "verify"]
    BY <1>0, <2>1, <2>4 DEF TxFields, AddressInv, AddressesStayStep
  <2> QED BY <2>2, <2>3, <2>4
<1>7. CASE VerifyAndSave
  <2>1. tx.pc = "verify" /\ tx # Idle /\ tx' = Idle /\ UNCHANGED family
    BY <1>7 DEF VerifyAndSave, Idle
  <2>2. AddrsTyped(tx.plan.save) /\ (profile # Nothing => Keeps(tx.des, profile, tx.plan.save))
    BY <2>1 DEF AddressInv
  <2>3. profile' = tx.plan.save \/ profile' = profile
    BY <1>7 DEF VerifyAndSave
  <2>4. AddressInv'
    BY <2>1, <2>2, <2>3 DEF AddressInv
  <2>5. AddressesStayStep
    BY <2>2, <2>3 DEF AddressesStayStep, Keeps
  <2> QED BY <2>4, <2>5
<1>8. CASE RetryApply
  <2>1. UNCHANGED <<family, profile>> /\ tx # Idle /\ tx.pc = "verify"
    BY <1>8 DEF RetryApply, Idle
  <2>2. tx' = [tx EXCEPT !.pc = "addr", !.tries = @ + 1, !.todo = tx.plan.acts]
    BY <1>8 DEF RetryApply
  <2>3. tx' = [o \in TxFields |-> tx'[o]] /\ tx'.undo = tx.undo /\ tx'.plan = tx.plan /\ tx'.des = tx.des
          /\ tx'.pc = "addr"
    BY <1>0, <2>1, <2>2, Zenon DEF TxFields
  <2> QED BY <2>1, <2>3, TxStepInv DEF AddressesStayStep
<1>9. CASE Rollback
  BY <1>4, <1>9 DEF Rollback, Idle
<1>10. ASSUME Disturbed, UNCHANGED <<family, profile>> PROVE AddressInv' /\ AddressesStayStep
  <2>1. CASE tx' = tx
    BY <1>10, <2>1, TxStepInv DEF AddressesStayStep
  <2>2. CASE tx.pc # "idle" /\ tx' = [tx EXCEPT !.disturbed = TRUE]
    <3>1. tx # Idle
      BY <2>2 DEF Idle
    <3>2. tx' = [o \in TxFields |-> tx'[o]] /\ tx'.undo = tx.undo /\ tx'.plan = tx.plan /\ tx'.des = tx.des
            /\ tx'.pc = tx.pc
      BY <1>0, <2>2, <3>1, Zenon DEF TxFields
    <3> QED BY <1>0, <1>10, <3>1, <3>2, TxStepInv, Zenon DEF AddressesStayStep, AddressInv
  <2> QED BY <1>10, <2>1, <2>2 DEF Disturbed
<1>11. CASE ApplyLease \/ LeaseStep \/ RouterAdvertisement
  BY <1>10, <1>11, Zenon DEF ApplyLease, LeaseStep, RouterAdvertisement
<1> QED BY <1>1, <1>2, <1>3, <1>5, <1>6, <1>7, <1>8, <1>9, <1>11 DEF AddressNext

(* BaseInterface::sanitize() and MergedIpConfig: static addresses leave a    *)
(* static profile only by a request that lists addresses, turns the family   *)
(* off or switches it to automatic, for any requests, leases, router         *)
(* advertisements, refused messages, retries and rollbacks.                  *)
THEOREM AddressesStay == ASSUME AddressAssumption PROVE AddressSpec => SavedAddressesStay
<1>1. AddressInv /\ [AddressNext]_addressVars => AddressInv' /\ [AddressesStayStep]_addressVars
  BY AddressNextInv
<1> QED BY <1>1, AddressInitInv, PTL DEF AddressSpec, SavedAddressesStay
===============================================================================
