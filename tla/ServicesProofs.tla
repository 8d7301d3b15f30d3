--------------------------- MODULE ServicesProofs ---------------------------
(***************************************************************************)
(* What runs beside an apply.  Services: what the automatic DNS refresh    *)
(* leaves behind, for any interfaces, leases, requests and numbers of DHCP *)
(* clients.  Plugins: what a transaction leaves in the plugins, for any    *)
(* plugins, requests, tries and crashes.                                   *)
(***************************************************************************)
EXTENDS Services, Plugins, TLAPS

(* The locals of the main loop and of the apply are records, and failures    *)
(* are counted.                                                              *)
Shape ==
  /\ faults \in Nat
  /\ {"pc", "saved", "snap"} \subseteq DOMAIN loop
  /\ {"pc", "want", "snap", "attempt", "ran"} \subseteq DOMAIN apply
  /\ apply.pc \in {"boot", "idle", "collect", "write", "cache", "dhcp",
                   "verify", "rollback"}
  /\ loop.pc \in {"idle", "collect", "write", "cache"}

(* Nothing failed and no refresh met an apply inside the resolver.           *)
Calm == faults = 0 /\ ~overlap

Serves(section, s) ==
  /\ section = "on" => cache = [auto |-> SnapshotServers(s)]
  /\ section = "off" => cache = None

(* The inductive invariant.  While nothing fails and the two do not meet, a  *)
(* refresh in progress works with the saved section and the snapshot it      *)
(* recorded; an apply past its write is the later writer; and what the       *)
(* refresh wrote last agrees with both until someone else writes.            *)
RefreshInv ==
  Calm =>
    /\ LoopMid => ~ApplyMid /\ loop.snap = last /\ loop.saved = saved
    /\ ApplyMid /\ apply.pc # "write" => writer # "refresh"
    /\ writer = "refresh" /\ loop.pc # "write" => resolv = Render(saved, last)
    /\ writer = "refresh" /\ ~LoopMid => Serves(saved.cache, last)

IInv == Shape /\ RefreshInv

LEMMA FaultCounts ==
  ASSUME faults \in Nat, Fault
  PROVE  faults' \in Nat /\ faults' # 0
  BY DEF Fault

LEMMA InitInv == Init => IInv
  BY DEF Init, IInv, Shape, RefreshInv, LoopMid, ApplyMid, NoApply

(* A DHCP client touches the resolver only through a kernel-only apply.      *)
LEMMA ClientInv ==
  ASSUME IInv, NEW c \in Clients, ClientStep(c)
  PROVE  IInv'
  <1> USE DEF IInv
  <1>1. UNCHANGED <<loop, last, saved, cache, apply, overlap>>
    BY Zenon DEF ClientStep, CarrierUp, CarrierFails, GetLease, InstallLease,
           InstallFails, RunFails, WakeUp, Reinit, ReinitFails, Quit,
           ClientFrame
  <1>2. faults' \in Nat /\ (faults' = 0 => faults = 0)
    <2>1. Fault \/ faults' = faults
      BY Zenon DEF ClientStep, CarrierUp, CarrierFails, GetLease, InstallLease,
             InstallFails, RunFails, WakeUp, Reinit, ReinitFails, Quit
    <2> QED BY <2>1, FaultCounts DEF Shape
  <1>3. writer' = "bare" \/ UNCHANGED <<writer, resolv>>
    BY Zenon DEF ClientStep, CarrierUp, CarrierFails, GetLease, InstallLease,
           InstallFails, RunFails, WakeUp, Reinit, ReinitFails, Quit
  <1>4. Shape'
    BY <1>1, <1>2 DEF Shape
  <1>5. RefreshInv'
    BY <1>1, <1>2, <1>3 DEF RefreshInv, Calm, LoopMid, ApplyMid, Serves
  <1> QED BY <1>4, <1>5

(* The main loop.                                                            *)
LEMMA LoopInv ==
  ASSUME IInv, LoopStep
  PROVE  IInv'
  <1> USE DEF IInv
  <1>u. UNCHANGED <<saved, apply>>
    BY DEF LoopStep, HandleLeaseApplied, HandleGatewayChanged, RefreshAutoDns,
           RefreshResolver, RefreshCache, RefreshFails, LoopFrame
  <1>1. CASE HandleLeaseApplied
    <2>1. Fault \/ faults' = faults
      BY <1>1 DEF HandleLeaseApplied
    <2>2. faults' \in Nat /\ (faults' = 0 => faults = 0)
      BY <2>1, FaultCounts DEF Shape
    <2>3. /\ loop.pc = "idle" /\ loop' = [loop EXCEPT !.pc = "collect"]
          /\ UNCHANGED <<last, cache, overlap>>
          /\ writer' = "bare" \/ UNCHANGED <<writer, resolv>>
      BY <1>1 DEF HandleLeaseApplied
    <2>4. loop'.pc = "collect" /\ DOMAIN loop' = DOMAIN loop
      BY <2>3 DEF Shape
    <2>5. Shape'
      BY <1>u, <2>2, <2>4 DEF Shape
    <2>6. RefreshInv'
      BY <1>u, <2>2, <2>3, <2>4 DEF RefreshInv, Calm, LoopMid, ApplyMid, Serves
    <2> QED BY <2>5, <2>6
  <1>2. CASE HandleGatewayChanged
    <2>1. UNCHANGED <<loop, last, resolv, cache, writer, overlap, faults>>
      BY <1>2 DEF HandleGatewayChanged
    <2> QED BY <1>u, <2>1 DEF Shape, RefreshInv, Calm, LoopMid, ApplyMid, Serves
  <1>3. CASE RefreshAutoDns
    <2>0. UNCHANGED <<resolv, cache, writer, faults>> /\ loop.pc \in {"idle", "collect"}
      BY <1>3 DEF RefreshAutoDns
    <2>1. CASE CollectAutoDns = last
      <3>1. loop' = [loop EXCEPT !.pc = "idle"] /\ UNCHANGED <<last, overlap>>
        BY <1>3, <2>1 DEF RefreshAutoDns
      <3>2. loop'.pc = "idle" /\ DOMAIN loop' = DOMAIN loop
        BY <3>1 DEF Shape
      <3>3. Shape'
        BY <1>u, <2>0, <3>2 DEF Shape
      <3>4. RefreshInv'
        BY <1>u, <2>0, <3>1, <3>2 DEF RefreshInv, Calm, LoopMid, ApplyMid, Serves
      <3> QED BY <3>3, <3>4
    <2>2. CASE CollectAutoDns # last
      <3>1. /\ loop' = [loop EXCEPT !.pc = "write", !.snap = CollectAutoDns,
                                    !.saved = saved]
            /\ last' = CollectAutoDns /\ overlap' = (overlap \/ ApplyMid)
        BY <1>3, <2>2 DEF RefreshAutoDns
      <3>2. /\ loop'.pc = "write" /\ loop'.snap = last' /\ loop'.saved = saved'
            /\ DOMAIN loop' = DOMAIN loop
        BY <1>u, <3>1 DEF Shape
      <3>3. Shape'
        BY <1>u, <2>0, <3>2 DEF Shape
      <3>4. Calm' => Calm /\ ~ApplyMid
        BY <2>0, <3>1, Zenon DEF Calm
      <3>5. ApplyMid' <=> ApplyMid
        BY <1>u DEF ApplyMid
      <3>6. RefreshInv'
        BY <3>2, <3>4, <3>5 DEF RefreshInv, LoopMid
      <3> QED BY <3>3, <3>6
    <2> QED BY <2>1, <2>2
  <1>4. CASE RefreshResolver
    <2>1. /\ loop.pc = "write" /\ loop' = [loop EXCEPT !.pc = "cache"]
          /\ resolv' = Render(loop.saved, loop.snap)
          /\ UNCHANGED <<last, cache, overlap, faults>>
      BY <1>4 DEF RefreshResolver
    <2>2. /\ loop'.pc = "cache" /\ loop'.snap = loop.snap
          /\ loop'.saved = loop.saved /\ DOMAIN loop' = DOMAIN loop
      BY <2>1 DEF Shape
    <2>3. Shape'
      BY <1>u, <2>1, <2>2 DEF Shape
    <2>4. Calm' => Calm
      BY <2>1 DEF Calm
    <2>5. LoopMid /\ LoopMid' /\ (ApplyMid' <=> ApplyMid)
      BY <1>u, <2>1, <2>2 DEF LoopMid, ApplyMid
    <2>6. Calm => ~ApplyMid /\ loop.snap = last /\ loop.saved = saved
      BY <2>5 DEF RefreshInv
    <2>7. Calm => resolv' = Render(saved', last')
      BY <1>u, <2>1, <2>6 DEF Render
    <2>8. RefreshInv'
      BY <1>u, <2>1, <2>2, <2>4, <2>5, <2>6, <2>7 DEF RefreshInv
    <2> QED BY <2>3, <2>8
  <1>5. CASE RefreshCache
    <2>1. /\ loop.pc = "cache" /\ UNCHANGED <<last, resolv, writer, overlap>>
          /\ loop' = [loop EXCEPT !.pc = "idle", !.saved = None, !.snap = <<>>]
          /\ \/ /\ cache' = ApplyCacheConfig(loop.saved.cache, loop.snap)
                /\ faults' = faults
             \/ Fault
      BY <1>5 DEF RefreshCache
    <2>2. loop'.pc = "idle" /\ DOMAIN loop' = DOMAIN loop
      BY <2>1 DEF Shape
    <2>3. faults' \in Nat /\ (Fault => faults' # 0)
      BY <2>1, FaultCounts DEF Shape
    <2>4. Shape'
      BY <1>u, <2>2, <2>3 DEF Shape
    <2>5. Calm' => Calm /\ cache' = ApplyCacheConfig(loop.saved.cache, loop.snap)
      BY <2>1, <2>3 DEF Calm
    <2>6. LoopMid /\ ~LoopMid' /\ (ApplyMid' <=> ApplyMid)
      BY <1>u, <2>1, <2>2 DEF LoopMid, ApplyMid
    <2>7. Calm => ~ApplyMid /\ loop.snap = last /\ loop.saved = saved
      BY <2>6 DEF RefreshInv
    <2>8. Calm' => Serves(saved.cache, last)'
      BY <1>u, <2>1, <2>5, <2>7 DEF Serves, ApplyCacheConfig
    <2>9. Calm' /\ writer' = "refresh" => resolv' = Render(saved', last')
      BY <1>u, <2>1, <2>5 DEF RefreshInv, Render
    <2>10. RefreshInv'
      BY <2>5, <2>6, <2>7, <2>8, <2>9 DEF RefreshInv
    <2> QED BY <2>4, <2>10
  <1>6. CASE RefreshFails
    <2>1. /\ loop' = [loop EXCEPT !.pc = "idle", !.saved = None, !.snap = <<>>]
          /\ Fault
      BY <1>6 DEF RefreshFails
    <2>2. loop'.pc = "idle" /\ DOMAIN loop' = DOMAIN loop
      BY <2>1 DEF Shape
    <2>3. faults' \in Nat /\ faults' # 0
      BY <2>1, FaultCounts DEF Shape
    <2> QED BY <1>u, <2>2, <2>3 DEF Shape, RefreshInv, Calm
  <1> QED BY <1>1, <1>2, <1>3, <1>4, <1>5, <1>6 DEF LoopStep

(* The apply: it saves only as the later writer, and it enters the resolver  *)
(* beside a refresh only at the price of Calm.                               *)
LEMMA ApplyInv ==
  ASSUME IInv, ApplyStep
  PROVE  IInv'
  <1> USE DEF IInv
  <1>u. UNCHANGED <<loop, last>>
    BY Zenon DEF ApplyStep, RestoreSavedDns, BeginApply, ApplyCollect, ApplyResolver,
           ApplyCache, ApplyDhcp, ApplySave, ApplyFails, VerifyFails, Rollback,
           ApplyFrame
  <1>l. LoopMid' <=> LoopMid
    BY <1>u DEF LoopMid
  <1>n. {"pc", "want", "snap", "attempt", "ran"} \subseteq DOMAIN NoApply
    BY DEF NoApply
  <1>1. CASE RestoreSavedDns
    <2>1. /\ apply.pc = "boot" /\ apply' = [apply EXCEPT !.pc = "idle"]
          /\ UNCHANGED <<saved, overlap>>
          /\ Fault \/ faults' = faults
          /\ writer' = "apply" \/ UNCHANGED <<writer, resolv, cache>>
      BY <1>1 DEF RestoreSavedDns
    <2>2. apply'.pc = "idle" /\ DOMAIN apply' = DOMAIN apply
      BY <2>1 DEF Shape
    <2>3. faults' \in Nat /\ (faults' = 0 => faults = 0)
      BY <2>1, FaultCounts DEF Shape
    <2>4. Shape'
      BY <1>u, <2>2, <2>3 DEF Shape
    <2>5. RefreshInv'
      BY <1>u, <1>l, <2>1, <2>2, <2>3 DEF RefreshInv, Calm, ApplyMid, Serves
    <2> QED BY <2>4, <2>5
  <1>2. CASE \E r \in Requests : BeginApply(r)
    <2>1. /\ apply'.pc = "collect" /\ DOMAIN apply' = DOMAIN NoApply
          /\ UNCHANGED <<saved, resolv, cache, writer, overlap, faults>>
      BY <1>2 DEF BeginApply, NoApply
    <2>2. Shape'
      BY <1>u, <1>n, <2>1 DEF Shape
    <2>3. RefreshInv'
      BY <1>u, <1>l, <2>1 DEF RefreshInv, Calm, ApplyMid, Serves
    <2> QED BY <2>2, <2>3
  <1>3. CASE ApplyCollect
    <2>1. /\ apply' = [apply EXCEPT !.pc = "write", !.snap = CollectAutoDns]
          /\ overlap' = (overlap \/ LoopMid)
          /\ UNCHANGED <<saved, resolv, cache, writer, faults>>
      BY <1>3 DEF ApplyCollect
    <2>2. apply'.pc = "write" /\ DOMAIN apply' = DOMAIN apply
      BY <2>1 DEF Shape
    <2>3. Shape'
      BY <1>u, <2>1, <2>2 DEF Shape
    <2>4. Calm' => Calm /\ ~LoopMid
      BY <2>1, Zenon DEF Calm
    <2>5. RefreshInv'
      BY <1>u, <1>l, <2>1, <2>2, <2>4 DEF RefreshInv, LoopMid, Serves
    <2> QED BY <2>3, <2>5
  <1>4. CASE ApplyResolver
    <2>1. /\ apply.pc = "write" /\ writer' = "apply"
          /\ apply' = [apply EXCEPT !.pc = IF apply.want.dns = None
                                             THEN "dhcp" ELSE "cache"]
          /\ UNCHANGED <<saved, cache, overlap, faults>>
      BY <1>4 DEF ApplyResolver
    <2>2. apply'.pc \in {"dhcp", "cache"} /\ DOMAIN apply' = DOMAIN apply
      BY <2>1 DEF Shape
    <2>3. Shape'
      BY <1>u, <2>1, <2>2 DEF Shape
    <2>4. RefreshInv'
      BY <1>u, <1>l, <2>1, <2>2 DEF RefreshInv, Calm, ApplyMid
    <2> QED BY <2>3, <2>4
  <1>5. CASE ApplyCache \/ ApplyDhcp
    <2>1. /\ apply.pc \in {"cache", "dhcp"}
          /\ \/ apply' = [apply EXCEPT !.pc = "dhcp"]
             \/ apply' = [apply EXCEPT !.pc = "verify", !.ran = TRUE]
          /\ UNCHANGED <<saved, resolv, writer, overlap, faults>>
      BY <1>5 DEF ApplyCache, ApplyDhcp
    <2>2. apply'.pc \in {"dhcp", "verify"} /\ DOMAIN apply' = DOMAIN apply
      BY <2>1, Zenon DEF Shape
    <2>3. Shape'
      BY <1>u, <2>1, <2>2 DEF Shape
    <2>4. RefreshInv'
      BY <1>u, <1>l, <2>1, <2>2 DEF RefreshInv, Calm, ApplyMid
    <2> QED BY <2>3, <2>4
  <1>6. CASE ApplySave
    <2>1. /\ apply.pc = "verify" /\ apply' = NoApply
          /\ UNCHANGED <<writer, overlap, faults>>
      BY <1>6 DEF ApplySave
    <2>2. apply'.pc = "idle" /\ DOMAIN apply' = DOMAIN NoApply
      BY <2>1 DEF NoApply
    <2>3. Shape'
      BY <1>u, <1>n, <2>1, <2>2 DEF Shape
    <2>4. Calm => ~LoopMid /\ writer # "refresh"
      BY <2>1 DEF RefreshInv, ApplyMid
    <2>5. RefreshInv'
      BY <1>l, <2>1, <2>4 DEF RefreshInv, Calm, ApplyMid, NoApply
    <2> QED BY <2>3, <2>5
  <1>7. CASE ApplyFails \/ VerifyFails
    <2>1. RetryOrRollback /\ (Fault \/ faults' = faults + 1)
      BY <1>7 DEF ApplyFails, VerifyFails
    <2>2. faults' \in Nat /\ faults' # 0
      BY <2>1, FaultCounts DEF Shape
    <2>3. apply'.pc \in {"collect", "rollback"} /\ DOMAIN apply' = DOMAIN apply
      BY <2>1, Zenon DEF RetryOrRollback, Shape
    <2> QED BY <1>u, <2>2, <2>3 DEF Shape, RefreshInv, Calm
  <1>8. CASE Rollback
    <2>1. /\ apply.pc = "rollback" /\ apply' = NoApply
          /\ UNCHANGED <<saved, cache, overlap>>
          /\ Fault \/ (faults' = faults /\ writer' = "rollback")
      BY <1>8, Zenon DEF Rollback
    <2>2. apply'.pc = "idle" /\ DOMAIN apply' = DOMAIN NoApply
      BY <2>1 DEF NoApply
    <2>3. faults' \in Nat /\ (Fault => faults' # 0)
      BY <2>1, FaultCounts DEF Shape
    <2>4. Shape'
      BY <1>u, <1>n, <2>2, <2>3 DEF Shape
    <2>5. Calm' => Calm /\ writer' = "rollback"
      BY <2>1, <2>3 DEF Calm
    <2>6. Calm' => ~LoopMid'
      BY <1>l, <2>1, <2>5 DEF RefreshInv, ApplyMid
    <2>7. RefreshInv'
      BY <2>2, <2>5, <2>6 DEF RefreshInv, ApplyMid
    <2> QED BY <2>4, <2>7
  <1> QED
    BY <1>1, <1>2, <1>3, <1>4, <1>5, <1>6, <1>7, <1>8 DEF ApplyStep

(* IInv holds throughout.                                                    *)
LEMMA Invariance == Spec => []IInv
  <1>1. IInv /\ [Next]_vars => IInv'
    <2> SUFFICES ASSUME IInv, [Next]_vars PROVE IInv'
      OBVIOUS
    <2>1. CASE Next
      BY <2>1, ClientInv, LoopInv, ApplyInv DEF Next
    <2>2. CASE UNCHANGED vars
      BY <2>2 DEF vars, IInv, Shape, RefreshInv, Calm, LoopMid, ApplyMid, Serves
    <2> QED BY <2>1, <2>2
  <1> QED BY InitInv, <1>1, PTL DEF Spec

(* refresh_auto_dns (daemon.rs) keeps the host resolver current, whatever the *)
(* clients, the applies and the boot do in between.                           *)
THEOREM RefreshKeepsCurrent == Spec => []RefreshedResolverIsCurrent
  <1>1. IInv => RefreshedResolverIsCurrent
    BY DEF IInv, RefreshInv, Calm, Quiet, LoopMid, Serves,
           RefreshedResolverIsCurrent
  <1> QED BY Invariance, <1>1, PTL

-----------------------------------------------------------------------------
(* Plugins.                                                                  *)
States == {"none", "starting", "listening", "dead"}

IsCall(c) == {"p", "val", "n", "sent", "waited"} \subseteq DOMAIN c /\ c.p \in Plugin

PluginShape ==
    /\ child \in [Plugin -> States]
    /\ DOMAIN held = Plugin
    /\ {"pc", "left", "known"} \subseteq DOMAIN worker
    /\ {"pc", "n", "types", "before", "try", "res"} \subseteq DOMAIN txn
    /\ \A c \in calls : IsCall(c)

(* The worker knows only plugins that listened once, and knows all of them  *)
(* before the first transaction; a transaction has a result when it ends.   *)
Phases ==
    /\ worker.pc \in {"spawn", "connect", "run", "stopped"}
    /\ txn.pc \in {"idle", "apply", "rollback"}
    /\ worker.known \subseteq {p \in Plugin : child[p] \in {"listening", "dead"}}
    /\ worker.pc = "spawn" => worker.known = {} /\ calls = {}
    /\ worker.pc # "run" => txn.pc = "idle"
    /\ worker.pc \in {"spawn", "connect"} => txn.res = "none" /\ calls = {}
    /\ txn.pc = "apply" => txn.res = "none"
    /\ txn.pc = "rollback" => txn.res = "failed"
    /\ txn.pc = "idle" => Awaited = {}

(* What a plugin is asked for in this phase.                                *)
Asked(p) == IF txn.pc = "rollback" THEN txn.before[p] ELSE txn.n

(* A call somebody waits for is of the current command.                     *)
Current == \A c \in calls : c.waited => c.p \in Concerned(txn.types) /\ c.val = Asked(c.p)

Called(p) == \E c \in calls : c.p = p

(* A plugin that lost nothing has no call of an earlier command, and is at  *)
(* what it was asked for once it has no call.                               *)
Clean(p) ==
    /\ \A c \in calls : c.p = p => c.waited
    /\ txn.pc = "apply" /\ p \in Concerned(txn.types) => Called(p) \/ held[p] = txn.n
    /\ txn.pc = "apply" /\ p \notin Concerned(txn.types) => held[p] = txn.before[p]
    /\ txn.pc = "rollback" => Called(p) \/ held[p] = txn.before[p]
    /\ txn.pc = "idle" /\ txn.res = "ok" /\ p \in Concerned(txn.types) => held[p] = txn.n
    /\ txn.pc = "idle" /\ txn.res = "failed" => held[p] = txn.before[p]

(* The inductive invariant.                                                 *)
PluginInv ==
    /\ PluginShape /\ Phases /\ Current
    /\ \A p \in Plugin \ disturbed : child[p] # "dead" => Clean(p)
    /\ txn.pc = "idle" /\ txn.res = "ok" => txn.types \subseteq Supported

LEMMA PluginInitInv == PluginInit => PluginInv
  BY DEF PluginInit, PluginInv, PluginShape, States, Phases, Current, Awaited, Clean

(* The plugins are started, connected and known.                            *)
LEMMA StartInv ==
  ASSUME PluginInv, Spawn \/ connect_plugins \/ Ready \/ (\E p \in Plugin : Listen(p))
  PROVE  PluginInv'
  <1> USE DEF PluginInv
  <1>u. UNCHANGED <<held, calls, txn, disturbed>>
    BY DEF Spawn, connect_plugins, Ready, Listen
  <1>a. Awaited' = Awaited
    BY <1>u DEF Awaited
  <1>1. CASE Spawn
    <2>1. /\ worker.pc = "spawn" /\ worker' = [worker EXCEPT !.pc = "connect"]
          /\ child' \in [Plugin -> States]
      BY <1>1 DEF Spawn, States
    <2>2. worker'.pc = "connect" /\ worker'.known = worker.known /\ DOMAIN worker' = DOMAIN worker
      BY <2>1 DEF PluginShape
    <2>3. worker.known = {} /\ calls = {} /\ txn.pc = "idle" /\ txn.res = "none"
      BY <2>1 DEF Phases
    <2>4. PluginShape'
      BY <1>u, <2>1, <2>2 DEF PluginShape
    <2>5. Phases'
      BY <1>u, <1>a, <2>2, <2>3 DEF Phases
    <2> QED BY <1>u, <2>3, <2>4, <2>5 DEF Current, Clean
  <1>2. CASE connect_plugins \/ Ready
    <2>1. /\ worker.pc = "connect" /\ child' = child
          /\ DOMAIN worker' = DOMAIN worker /\ worker'.pc \in {"connect", "run"}
          /\ worker'.known \subseteq worker.known \cup {p \in Plugin : child[p] = "listening"}
      BY <1>2, Zenon DEF connect_plugins, Ready, PluginShape
    <2>2. calls = {} /\ txn.pc = "idle" /\ txn.res = "none"
      BY <2>1 DEF Phases
    <2>3. PluginShape'
      BY <1>u, <2>1 DEF PluginShape
    <2>4. Phases'
      BY <1>u, <1>a, <2>1, <2>2 DEF Phases
    <2> QED BY <1>u, <2>2, <2>3, <2>4 DEF Current, Clean
  <1>3. ASSUME NEW p \in Plugin, Listen(p) PROVE PluginInv'
    <2>1. /\ child[p] = "starting" /\ worker' = worker
          /\ child' = [child EXCEPT ![p] = "listening"]
      BY <1>3 DEF Listen
    <2>2. PluginShape'
      BY <1>u, <2>1 DEF PluginShape, States
    <2>3. Phases'
      BY <1>u, <1>a, <2>1 DEF Phases, PluginShape
    <2>4. \A q : Concerned(q)' = Concerned(q)
      BY <2>1 DEF Concerned
    <2>5. Current'
      BY <1>u, <2>4 DEF Current, Asked
    <2>6. ASSUME NEW q \in Plugin \ disturbed', child'[q] # "dead" PROVE Clean(q)'
      <3>1. child[q] # "dead"
        BY <2>1, <2>6 DEF PluginShape
      <3> QED BY <1>u, <2>4, <2>6, <3>1 DEF Clean, Called
    <2>7. Supported' = Supported
      BY <2>1 DEF Supported
    <2> QED BY <1>u, <2>2, <2>3, <2>5, <2>6, <2>7
  <1> QED BY <1>1, <1>2, <1>3

(* Every plugin that is known and alive is told of a new command.           *)
LEMMA NewCallsOf ==
  ASSUME NEW types, NEW val, NEW n, worker.known \subseteq Plugin
  PROVE  /\ \A c \in NewCalls(types, val, n) :
               /\ IsCall(c) /\ c.waited /\ c.p \in Concerned(types) /\ c.val = val[c.p]
               /\ child[c.p] = "listening"
         /\ \A p \in Concerned(types) : child[p] = "listening" =>
               \E c \in NewCalls(types, val, n) : c.p = p
  <1> DEFINE call(p) == [p |-> p, val |-> val[p], n |-> n, sent |-> FALSE, waited |-> TRUE]
  <1>1. NewCalls(types, val, n) = {call(p) : p \in {q \in Concerned(types) : child[q] = "listening"}}
    BY DEF NewCalls
  <1>2. \A p \in Concerned(types) :
          /\ IsCall(call(p)) /\ call(p).waited /\ call(p).p = p /\ call(p).val = val[p]
    BY DEF Concerned, IsCall
  <1> HIDE DEF call
  <1> QED BY <1>1, <1>2

(* process_cmd(): a transaction begins.                                     *)
LEMMA BeginInv ==
  ASSUME PluginInv, NEW types \in PluginRequests, Begin(types)
  PROVE  PluginInv'
  <1> USE DEF PluginInv
  <1> DEFINE n == txn.n + 1
             new == NewCalls(types, Everywhere(n), n)
  <1>1. /\ worker.pc = "run" /\ txn.pc = "idle"
        /\ txn' = [pc |-> "apply", n |-> n, types |-> types, before |-> held,
                   try |-> 1, res |-> "none"]
        /\ calls' = calls \cup new
        /\ disturbed' = {c.p : c \in calls}
        /\ UNCHANGED <<child, worker, held>>
    BY DEF Begin
  <1>2. /\ txn'.pc = "apply" /\ txn'.n = n /\ txn'.types = types /\ txn'.before = held
        /\ txn'.res = "none"
    BY <1>1
  <1>3. worker.known \subseteq Plugin /\ Concerned(types) \subseteq Plugin
    BY DEF Phases, Concerned
  <1>4. /\ \A c \in new : /\ IsCall(c) /\ c.waited /\ c.p \in Concerned(types) /\ c.val = n
                          /\ child[c.p] = "listening"
        /\ \A p \in Concerned(types) : child[p] = "listening" => \E c \in new : c.p = p
    <2> HIDE DEF n
    <2>1. \A p \in Plugin : Everywhere(n)[p] = n
      BY DEF Everywhere
    <2> QED BY <1>3, <2>1, NewCallsOf
  <1>5. \A c \in calls : ~c.waited
    BY <1>1 DEF Phases, Awaited
  <1>6. \A q : Concerned(q)' = Concerned(q)
    BY <1>1 DEF Concerned
  <1> HIDE DEF n, new
  <1>7. PluginShape'
    BY <1>1, <1>4 DEF PluginShape
  <1>8. Phases'
    BY <1>1, <1>2 DEF Phases
  <1>9. Current'
    BY <1>1, <1>2, <1>4, <1>5, <1>6 DEF Current, Asked
  <1>10. ASSUME NEW p \in Plugin \ disturbed', child'[p] # "dead" PROVE Clean(p)'
    <2>1. \A c \in calls : c.p # p
      BY <1>1, <1>10
    <2>2. \A c \in calls' : c.p = p => c.waited
      BY <1>1, <1>4, <2>1
    <2>3. p \in Concerned(types) => Called(p)'
      <3>1. p \in Concerned(types) => child[p] = "listening"
        BY <1>1, <1>10 DEF Concerned, Phases
      <3> QED BY <1>1, <1>4, <3>1 DEF Called
    <2> QED BY <1>1, <1>2, <1>6, <2>2, <2>3 DEF Clean
  <1> QED BY <1>2, <1>7, <1>8, <1>9, <1>10

LEMMA SendInv ==
  ASSUME PluginInv, NEW c \in calls, Send(c)
  PROVE  PluginInv'
  <1> USE DEF PluginInv
  <1> DEFINE d == [c EXCEPT !.sent = TRUE]
  <1>1. /\ calls' = (calls \ {c}) \cup {d}
        /\ UNCHANGED <<child, worker, held, txn, disturbed>>
    BY DEF Send
  <1>2. IsCall(d) /\ d.p = c.p /\ d.val = c.val /\ d.waited = c.waited
    BY DEF PluginShape, IsCall
  <1> HIDE DEF d
  <1>3. \A q : Concerned(q)' = Concerned(q)
    BY <1>1 DEF Concerned
  <1>4. PluginShape'
    BY <1>1, <1>2 DEF PluginShape
  <1>5. Awaited = {} => Awaited' = {}
    BY <1>1, <1>2 DEF Awaited
  <1>6. Phases'
    BY <1>1, <1>5 DEF Phases
  <1>7. Current'
    BY <1>1, <1>2, <1>3 DEF Current, Asked
  <1>8. \A p : Called(p) => Called(p)'
    BY <1>1, <1>2 DEF Called
  <1>9. ASSUME NEW p \in Plugin \ disturbed', child'[p] # "dead" PROVE Clean(p)'
    <2>1. Clean(p)
      BY <1>1, <1>9
    <2>2. \A e \in calls' : e.p = p => e.waited
      BY <1>1, <1>2, <2>1 DEF Clean
    <2> QED BY <1>1, <1>3, <1>8, <2>1, <2>2, Zenon DEF Clean
  <1>10. Supported' = Supported
    BY <1>1 DEF Supported
  <1> QED BY <1>1, <1>4, <1>6, <1>7, <1>9, <1>10

(* A command failed, and what it leaves behind belongs to plugins that lost  *)
(* something: whatever follows, the others are told again.                   *)
LEMMA FailedInv ==
  ASSUME PluginShape, Phases, txn.pc # "idle", UNCHANGED <<child, worker>>, DOMAIN held' = Plugin,
         NEW left, Failed(left), \A c \in left : IsCall(c) /\ ~c.waited,
         \A p \in Plugin \ disturbed' : child[p] # "dead" =>
            /\ \A c \in left : c.p # p
            /\ p \notin Concerned(txn.types) \/ txn.pc = "rollback" => held'[p] = txn.before[p]
  PROVE  PluginInv'
  <1>1. \A q : Concerned(q)' = Concerned(q)
    BY DEF Concerned
  <1>2. worker.known \subseteq Plugin /\ worker.pc = "run"
    BY DEF Phases
  <1>3. CASE txn.pc = "rollback"
    <2>1. txn' = [txn EXCEPT !.pc = "idle", !.res = "failed"] /\ calls' = left
      BY <1>3 DEF Failed
    <2>2. /\ txn'.pc = "idle" /\ txn'.res = "failed" /\ txn'.before = txn.before
          /\ DOMAIN txn' = DOMAIN txn
      BY <2>1 DEF PluginShape
    <2>3. PluginShape'
      BY <2>1, <2>2 DEF PluginShape, IsCall
    <2>4. Phases'
      BY <1>2, <2>1, <2>2 DEF Phases, Awaited
    <2>5. Current'
      BY <2>1 DEF Current
    <2>6. \A p \in Plugin \ disturbed' : child'[p] # "dead" => Clean(p)'
      BY <1>3, <2>1, <2>2 DEF Clean
    <2> QED BY <2>2, <2>3, <2>4, <2>5, <2>6 DEF PluginInv
  <1>4. ASSUME NEW val, calls' = left \cup NewCalls(txn.types, val, txn.n),
               txn'.pc \in {"apply", "rollback"}, txn'.types = txn.types,
               txn'.before = txn.before, DOMAIN txn' = DOMAIN txn,
               txn'.pc = "apply" => txn'.res = "none",
               txn'.pc = "rollback" => txn'.res = "failed",
               \A p \in Plugin : val[p] = Asked(p)',
               txn.pc = "apply"
        PROVE  PluginInv'
    <2> DEFINE new == NewCalls(txn.types, val, txn.n)
    <2>1. /\ \A c \in new : /\ IsCall(c) /\ c.waited /\ c.p \in Concerned(txn.types)
                            /\ c.val = val[c.p] /\ child[c.p] = "listening"
          /\ \A p \in Concerned(txn.types) : child[p] = "listening" => \E c \in new : c.p = p
      BY <1>2, NewCallsOf
    <2>2. calls' = left \cup new
      BY <1>4
    <2> HIDE DEF new
    <2>3. PluginShape'
      BY <1>4, <2>1, <2>2 DEF PluginShape, IsCall
    <2>4. Phases'
      BY <1>2, <1>4 DEF Phases
    <2>5. Current'
      <3> SUFFICES ASSUME NEW c \in calls', c.waited
                   PROVE  c.p \in Concerned(txn.types) /\ c.val = Asked(c.p)'
        BY <1>1, <1>4, Zenon DEF Current
      <3>1. c \in new
        BY <2>2
      <3>2. c.p \in Plugin /\ c.p \in Concerned(txn.types) /\ c.val = val[c.p]
        BY <2>1, <3>1 DEF IsCall
      <3> QED BY <1>4, <3>2
    <2>6. ASSUME NEW p \in Plugin \ disturbed', child'[p] # "dead" PROVE Clean(p)'
      <3>1. \A c \in calls' : c.p = p => c.waited
        BY <2>1, <2>2, <2>6
      <3>2. p \in Concerned(txn.types) => child[p] = "listening"
        BY <2>6 DEF Concerned, Phases
      <3>3. p \in Concerned(txn.types) => Called(p)'
        BY <2>1, <2>2, <3>2 DEF Called
      <3>4. p \notin Concerned(txn.types) => held'[p] = txn.before[p]
        BY <2>6
      <3> QED BY <1>1, <1>4, <3>1, <3>3, <3>4 DEF Clean
    <2> QED BY <1>4, <2>3, <2>4, <2>5, <2>6 DEF PluginInv
  <1>5. CASE txn.pc = "apply" /\ txn.try < MaxTries
    <2>1. /\ txn' = [txn EXCEPT !.try = @ + 1]
          /\ calls' = left \cup NewCalls(txn.types, Everywhere(txn.n), txn.n)
      BY <1>5 DEF Failed
    <2>2. /\ txn'.pc = "apply" /\ txn'.types = txn.types /\ txn'.before = txn.before
          /\ txn'.n = txn.n /\ txn'.res = txn.res /\ DOMAIN txn' = DOMAIN txn
      BY <1>5, <2>1 DEF PluginShape
    <2>3. \A p \in Plugin : Everywhere(txn.n)[p] = Asked(p)'
      BY <2>2 DEF Everywhere, Asked
    <2>4. txn.res = "none"
      BY <1>5 DEF Phases
    <2> QED BY <1>4, <1>5, <2>1, <2>2, <2>3, <2>4
  <1>6. CASE txn.pc = "apply" /\ ~(txn.try < MaxTries)
    <2>1. /\ txn' = [txn EXCEPT !.pc = "rollback", !.res = "failed"]
          /\ calls' = left \cup NewCalls(txn.types, txn.before, txn.n)
      BY <1>6 DEF Failed
    <2>2. /\ txn'.pc = "rollback" /\ txn'.types = txn.types /\ txn'.before = txn.before
          /\ txn'.res = "failed" /\ DOMAIN txn' = DOMAIN txn
      BY <1>6, <2>1 DEF PluginShape
    <2>3. \A p \in Plugin : txn.before[p] = Asked(p)'
      BY <2>2 DEF Asked
    <2> QED BY <1>4, <1>6, <2>1, <2>2, <2>3
  <1> QED BY <1>3, <1>5, <1>6 DEF Phases

(* A plugin without a call that lost nothing has what the phase asks for.    *)
LEMMA CleanCalls ==
  ASSUME PluginInv, NEW p \in Plugin \ disturbed, child[p] # "dead", txn.pc # "idle"
  PROVE  /\ \A c \in calls : c.p = p => c.waited
         /\ p \notin Concerned(txn.types) => ~Called(p) /\ held[p] = txn.before[p]
         /\ txn.pc = "rollback" => Called(p) \/ held[p] = txn.before[p]
  <1>1. Clean(p) /\ Current /\ txn.pc \in {"apply", "rollback"}
    BY DEF PluginInv, Phases
  <1>2. p \notin Concerned(txn.types) => ~Called(p)
    BY <1>1 DEF Clean, Current, Called
  <1> QED BY <1>1, <1>2 DEF Clean

(* process_connection() and the answer.                                      *)
LEMMA ProcessInv ==
  ASSUME PluginInv, NEW c \in calls, NEW answer \in {"ok", "dependency", "error"}, Process(c, answer)
  PROVE  PluginInv'
  <1>0. PluginShape /\ Phases /\ Current /\ IsCall(c) /\ c.p \in Plugin
    BY DEF PluginInv, PluginShape, IsCall
  <1>1. /\ UNCHANGED <<child, worker>>
        /\ held' = held \/ held' = [held EXCEPT ![c.p] = c.val]
        /\ answer = "ok" => held' = [held EXCEPT ![c.p] = c.val]
    BY DEF Process
  <1>2. /\ DOMAIN held' = Plugin
        /\ \A p \in Plugin : p # c.p => held'[p] = held[p]
        /\ answer = "ok" => held'[c.p] = c.val
    BY <1>0, <1>1 DEF PluginShape
  <1>3. \A q : Concerned(q)' = Concerned(q)
    BY <1>1 DEF Concerned
  <1>4. c.waited => txn.pc # "idle"
    BY <1>0 DEF Phases, Awaited
  <1>5. CASE answer = "dependency" /\ c.waited
    <2> DEFINE left == (calls \ Awaited) \cup Abandon(Awaited \ {c})
    <2>1. Failed(left) /\ disturbed' = disturbed \cup {c.p} \cup Dropped(c)
      BY <1>5 DEF Process, Healed
    <2>2. ASSUME NEW e \in left
          PROVE  /\ IsCall(e) /\ ~e.waited
                 /\ \/ e \in calls /\ ~e.waited
                    \/ \E d \in Awaited \ {c} : d.sent /\ e.p = d.p
      <3>1. CASE e \in calls \ Awaited
        BY <1>0, <3>1 DEF Awaited, PluginShape
      <3>2. CASE e \in Abandon(Awaited \ {c})
        <4>1. PICK d \in Awaited \ {c} : d.sent /\ e = [d EXCEPT !.waited = FALSE]
          BY <3>2 DEF Abandon
        <4>2. IsCall(d)
          BY <1>0, <4>1 DEF Awaited, PluginShape
        <4>3. IsCall(e) /\ e.p = d.p /\ e.waited = FALSE
          BY <4>1, <4>2 DEF IsCall
        <4> QED BY <4>1, <4>3
      <3> QED BY <2>2, <3>1, <3>2
    <2> HIDE DEF left
    <2>3. ASSUME NEW p \in Plugin \ disturbed', child[p] # "dead"
          PROVE  /\ \A e \in left : e.p # p
                 /\ p \notin Concerned(txn.types) \/ txn.pc = "rollback"
                      => held'[p] = txn.before[p]
      <3>1. p \notin disturbed /\ p # c.p /\ p \notin Dropped(c)
        BY <2>1, <2>3
      <3>2. \A d \in Awaited \ {c} : d.p = p => ~d.sent /\ txn.pc # "rollback"
        BY <3>1 DEF Dropped
      <3>3. /\ \A e \in calls : e.p = p => e.waited
            /\ p \notin Concerned(txn.types) => held[p] = txn.before[p]
            /\ txn.pc = "rollback" => Called(p) \/ held[p] = txn.before[p]
        BY <1>4, <1>5, <2>3, <3>1, CleanCalls
      <3>4. \A e \in left : e.p # p
        BY <2>2, <3>2, <3>3
      <3>5. txn.pc = "rollback" => ~Called(p)
        BY <3>1, <3>2, <3>3 DEF Called, Awaited
      <3> QED BY <1>2, <3>1, <3>3, <3>4, <3>5
    <2> QED BY <1>0, <1>1, <1>2, <1>4, <1>5, <2>1, <2>2, <2>3, FailedInv
  <1>6. CASE ~(answer = "dependency" /\ c.waited)
    <2>1. /\ calls' = calls \ {c} /\ txn' = txn
          /\ disturbed' = (IF Healed(c, answer) THEN disturbed \ {c.p} ELSE disturbed \cup {c.p})
      BY <1>6 DEF Process
    <2>2. PluginShape'
      BY <1>0, <1>1, <1>2, <2>1 DEF PluginShape, IsCall
    <2>3. Phases'
      BY <1>0, <1>1, <2>1 DEF Phases, Awaited
    <2>4. Current'
      BY <1>0, <1>3, <2>1 DEF Current, Asked
    <2>5. ASSUME NEW p \in Plugin \ disturbed', child'[p] # "dead" PROVE Clean(p)'
      <3>1. CASE p = c.p
        <4>1. Healed(c, answer)
          BY <2>1, <2>5, <3>1
        <4>2. /\ \A d \in calls' : d.p # p
              /\ answer = "ok" /\ c.waited
          BY <2>1, <3>1, <4>1 DEF Healed
        <4>3. held'[p] = Asked(p) /\ p \in Concerned(txn.types)
          BY <1>0, <1>2, <3>1, <4>2 DEF Current
        <4> QED BY <1>3, <1>4, <2>1, <4>2, <4>3 DEF Clean, Asked
      <3>2. CASE p # c.p
        <4>1. Clean(p)
          BY <1>1, <2>1, <2>5, <3>2 DEF PluginInv
        <4>2. Called(p)' <=> Called(p)
          BY <2>1, <3>2 DEF Called
        <4> QED BY <1>2, <1>3, <2>1, <2>5, <3>2, <4>1, <4>2 DEF Clean
      <3> QED BY <3>1, <3>2
    <2>6. Supported' = Supported
      BY <1>1 DEF Supported
    <2> QED BY <2>1, <2>2, <2>3, <2>4, <2>5, <2>6 DEF PluginInv
  <1> QED BY <1>5, <1>6

(* The timeout of recv() counts as a loss.                                   *)
LEMMA TimeoutInv ==
  ASSUME PluginInv, NEW c \in calls, CallTimeout(c)
  PROVE  PluginInv'
  <1>0. PluginShape /\ Phases /\ Current
    BY DEF PluginInv
  <1>1. /\ calls' = (calls \ {c}) \cup Abandon({c}) /\ disturbed' = disturbed \cup {c.p}
        /\ UNCHANGED <<child, worker, held, txn>>
    BY DEF CallTimeout
  <1>2. ASSUME NEW e \in Abandon({c}) PROVE IsCall(e) /\ e.p = c.p /\ ~e.waited
    <2>1. e = [c EXCEPT !.waited = FALSE]
      BY <1>2 DEF Abandon
    <2> QED BY <1>0, <2>1 DEF PluginShape, IsCall
  <1>3. \A q : Concerned(q)' = Concerned(q)
    BY <1>1 DEF Concerned
  <1>4. PluginShape'
    BY <1>0, <1>1, <1>2 DEF PluginShape, IsCall
  <1>5. Awaited' \subseteq Awaited
    BY <1>1, <1>2 DEF Awaited
  <1>6. calls # {}
    OBVIOUS
  <1>7. Phases'
    BY <1>0, <1>1, <1>5, <1>6 DEF Phases
  <1>8. Current'
    BY <1>0, <1>1, <1>2, <1>3, Zenon DEF Current, Asked
  <1>9. ASSUME NEW p \in Plugin \ disturbed', child'[p] # "dead" PROVE Clean(p)'
    <2>1. Clean(p) /\ p # c.p
      BY <1>1, <1>9 DEF PluginInv
    <2>2. /\ Called(p)' <=> Called(p)
          /\ \A e \in calls' : e.p = p => e.waited
      BY <1>1, <1>2, <2>1 DEF Called, Clean
    <2> QED BY <1>1, <1>3, <2>1, <2>2 DEF Clean
  <1>10. Supported' = Supported
    BY <1>1 DEF Supported
  <1> QED BY <1>1, <1>4, <1>7, <1>8, <1>9, <1>10 DEF PluginInv

(* A command ends with the answers of its plugins.                           *)
LEMMA AnsweredInv ==
  ASSUME PluginInv, Answered
  PROVE  PluginInv'
  <1>0. PluginShape /\ Phases /\ Current
    BY DEF PluginInv
  <1>1. txn.pc # "idle" /\ Awaited = {} /\ UNCHANGED <<child, worker, held, disturbed>>
    BY DEF Answered
  <1>2. ASSUME NEW p \in Plugin \ disturbed, child[p] # "dead"
        PROVE  ~Called(p) /\ Clean(p)
    <2>1. Clean(p)
      BY <1>2 DEF PluginInv
    <2> QED BY <1>1, <2>1 DEF Clean, Called, Awaited
  <1>3. CASE txn.types \subseteq Supported
    <2>1. /\ txn' = [txn EXCEPT !.pc = "idle", !.res = IF @ = "failed" THEN @ ELSE "ok"]
          /\ calls' = calls
      BY <1>3 DEF Answered
    <2>2. /\ txn'.pc = "idle" /\ txn'.types = txn.types /\ txn'.before = txn.before
          /\ txn'.n = txn.n /\ DOMAIN txn' = DOMAIN txn
          /\ txn'.res = IF txn.pc = "rollback" THEN "failed" ELSE "ok"
      BY <1>0, <1>1, <2>1 DEF PluginShape, Phases
    <2>3. PluginShape'
      BY <1>0, <1>1, <2>1, <2>2 DEF PluginShape, IsCall
    <2>4. Phases'
      BY <1>0, <1>1, <2>1, <2>2 DEF Phases, Awaited
    <2>5. Current'
      BY <1>1, <2>1 DEF Current, Awaited
    <2>6. \A q : Concerned(q)' = Concerned(q)
      BY <1>1 DEF Concerned
    <2>7. ASSUME NEW p \in Plugin \ disturbed', child'[p] # "dead" PROVE Clean(p)'
      <3>1. ~Called(p) /\ Clean(p)
        BY <1>1, <1>2, <2>7
      <3> QED BY <1>0, <1>1, <2>1, <2>2, <2>6, <3>1 DEF Clean, Called, Phases
    <2>8. Supported' = Supported
      BY <1>1 DEF Supported
    <2> QED BY <1>3, <2>2, <2>3, <2>4, <2>5, <2>7, <2>8 DEF PluginInv
  <1>4. CASE ~(txn.types \subseteq Supported)
    <2>1. Failed(calls)
      BY <1>4 DEF Answered
    <2>2. \A c \in calls : IsCall(c) /\ ~c.waited
      BY <1>0, <1>1 DEF PluginShape, Awaited
    <2>3. \A p \in Plugin \ disturbed' : child[p] # "dead" =>
            /\ \A c \in calls : c.p # p
            /\ p \notin Concerned(txn.types) \/ txn.pc = "rollback" => held'[p] = txn.before[p]
      BY <1>1, <1>2, CleanCalls DEF Called
    <2>4. DOMAIN held' = Plugin
      BY <1>0, <1>1 DEF PluginShape
    <2> QED BY <1>0, <1>1, <2>1, <2>2, <2>3, <2>4, FailedInv
  <1> QED BY <1>3, <1>4

(* A plugin dies, or the daemon ends.                                        *)
LEMMA EndInv ==
  ASSUME PluginInv, (\E p \in Plugin : Crash(p)) \/ shutdown
  PROVE  PluginInv'
  <1>0. PluginShape /\ Phases /\ Current
    BY DEF PluginInv
  <1>1. ASSUME NEW p \in Plugin, Crash(p) PROVE PluginInv'
    <2>1. /\ child' = [child EXCEPT ![p] = "dead"] /\ calls' = {c \in calls : c.p # p}
          /\ disturbed' = disturbed \cup {p} /\ UNCHANGED <<worker, held, txn>>
      BY <1>1 DEF Crash
    <2>2. PluginShape'
      BY <1>0, <2>1 DEF PluginShape, States, IsCall
    <2>3. \A q \in Plugin : q # p => child'[q] = child[q]
      BY <1>0, <2>1 DEF PluginShape
    <2>4. child'[p] = "dead"
      BY <1>0, <2>1 DEF PluginShape
    <2>5. Phases'
      BY <1>0, <2>1, <2>3, <2>4 DEF Phases, Awaited
    <2>6. \A q : Concerned(q)' = Concerned(q)
      BY <2>1, Zenon DEF Concerned
    <2>7. Current'
      BY <1>0, <2>1, <2>6 DEF Current, Asked
    <2>8. ASSUME NEW q \in Plugin \ disturbed', child'[q] # "dead" PROVE Clean(q)'
      <3>1. q # p /\ Clean(q)
        BY <2>1, <2>3, <2>8 DEF PluginInv
      <3>2. Called(q)' <=> Called(q)
        BY <2>1, <3>1 DEF Called
      <3> QED BY <2>1, <2>6, <3>1, <3>2, Zenon DEF Clean
    <2>9. Supported' = Supported
      BY <2>1 DEF Supported
    <2> QED BY <2>1, <2>2, <2>5, <2>7, <2>8, <2>9 DEF PluginInv
  <1>2. CASE shutdown
    <2>1. /\ worker.pc = "run" /\ txn.pc = "idle" /\ calls' = {}
          /\ worker' = [worker EXCEPT !.pc = "stopped"]
          /\ child' = [p \in Plugin |-> IF child[p] = "none" THEN "none" ELSE "dead"]
          /\ UNCHANGED <<held, txn, disturbed>>
      BY <1>2 DEF shutdown
    <2>2. worker'.pc = "stopped" /\ worker'.known = worker.known /\ DOMAIN worker' = DOMAIN worker
      BY <1>0, <2>1 DEF PluginShape
    <2>3. PluginShape'
      BY <1>0, <2>1, <2>2 DEF PluginShape, States
    <2>4. Phases'
      BY <1>0, <2>1, <2>2 DEF Phases, Awaited
    <2>5. \A q : Concerned(q)' = Concerned(q)
      BY <2>2 DEF Concerned
    <2>6. Current'
      BY <2>1 DEF Current
    <2>7. ASSUME NEW q \in Plugin \ disturbed', child'[q] # "dead" PROVE Clean(q)'
      <3>1. Clean(q)
        BY <2>1, <2>7 DEF PluginInv
      <3> QED BY <2>1, <2>5, <3>1 DEF Clean
    <2>8. Supported' = Supported
      BY <2>2 DEF Supported
    <2> QED BY <2>1, <2>3, <2>4, <2>6, <2>7, <2>8 DEF PluginInv
  <1> QED BY <1>1, <1>2

LEMMA PluginInvariance == PluginSpec => []PluginInv
  <1>1. PluginInv /\ [PluginNext]_pluginVars => PluginInv'
    <2> SUFFICES ASSUME PluginInv, [PluginNext]_pluginVars PROVE PluginInv'
      OBVIOUS
    <2>1. CASE PluginNext
      BY <2>1, StartInv, EndInv, BeginInv, SendInv, ProcessInv, TimeoutInv, AnsweredInv
         DEF PluginNext, Timer
    <2>2. CASE UNCHANGED pluginVars
      BY <2>2, Zenon DEF pluginVars, PluginInv, PluginShape, Phases, Current, Clean, Called, Asked,
         Awaited, Concerned, Supported, IsCall
    <2> QED BY <2>1, <2>2
  <1> QED BY PluginInitInv, <1>1, PTL DEF PluginSpec

(* rollback() of the plugin worker: after a failed apply every plugin that   *)
(* lost neither a request nor an answer is back at what it had before.       *)
THEOREM RollbackReachesPlugins == PluginSpec => []RollbackReaches
  <1>1. PluginInv => RollbackReaches
    BY Zenon DEF PluginInv, Clean, RollbackReaches, Undisturbed
  <1> QED BY PluginInvariance, <1>1, PTL

(* process_cmd(ApplyNetworkState): an apply that is reported to have worked  *)
(* names only types somebody handles and has reached every plugin it         *)
(* concerns that lost neither a request nor an answer.                       *)
THEOREM AppliedReachesPlugins == PluginSpec => []AppliedIsHeld
  <1>1. PluginInv => AppliedIsHeld
    BY Zenon DEF PluginInv, PluginShape, Phases, Clean, AppliedIsHeld, Undisturbed, Concerned
  <1> QED BY PluginInvariance, <1>1, PTL
=============================================================================
