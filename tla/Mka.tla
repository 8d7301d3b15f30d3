---------------------------------- MODULE Mka ----------------------------------
(***************************************************************************)
(* MACsec key agreement: the 802.1X plugin (plugin-8021x/apply.rs) keeps    *)
(* one MKA session per MACsec interface that was applied with keys.  It is *)
(* told of an apply by a message on a queue and never answers; what the     *)
(* message says of an interface is what the apply changes of it, which the  *)
(* keys are always part of because the kernel does not report them.         *)
(*                                                                         *)
(* A configuration is a partial function from options to values, as in      *)
(* LinkConfig; "mtu" stands for the options outside the macsec section.     *)
(***************************************************************************)
EXTENDS Integers, Sequences, FiniteSets, Functions

CONSTANTS
    None,           \* no link, no profile, no session, no transaction
    Iface,          \* MACsec interfaces
    Setting,        \* the values of options
    Base,           \* the interfaces below them
    MacsecRequests, \* what clients ask for: [config, persist, force]
    MaxApplies,     \* bound on applies
    MaxAttempts,    \* APPLY_RETRY_MAX
    MaxMishaps      \* bound on failing steps of applies, failing sessions and lost NICs

VARIABLES
    present,        \* the NICs that exist
    link,           \* interface |-> None or what the kernel reports of it
    saved,          \* interface |-> None or the saved profile
    tx,             \* the apply in progress
    queue,          \* the worker's channel
    sessions,       \* interface |-> None or [config, phase]
    unsaved,        \* interfaces left other than their profile by the last apply
    used            \* applies and faults so far

mkaVars == <<present, link, saved, tx, queue, sessions, unsaved, used>>

-----------------------------------------------------------------------------
(* The interface's configuration. *)

Section == {"base", "encrypt", "cak", "ckn"}
Keys == {"cak", "ckn"}
Options == Section \cup {"state", "mtu"}
Config == UNION {[S -> Setting] : S \in SUBSET Options}

(* What an MKA client is started with, and the worker's record of it.        *)
ClientConfig == [base : Setting, cak : Setting, ckn : Setting, encrypt : Setting]
SessionOf == [config : ClientConfig, phase : {"started", "secured", "sleep"}]

(* An apply in progress, for one interface.                                  *)
Transactions ==
    [iface : Iface, apply : Config \cup {None}, des : Config, persist : BOOLEAN,
     force : BOOLEAN, revert : Config \cup {None}, step : {"kernel", "verify"}, tries : Nat]

(* An interface is brought up or removed; states that only park a profile    *)
(* are the subject of LinkConfig.                                            *)
ASSUME MkaAssumption ==
    /\ {"up", "absent", "off", "default"} \subseteq Setting
    /\ \A r \in MacsecRequests :
          /\ r.config \in Config /\ r.persist \in BOOLEAN /\ r.force \in BOOLEAN
          /\ "state" \in DOMAIN r.config /\ r.config["state"] \in {"up", "absent"}
    /\ None \notin Config \cup ClientConfig \cup SessionOf \cup Transactions

State(x) == [o \in {"state"} |-> x]
Only(c, S) == Restrict(c, DOMAIN c \cap S)
Over(new, old) ==
    [o \in DOMAIN new \cup DOMAIN old |-> IF o \in DOMAIN new THEN new[o] ELSE old[o]]
HasSection(c) == DOMAIN c \cap Section # {}

ForSave(req, old) == IF old = None THEN req ELSE Over(req, old)

Difference(des, cur) ==
    Restrict(des, {o \in DOMAIN des : o \in DOMAIN cur => des[o] # cur[o]})

(* MacSecInterface::include_diff_context(): the kernel always reports more   *)
(* of a section than a profile holds, so next to any change the section of   *)
(* the profile goes out whole, with its base interface.                      *)
IncludeDiffContext(diff, des, cur) ==
    IF HasSection(des) THEN Over(Only(des, Section), Over(diff, Only(cur, {"base"}))) ELSE diff

GenDiff(des, cur) ==
    IF des["state"] = "absent" THEN Over(State("absent"), cur)
    ELSE IF DOMAIN Difference(des, cur) = {} THEN None
    ELSE IncludeDiffContext(Over(Difference(des, cur), Only(des, {"state"})), des, cur)

ForApply(des, cur, force) ==
    IF cur = None \/ force THEN des ELSE GenDiff(des, cur)

(* MacSecInterface::sanitize() and MacSecConfig::sanitize().                 *)
Rejected(req, cur, apply) ==
    /\ req["state"] # "absent"
    /\ \/ cur = None /\ "base" \notin DOMAIN req
       \/ apply # None /\ Cardinality({k \in Keys : k \in DOMAIN apply}) = 1

GenerateRevert(apply, cur) ==
    IF cur = None THEN State("absent")
    ELSE IF apply["state"] = "absent" THEN cur ELSE Only(cur, DOMAIN apply \cup {"state"})

(* The kernel: no keys, and a link needs its base interface.                 *)
NewLink == [o \in {"encrypt", "mtu"} |-> IF o = "encrypt" THEN "off" ELSE "default"]
Kernel(apply, cur) ==
    IF apply["state"] = "absent" THEN None
    ELSE LET old == IF cur = None THEN NewLink ELSE cur
         IN Restrict(Over(apply, old), (DOMAIN apply \cup DOMAIN old) \ Keys)

-----------------------------------------------------------------------------
(* MkaWorker. *)

(* MkaConfig::from_iface(): None when the interface does not ask for MKA.    *)
MkaConfig(c) ==
    IF Keys \subseteq DOMAIN c /\ "base" \in DOMAIN c
    THEN [base |-> c["base"], cak |-> c["cak"], ckn |-> c["ckn"],
          encrypt |-> IF "encrypt" \in DOMAIN c THEN c["encrypt"] ELSE "off"]
    ELSE None

NewSessionForBase(new, old) == new.base # old.base

requires_new_session(new, old) ==
    new.base # old.base \/ new.cak # old.cak \/ new.ckn # old.ckn

(* apply(): one interface of a request.                                      *)
SessionAfter(session, c, force) ==
    LET desired == IF c["state"] = "up" THEN MkaConfig(c) ELSE None
    IN IF desired = None THEN None
       ELSE IF force \/ session = None \/ requires_new_session(desired, session.config)
            THEN [config |-> desired, phase |-> "started"] ELSE session

Work ==
    /\ queue # <<>>
    /\ LET r == Head(queue)
       IN sessions' = [sessions EXCEPT ![r.iface] = SessionAfter(@, r.config, r.force)]
    /\ queue' = Tail(queue)
    /\ UNCHANGED <<present, link, saved, tx, unsaved, used>>

(* run_mka_session(): a client that cannot start or that fails is started    *)
(* again after MKA_RETRY_INTERVAL.                                           *)
Fault == used.faults < MaxMishaps /\ used' = [used EXCEPT !.faults = @ + 1]
To(i, phase) == sessions' = [sessions EXCEPT ![i].phase = phase]
Rest == UNCHANGED <<present, link, saved, tx, queue, unsaved>>

(* client.run() reports WiredState::Connected.                               *)
Connected(i) ==
    /\ sessions[i] # None /\ sessions[i].phase = "started" /\ sessions[i].config.base \in present
    /\ To(i, "secured")
    /\ UNCHANGED used /\ Rest

(* The NIC is gone, so that the client does not start or fails, or the peer  *)
(* went silent.                                                              *)
ClientFails(i) ==
    /\ sessions[i] # None /\ sessions[i].phase \in {"started", "secured"}
    /\ To(i, "sleep")
    /\ IF sessions[i].config.base \in present
       THEN Fault
       ELSE UNCHANGED used
    /\ Rest

Retry(i) ==
    /\ sessions[i] # None /\ sessions[i].phase = "sleep"
    /\ To(i, "started")
    /\ UNCHANGED used /\ Rest

-----------------------------------------------------------------------------
(* The daemon's applies, as far as they concern the interface. *)

Tell(i, apply, force) ==
    queue' = IF apply = None THEN queue
             ELSE Append(queue, [iface |-> i, config |-> apply, force |-> force])

BeginApply(i, req, persist, force) ==
    LET des == ForSave(req, saved[i])
        apply == ForApply(des, link[i], force)
    IN /\ tx = None /\ used.applies < MaxApplies
       /\ ~Rejected(req, link[i], apply)
       /\ tx' = [iface |-> i, apply |-> apply, des |-> des, persist |-> persist, force |-> force,
                 revert |-> IF apply = None THEN None ELSE GenerateRevert(apply, link[i]),
                 step |-> "kernel", tries |-> 1]
       /\ used' = [used EXCEPT !.applies = @ + 1]
       /\ UNCHANGED <<present, link, saved, queue, sessions, unsaved>>

Creatable(apply, cur) ==
    apply # None /\ apply["state"] # "absent" =>
        IF "base" \in DOMAIN apply THEN apply["base"] \in present ELSE cur # None

(* apply_merged_state_once(): the kernel, then the plugins.                  *)
Apply ==
    /\ tx # None /\ tx.step = "kernel" /\ Creatable(tx.apply, link[tx.iface])
    /\ link' = IF tx.apply = None THEN link
               ELSE [link EXCEPT ![tx.iface] = Kernel(tx.apply, @)]
    /\ Tell(tx.iface, tx.apply, tx.force)
    /\ tx' = [tx EXCEPT !.step = "verify"]
    /\ UNCHANGED <<present, saved, sessions, unsaved, used>>

Verified == tx.des["state"] = "absent" \/ link[tx.iface] # None

Fails ==
    IF IF tx.step = "kernel" THEN Creatable(tx.apply, link[tx.iface]) ELSE Verified
    THEN Fault ELSE UNCHANGED used

RetryApply ==
    /\ tx # None /\ tx.step \in {"kernel", "verify"} /\ tx.tries < MaxAttempts
    /\ Fails
    /\ tx' = [tx EXCEPT !.step = "kernel", !.tries = @ + 1]
    /\ UNCHANGED <<present, link, saved, queue, sessions, unsaved>>

(* rollback() merges the revert without a saved profile.                     *)
Rollback ==
    /\ tx # None /\ tx.step \in {"kernel", "verify"} /\ tx.tries = MaxAttempts
    /\ Fails
    /\ LET i == tx.iface
           revert == IF tx.revert = None THEN None ELSE ForApply(tx.revert, link[i], FALSE)
       IN /\ link' = IF revert = None \/ ~Creatable(revert, link[i]) THEN link
                     ELSE [link EXCEPT ![i] = Kernel(revert, @)]
          /\ Tell(i, IF Creatable(revert, link[i]) THEN revert ELSE None, FALSE)
          /\ unsaved' = unsaved \cup {i}
    /\ tx' = None
    /\ UNCHANGED <<present, saved, sessions>>

Commit ==
    /\ tx # None /\ tx.step = "verify" /\ Verified
    /\ saved' = IF ~tx.persist THEN saved
                ELSE [saved EXCEPT ![tx.iface] = IF tx.des["state"] = "absent" THEN None ELSE tx.des]
    /\ unsaved' = IF tx.persist \/ tx.des = saved[tx.iface] THEN unsaved \ {tx.iface}
                  ELSE unsaved \cup {tx.iface}
    /\ tx' = None
    /\ UNCHANGED <<present, link, queue, sessions, used>>

(* An apply that names the interface's controller only: mark_as_changed()    *)
(* and apply_ctrller_change() tell the plugins its name and type.            *)
ControllerChanges(i) ==
    /\ tx = None /\ link[i] # None /\ used.applies < MaxApplies
    /\ used' = [used EXCEPT !.applies = @ + 1]
    /\ Tell(i, State("up"), FALSE)
    /\ unsaved' = unsaved \cup {i}
    /\ UNCHANGED <<present, link, saved, tx, sessions>>

NicGone(b) ==
    /\ b \in present /\ Fault
    /\ present' = present \ {b}
    /\ link' = [i \in Iface |-> IF link[i] # None /\ link[i]["base"] = b THEN None ELSE link[i]]
    /\ UNCHANGED <<saved, tx, queue, sessions, unsaved>>

NicBack(b) ==
    /\ b \notin present
    /\ present' = present \cup {b}
    /\ UNCHANGED <<link, saved, tx, queue, sessions, unsaved, used>>

-----------------------------------------------------------------------------
MkaInit ==
    /\ present = Base
    /\ link = [i \in Iface |-> None]
    /\ saved = [i \in Iface |-> None]
    /\ tx = None
    /\ queue = <<>>
    /\ sessions = [i \in Iface |-> None]
    /\ unsaved = {}
    /\ used = [applies |-> 0, faults |-> 0]

(* A client's request, or the profile that the event worker applies again.   *)
MacsecRequest ==
    \E i \in Iface :
        \/ \E r \in MacsecRequests : BeginApply(i, r.config, r.persist, r.force)
        \/ saved[i] # None /\ BeginApply(i, saved[i], FALSE, FALSE)

Session(i) == Connected(i) \/ Retry(i)

MkaNext ==
    \/ MacsecRequest \/ Apply \/ RetryApply \/ Rollback \/ Commit \/ Work
    \/ \E i \in Iface : Session(i) \/ ClientFails(i) \/ ControllerChanges(i)
    \/ \E b \in Base : NicGone(b) \/ NicBack(b)

MkaSpec == MkaInit /\ [][MkaNext]_mkaVars

-----------------------------------------------------------------------------
Settled == tx = None /\ queue = <<>>

(* MkaWorker::apply() and the messages it gets: once the worker has caught   *)
(* up, an interface whose last apply left it as its saved profile, one with  *)
(* keys, has a session with the keys and the base interface of the profile,  *)
(* although every message holds differences only and an earlier apply may    *)
(* have been for other keys or for none.                                     *)
SessionFollowsProfile ==
    Settled => \A i \in Iface \ unsaved :
        saved[i] # None /\ MkaConfig(saved[i]) # None =>
            /\ sessions[i] # None
            /\ \A k \in {"base", "cak", "ckn"} : sessions[i].config[k] = saved[i][k]

===============================================================================
