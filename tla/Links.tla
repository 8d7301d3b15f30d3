------------------------------- MODULE Links -------------------------------
(***************************************************************************)
(* Interfaces that depend on each other: controllers and their ports,      *)
(* VLANs and their parents.  One request names some of them; the merge     *)
(* drags in the ports that its controllers gain and lose, orders all of    *)
(* them so that a controller precedes its ports and a parent its children, *)
(* and the links are deleted, then sent one by one in that order.  A link  *)
(* that cannot be sent ends the batch; verification finds out, and the     *)
(* transaction is tried again and rolled back.                             *)
(*                                                                         *)
(* A configuration is a partial function from options to values, as in     *)
(* LinkConfig, whose single-interface merge this module shortens to the    *)
(* options that relate interfaces.                                         *)
(***************************************************************************)
EXTENDS Integers, Sequences, FiniteSets, SequencesExt

CONSTANTS
    Hosts,       \* the hosts explored by name: their interfaces, types and requests
    MaxApplies,  \* bound on the requests sent and restarts
    MaxFaults,   \* bound on the netlink messages the kernel refuses
    MaxTries,    \* APPLY_RETRY_MAX
    None         \* no link, no profile, nothing to do

VARIABLES
    host,    \* the host explored
    link,    \* the kernel links: None or [state, ctrl, parent, table, ip]
    saved,   \* the saved profiles
    tx,      \* the apply transaction in progress
    before,  \* the links at the start of the transaction
    last,    \* how the last transaction ended
    used     \* requests and faults so far

vars == <<host, link, saved, tx, before, last, used>>

\* INTERFACES_SET_PRIORITY_MAX_RETRY
MaxRounds == 4
Unset == -1

Names == Hosts[host].names
Type(n) == Hosts[host].type[n]
IsController(n) == Type(n) \in {"linux-bridge", "vrf"}
IsVirtual(n) == Type(n) # "ethernet"
NoLinks == [n \in Names |-> None]

Has(c, o) == c # None /\ o \in DOMAIN c
Lacks(c, o) == ~Has(c, o)
Is(c, o, v) == Has(c, o) /\ c[o] = v
Up(c) == Is(c, "state", "up")
Absent(c) == Is(c, "state", "absent")
Ports(c) == IF Has(c, "ports") THEN c["ports"] ELSE {}
Over(new, old) == IF old = None THEN new ELSE IF new = None THEN old ELSE new @@ old
Only(c, S) == Restrict(c, DOMAIN c \cap S)
Without(c, S) == Restrict(c, DOMAIN c \ S)

-----------------------------------------------------------------------------
(* What the kernel reports.  A controller reports the links it owns. *)

Query(n) ==
    IF link[n] = None THEN None
    ELSE "state" :> link[n].state @@ "ip" :> link[n].ip
         @@ (IF link[n].ctrl = None THEN <<>> ELSE "controller" :> link[n].ctrl)
         @@ (IF IsController(n)
             THEN "ports" :> {m \in Names : link[m] # None /\ link[m].ctrl = n} ELSE <<>>)
         @@ (IF Type(n) = "vlan" THEN "parent" :> link[n].parent ELSE <<>>)
         @@ (IF Type(n) = "vrf" THEN "table" :> link[n].table ELSE <<>>)

Current == [n \in Names |-> Query(n)]

-----------------------------------------------------------------------------
(* Merging one interface.  A plan holds for_apply, for_verify, for_save and *)
(* merged of every interface; ok is FALSE once the request is refused.      *)

Difference(des, cur) ==
    Restrict(des, {o \in DOMAIN des : Has(cur, o) => des[o] # cur[o]})

GenDiff(des, cur) ==
    IF Absent(des) THEN "state" :> "absent" @@ cur
    ELSE IF Difference(des, cur) = <<>> THEN None
    ELSE Difference(des, cur) @@ Only(des, {"state"})

Merged(d, c) == IF d = None THEN (IF c = None THEN <<>> ELSE c) ELSE Over(d, c)

\* A bridge copies the section to apply; a VRF completes its section.
Sanitize(n, d, c, p) ==
    LET section == Only(p.apply, {"ports"})
        Copy(x) == section @@ Without(x, {"ports"})
        Fill(x) == IF c # None /\ Has(x, "ports") THEN x @@ Only(c, {"table"}) ELSE x
        Complete(x) == IF c # None THEN x @@ Only(c, {"table", "ports"}) ELSE x
    IN  CASE Type(n) = "linux-bridge" ->
               [p EXCEPT !.save = Copy(@), !.verify = Copy(@), !.merged = Copy(@)]
          [] Type(n) = "vrf" /\ ~Absent(d) ->
               [p EXCEPT !.apply = Fill(@), !.verify = Fill(@), !.save = Complete(@),
                         !.merged = Fill(@), !.ok = c # None \/ Has(d, "table")]
          [] Type(n) = "vlan" /\ ~Absent(d) ->
               [p EXCEPT !.ok = c # None \/ Has(d, "parent")]
          [] Type(n) = "ethernet" /\ Absent(p.apply) ->
               [p EXCEPT !.apply = "state" :> "down" @@ @]
          [] OTHER -> p

MergedInterface(n, d, c, s) ==
    LET save == Over(d, s)
        draft == [ok |-> TRUE, verify |-> d, save |-> save, merged |-> Merged(d, c),
                  apply |-> IF d = None THEN None
                            ELSE IF c = None THEN save ELSE GenDiff(save, c)]
    IN  IF draft.apply = None THEN draft ELSE Sanitize(n, d, c, draft)

NeedDelete(a, c) ==
    a # None /\ c # None /\ \E o \in {"table", "parent"} : Has(a, o) /\ Has(c, o) /\ a[o] # c[o]

-----------------------------------------------------------------------------
(* The ports a changed controller gains and loses. *)

\* A controller that is deleted, or deleted and built anew, loses its ports.
ChangedPorts(p, des, cur, n) ==
    LET a == p.apply[n]
        now == Ports(cur[n])
    IN  IF des[n] = None \/ ~IsController(n) \/ a = None THEN [on |-> {}, off |-> {}]
        ELSE IF Absent(a) THEN [on |-> {}, off |-> now]
        ELSE IF NeedDelete(a, cur[n]) THEN [on |-> Ports(p.merged[n]), off |-> now]
        ELSE IF Lacks(a, "ports") THEN [on |-> {}, off |-> {}]
        ELSE [on |-> a["ports"] \ now, off |-> now \ a["ports"]]

\* An interface not asked to change is changed because its controller is.
CtrllerChange(p, des, cur, q, c, state) ==
    LET marked == des[q] = None \/ p.apply[q] = None
        base == IF marked THEN "state" :> "up" ELSE p.apply[q]
        noIp == c # None /\ Type(c) # "vrf"
        purge == noIp /\ ~Is(des[q], "ip", TRUE)
        up == IF des[q] = None /\ state = "up" THEN "state" :> "up" ELSE <<>>
    IN  [ok |-> ~marked \/ cur[q] # None,
         apply |-> (IF purge THEN "ip" :> FALSE ELSE <<>>) @@ "controller" :> c @@ base,
         merged |-> LET m == up @@ "controller" :> c @@ p.merged[q]
                    IN  IF noIp THEN Without(m, {"ip"}) ELSE m,
         save |-> IF purge /\ p.save[q] # None THEN Without(p.save[q], {"ip"}) ELSE p.save[q],
         verify |-> p.verify[q]]

\* A port that one controller loses and another gains is gained.
HandleChangedPorts(p, des, cur) ==
    LET ch == [n \in Names |-> ChangedPorts(p, des, cur, n)]
        Gains(q) == {n \in Names : q \in ch[n].on}
        Loses(q) == {n \in Names : q \in ch[n].off}
        New(q) == LET n == IF Gains(q) # {} THEN CHOOSE n \in Gains(q) : TRUE
                           ELSE CHOOSE n \in Loses(q) : TRUE
                  IN  CtrllerChange(p, des, cur, q, IF Gains(q) # {} THEN n ELSE None,
                                    p.apply[n]["state"])
        ports == {q \in Names : Gains(q) # {} \/ Loses(q) # {}}
        new == [q \in ports |-> New(q)]
        Part(f) == [q \in Names |-> IF q \in ports THEN new[q][f] ELSE p[f][q]]
    IN  [ok |-> p.ok /\ \A q \in ports : new[q].ok, apply |-> Part("apply"),
         merged |-> Part("merged"), save |-> Part("save"), verify |-> Part("verify")]

\* Ports in two lists, or a `controller` that contradicts a list, are refused.
Conflict(p, des, cur) ==
    LET Asked(n) == des[n] # None /\ Up(p.merged[n])
        Lists(n) == IF IsController(n) /\ Asked(n) THEN Ports(p.merged[n]) ELSE {}
        Ctrl(n) == Asked(n) /\ Has(des[n], "controller")
    IN  \/ \E m, n \in Names : m # n /\ Lists(m) \cap Lists(n) # {}
        \/ \E n \in Names : Ctrl(n) /\
             LET c == des[n]["controller"]
             IN  \/ c # None /\ des[c] = None /\ cur[c] = None
                 \/ c # None /\ Has(des[c], "ports") /\ n \notin des[c]["ports"]
                 \/ \E m \in Names : n \in Lists(m) /\ m # c
        \/ \E n \in Names :
             /\ Asked(n) /\ Is(p.apply[n], "ip", TRUE) /\ Has(p.apply[n], "controller")
             /\ p.apply[n]["controller"] # None
             /\ Type(p.apply[n]["controller"]) # "vrf"

-----------------------------------------------------------------------------
(* The order in which changed interfaces are sent. *)

HasController(a) == Has(a, "controller") /\ a["controller"] # None
NeedsPriority(p, n) == Up(p.apply[n]) /\ (HasController(p.apply[n]) \/ Has(p.apply[n], "parent"))
PriorityValid(p, prio, n) == NeedsPriority(p, n) => prio[n] # Unset
Default(k) == IF k = Unset THEN 0 ELSE k

ControllerPass(p, prio, order) ==
    LET Step(acc, n) ==
          IF PriorityValid(p, prio, n) \/ ~HasController(p.apply[n]) THEN acc
          ELSE LET c == p.apply[n]["controller"]
               IN  IF acc.pend[c] # Unset THEN [acc EXCEPT !.pend[n] = acc.pend[c] + 1]
                   ELSE IF PriorityValid(p, prio, c)
                        THEN [acc EXCEPT !.pend[n] = Default(prio[c]) + 1]
                   ELSE [acc EXCEPT !.ret = FALSE]
    IN  FoldLeft(Step, [ret |-> TRUE, pend |-> [n \in Names |-> Unset]], order)

ParentPass(p, prio, pend0, order) ==
    LET Step(pend, n) ==
          IF PriorityValid(p, prio, n) \/ Lacks(p.apply[n], "parent") THEN pend
          ELSE LET m == p.apply[n]["parent"]
               IN  IF pend[m] # Unset THEN [pend EXCEPT ![n] = pend[m] + 1]
                   ELSE IF PriorityValid(p, prio, m) THEN [pend EXCEPT ![n] = Default(prio[m]) + 1]
                   ELSE pend
    IN  FoldLeft(Step, pend0, order)

SetIfacesUpPriority(p, prio, order) ==
    LET pass == ControllerPass(p, prio, order)
        pend == IF pass.ret THEN ParentPass(p, prio, pass.pend, order) ELSE pass.pend
    IN  [ret |-> pass.ret,
         prio |-> [n \in Names |-> IF pend[n] # Unset THEN pend[n] ELSE prio[n]]]

SetUpPriority(p, order) ==
    LET Round(acc, k) == IF acc.ret THEN acc ELSE SetIfacesUpPriority(p, acc.prio, order)
    IN  FoldLeft(Round, [ret |-> FALSE, prio |-> [n \in Names |-> Unset]],
                 [k \in 1..MaxRounds |-> k])

-----------------------------------------------------------------------------
(* MergedInterfaces::new.  The maps iterate in any order: interfaces asked *)
(* for come first, those only affected after them.                         *)

Perms(S) == {f \in [1..Cardinality(S) -> S] : \A i, j \in DOMAIN f : f[i] = f[j] => i = j}

Orders(p, des) ==
    LET changed == {n \in Names : p.apply[n] # None}
        asked == {n \in changed : des[n] # None}
    IN  {a \o b : a \in Perms(asked), b \in Perms(changed \ asked)}

Priorities(p, des) ==
    IF p.ok THEN {SetUpPriority(p, order) : order \in Orders(p, des)} ELSE {[ret |-> FALSE]}

Draft(des, cur, old) ==
    LET one == [n \in Names |-> MergedInterface(n, des[n], cur[n], old[n])]
        Part(f) == [n \in Names |-> one[n][f]]
        p == [ok |-> \A n \in Names : one[n].ok, apply |-> Part("apply"),
              verify |-> Part("verify"), save |-> Part("save"), merged |-> Part("merged")]
        q == IF p.ok THEN HandleChangedPorts(p, des, cur) ELSE p
    IN  [q EXCEPT !.ok = @ /\ ~Conflict(q, des, cur)]

\* Mutant: a link the change created is left behind.
GenerateRevertKeepsNew(p, cur) ==
    [n \in Names |->
       LET a == p.apply[n]
           back == Only(cur[n], DOMAIN a)
       IN  IF a = None \/ cur[n] = None THEN None
           ELSE IF Absent(a) THEN cur[n]
           ELSE IF back = a THEN None ELSE back]

GenerateRevert(p, cur) ==
    [n \in Names |->
       LET a == p.apply[n]
           back == Only(cur[n], DOMAIN a)
       IN  IF a = None THEN None
           ELSE IF cur[n] = None THEN "state" :> "absent"
           ELSE IF Absent(a) THEN cur[n]
           ELSE IF back = a THEN None ELSE back]

-----------------------------------------------------------------------------
(* The kernel: deleting a link frees its ports and deletes its VLANs. *)

Deleted(links, S) ==
    LET Grow(T) == T \cup {n \in Names : links[n] # None /\ links[n].parent \in T}
        gone == Grow(Grow(Grow({n \in S : links[n] # None})))
    IN  [n \in Names |->
           IF n \in gone \/ links[n] = None THEN None
           ELSE IF links[n].ctrl \in gone THEN [links[n] EXCEPT !.ctrl = None] ELSE links[n]]

Value(a, o, default) == IF Has(a, o) THEN a[o] ELSE default

Sent(n, a) ==
    LET old == IF link[n] # None THEN link[n]
               ELSE [state |-> "down", ctrl |-> None, parent |-> None, table |-> 0, ip |-> FALSE]
    IN  [old EXCEPT !.state = a["state"], !.ctrl = Value(a, "controller", @),
                    !.parent = Value(a, "parent", @), !.table = Value(a, "table", @)]

-----------------------------------------------------------------------------
(* One transaction at a time. *)

Idle == [pc |-> "idle"]
NotRun == [result |-> "none", boot |-> FALSE]

Ended(result) ==
    [result |-> result, boot |-> tx.boot, persist |-> tx.persist, des |-> tx.des,
     faulty |-> tx.faulty, recreated |-> tx.recreated]

Begin(des, p, prio, cur) ==
    [pc |-> "delete", des |-> des, plan |-> p, prio |-> prio, org |-> cur, cur |-> cur,
     apply |-> p.apply, verify |-> p.verify, left |-> {}]

Transaction(des, p, prio, cur, persist, boot) ==
    Begin(des, p, prio, cur) @@
    [revert |-> GenerateRevert(p, cur), persist |-> persist, boot |-> boot, tries |-> 1,
     faulty |-> FALSE, undo |-> FALSE, failed |-> FALSE, recreated |-> {}]

Fresh(h) ==
    [n \in h.names |->
       IF h.type[n] = "ethernet"
       THEN [state |-> IF n \in h.up THEN "up" ELSE "down", ctrl |-> None, parent |-> None,
             table |-> 0, ip |-> FALSE]
       ELSE None]

Init ==
    /\ host \in DOMAIN Hosts
    /\ link = Fresh(Hosts[host])
    /\ saved = NoLinks
    /\ tx = Idle
    /\ before = link
    /\ last = NotRun
    /\ used = [applies |-> 0, faults |-> 0]

Start(des, cur, old, persist, boot) ==
    LET p == Draft(des, cur, old)
    IN  \E up \in Priorities(p, des) :
          IF up.ret
          THEN /\ tx' = Transaction(des, p, up.prio, cur, persist, boot)
               /\ last' = NotRun
          ELSE /\ tx' = Idle
               /\ last' = [result |-> "refused", boot |-> boot]

Asking(r) == [n \in Names |-> IF n \in DOMAIN r THEN r[n] ELSE None]

Request(r, persist) ==
    /\ tx.pc = "idle" /\ used.applies < MaxApplies
    /\ used' = [used EXCEPT !.applies = @ + 1]
    /\ before' = link
    /\ Start(Asking(r), Current, saved, persist, FALSE)
    /\ UNCHANGED <<host, link, saved>>

Recreated ==
    {n \in Names : /\ Up(tx.plan.merged[n]) /\ tx.plan.save[n] # None
                   /\ NeedDelete(tx.apply[n], tx.cur[n])}
ToRemove == {n \in Names : Absent(tx.apply[n])}

\* What is built anew is built, and verified, from for_save.
DeleteLinks ==
    LET New(f) == [n \in Names |-> IF n \in Recreated THEN tx.plan.save[n] ELSE tx[f][n]]
    IN  /\ tx.pc = "delete"
        /\ link' = Deleted(link, Recreated \cup ToRemove)
        /\ tx' = [tx EXCEPT !.pc = "link", !.apply = New("apply"), !.verify = New("verify"),
                            !.cur = [n \in Names |-> IF n \in Recreated THEN None ELSE @[n]],
                            !.left = {n \in Names : tx.apply[n] # None} \ ToRemove,
                            !.recreated = @ \cup Recreated]
        /\ UNCHANGED <<host, saved, before, last, used>>

\* A deletion the kernel refuses ends the attempt, after some deletions.
DeleteRefused ==
    /\ tx.pc = "delete" /\ used.faults < MaxFaults
    /\ \E S \in SUBSET (Recreated \cup ToRemove) :
         /\ S \cap ToRemove # {} => Recreated \subseteq S
         /\ \E n \in (Recreated \cup ToRemove) \ S : Deleted(link, S)[n] # None
         /\ link' = Deleted(link, S)
    /\ used' = [used EXCEPT !.faults = @ + 1]
    /\ tx' = IF tx.undo THEN Idle
             ELSE [tx EXCEPT !.pc = "verify", !.failed = TRUE, !.faulty = TRUE]
    /\ last' = IF tx.undo THEN [Ended("rollback failed") EXCEPT !.faulty = TRUE] ELSE last
    /\ UNCHANGED <<host, saved, before>>

\* The next link: one of those of the lowest priority.
Sorted(n) == \A m \in tx.left : Default(tx.prio[n]) <= Default(tx.prio[m])

\* A controller or parent that is missing has no index to send; a link that
\* exists cannot be added, one that is gone cannot be changed.
Sendable(n) ==
    LET a == tx.apply[n]
    IN  /\ HasController(a) => link[a["controller"]] # None
        /\ Has(a, "parent") => link[a["parent"]] # None
        /\ (tx.cur[n] = None) = (link[n] = None)
        /\ tx.cur[n] = None /\ Type(n) = "vlan" => Has(a, "parent")
        /\ tx.cur[n] = None /\ Type(n) = "vrf" => Has(a, "table")

\* A NIC that is not there is skipped; any error ends the batch.
SendLink ==
    /\ tx.pc = "link"
    /\ IF tx.left = {} THEN tx' = [tx EXCEPT !.pc = "ip"] /\ UNCHANGED link
       ELSE \E n \in tx.left :
              /\ Sorted(n)
              /\ IF ~IsVirtual(n) /\ tx.cur[n] = None
                 THEN tx' = [tx EXCEPT !.left = @ \ {n}] /\ UNCHANGED link
                 ELSE IF Sendable(n)
                 THEN /\ tx' = [tx EXCEPT !.left = @ \ {n}]
                      /\ link' = [link EXCEPT ![n] = Sent(n, tx.apply[n])]
                 ELSE tx' = [tx EXCEPT !.pc = "ip"] /\ UNCHANGED link
    /\ UNCHANGED <<host, saved, before, last, used>>

KernelRefuses ==
    /\ tx.pc = "link" /\ used.faults < MaxFaults
    /\ \E n \in tx.left : Sorted(n) /\ Sendable(n)
    /\ used' = [used EXCEPT !.faults = @ + 1]
    /\ tx' = [tx EXCEPT !.pc = "ip", !.faulty = TRUE]
    /\ UNCHANGED <<host, link, saved, before, last>>

\* Addresses, once all links are there; a missing link ends this batch too.
ApplyIp ==
    LET todo == {n \in Names : Has(tx.apply[n], "ip") /\ ~Absent(tx.apply[n])}
        lost == {n \in todo : link[n] = None}
    IN  /\ tx.pc = "ip"
        /\ \E done \in IF \E n \in lost : tx.apply[n]["ip"] THEN SUBSET (todo \ lost) ELSE {todo \ lost} :
             link' = [n \in Names |-> IF n \in done THEN [link[n] EXCEPT !.ip = tx.apply[n]["ip"]]
                                      ELSE link[n]]
        /\ tx' = IF tx.undo THEN Idle ELSE [tx EXCEPT !.pc = "verify"]
        /\ last' = IF tx.undo THEN Ended("rolled back") ELSE last
        /\ UNCHANGED <<host, saved, before, used>>

\* Every option asked for is what the kernel reports.
Verified(n) ==
    LET v == tx.verify[n]
        cur == Query(n)
    IN  CASE v = None -> TRUE
          [] Absent(v) -> cur = None \/ ~IsVirtual(n)
          [] OTHER -> Up(v) => /\ cur # None
                               /\ \A o \in DOMAIN v : IF v[o] = None THEN Lacks(cur, o)
                                                      ELSE Is(cur, o, v[o])

Passed ==
    ~tx.failed /\ (tx.boot \/ \A n \in Names : tx.des[n] # None => Verified(n))

\* Profiles asked absent are dropped; the rest is saved as merged.
VerifyAndSave ==
    /\ tx.pc = "verify" /\ Passed
    /\ saved' = IF ~tx.persist THEN saved
                ELSE [n \in Names |-> IF Absent(tx.plan.save[n]) THEN None ELSE tx.plan.save[n]]
    /\ last' = Ended("ok")
    /\ tx' = Idle
    /\ UNCHANGED <<host, link, before, used>>

RetryApply ==
    /\ tx.pc = "verify" /\ ~Passed /\ ~tx.failed /\ tx.tries < MaxTries
    /\ tx' = [tx EXCEPT !.pc = "delete", !.tries = @ + 1, !.apply = tx.plan.apply,
                        !.verify = tx.plan.verify, !.cur = tx.org]
    /\ UNCHANGED <<host, link, saved, before, last, used>>

\* The revert is merged with what the kernel reports now, and not verified.
Rollback ==
    LET p == Draft(tx.revert, Current, NoLinks)
    IN  /\ tx.pc = "verify" /\ ~Passed /\ (tx.failed \/ tx.tries = MaxTries)
        /\ \E up \in Priorities(p, tx.revert) :
             IF up.ret
             THEN /\ tx' = Begin(tx.des, p, up.prio, Current) @@ [tx EXCEPT !.undo = TRUE]
                  /\ last' = last
             ELSE /\ tx' = Idle
                  /\ last' = Ended("rollback failed")
        /\ UNCHANGED <<host, link, saved, before, used>>

\* Mutant: only controllers are taken for virtual interfaces.
RebootControllersOnly ==
    LET des == [n \in Names |-> IF IsController(n) THEN saved[n] ELSE None]
        fresh == Fresh(Hosts[host])
        cur == [n \in Names |-> IF fresh[n] = None THEN None
                                ELSE "state" :> fresh[n].state @@ "ip" :> FALSE]
    IN  /\ tx.pc = "idle" /\ used.applies < MaxApplies
        /\ used' = [used EXCEPT !.applies = @ + 1]
        /\ link' = fresh
        /\ before' = fresh
        /\ Start(des, cur, saved, FALSE, TRUE)
        /\ UNCHANGED <<host, saved>>

\* After a restart the saved virtual interfaces are applied in one request.
Reboot ==
    LET des == [n \in Names |-> IF IsVirtual(n) THEN saved[n] ELSE None]
        fresh == Fresh(Hosts[host])
        cur == [n \in Names |-> IF fresh[n] = None THEN None
                                ELSE "state" :> fresh[n].state @@ "ip" :> FALSE]
    IN  /\ tx.pc = "idle" /\ used.applies < MaxApplies
        /\ used' = [used EXCEPT !.applies = @ + 1]
        /\ link' = fresh
        /\ before' = fresh
        /\ Start(des, cur, saved, FALSE, TRUE)
        /\ UNCHANGED <<host, saved>>

Next ==
    \/ \E r \in Hosts[host].requests, persist \in BOOLEAN : Request(r, persist)
    \/ DeleteLinks \/ DeleteRefused \/ SendLink \/ KernelRefuses \/ ApplyIp
    \/ VerifyAndSave \/ RetryApply \/ Rollback
    \/ Reboot

Spec == Init /\ [][Next]_vars

-----------------------------------------------------------------------------
(* Properties *)

(* A port taken from a controller that the request does not name.          *)
Taken(n) ==
    /\ before[n] # None /\ before[n].ctrl # None /\ last.des[before[n].ctrl] = None
    /\ \E c \in Names : last.des[c] # None /\ n \in Ports(last.des[c])

(* A rollback after a failure puts every link back: its controller, its    *)
(* parent and its state.  Links that were deleted are rebuilt only from    *)
(* what the request changed, and a port taken from a controller that the   *)
(* request does not name is not given back.                                *)
RollbackRestoresLinks ==
    last.result = "rolled back" /\ last.recreated = {} /\ ~last.boot =>
        \A n \in Names : link[n] = before[n] \/ Taken(n)

(* The saved profiles agree with each other: no port is in two lists, a    *)
(* profile naming its controller is in that controller's list, and every   *)
(* profile holds what creating its link takes, ports and parent included.  *)
(* Persistent changes that name one side only lose this: moving a port     *)
(* without naming the controller it leaves, removing a port or a parent    *)
(* alone, a partial change of a link whose creation was not saved.         *)
SavedAgree ==
    /\ \A m, n \in Names : m # n => Ports(saved[m]) \cap Ports(saved[n]) = {}
    /\ \A n \in Names : saved[n] # None =>
         /\ Type(n) = "vlan" => Has(saved[n], "parent")
         /\ Type(n) = "vrf" => Has(saved[n], "table")
         /\ LET named == {saved[n][o] : o \in {"parent", "controller"} \cap DOMAIN saved[n]}
            IN  \A q \in Ports(saved[n]) \cup named : IsVirtual(q) => saved[q] # None
         /\ HasController(saved[n]) /\ Has(saved[saved[n]["controller"]], "ports") =>
              n \in saved[saved[n]["controller"]]["ports"]

(* Saved virtual interfaces that agree with each other come back after a   *)
(* restart, with the ports and parents they were saved with, in whatever   *)
(* order they are iterated: the boot apply is neither refused nor built in *)
(* part, and it is not verified, so nothing else would notice.             *)
BootRestores ==
    last.boot /\ SavedAgree =>
        /\ last.result # "refused"
        /\ last.result = "ok" /\ ~last.faulty =>
             \A n \in Names : IsVirtual(n) /\ Up(saved[n]) =>
                /\ link[n] # None
                /\ \A q \in Ports(saved[n]) : link[q] # None => link[q].ctrl = n
                /\ Has(saved[n], "parent") => link[n].parent = saved[n]["parent"]
=============================================================================
