---------------------------- MODULE ConfRegister ----------------------------
(***************************************************************************)
(* What the configuration store of the daemon promises its users           *)
(* (src/daemon/conf): one register holding the saved network state.  A     *)
(* save replaces the value once it is acknowledged and leaves it alone     *)
(* otherwise; a restart keeps a durable value, and otherwise may only      *)
(* recombine pieces of states that were handed to the store: it never      *)
(* makes up a profile or a secret.                                         *)
(***************************************************************************)
CONSTANTS Ifaces,     \* profile keys
          Missing,    \* no profile under this key
          Blank,      \* the content of a profile rebuilt from its secret only
          NoSecret, Hidden,
          None        \* no save under way

VARIABLES value,      \* the saved state users query
          target,     \* the state being saved, or None
          pieces,     \* the states whose pieces the files may hold
          durable     \* the files hold exactly value

vars == <<value, target, pieces, durable>>

Of(ps, i) == {q[i] : q \in ps} \ {Missing}

(* s recombines pieces of the states in ps: the content of a profile comes *)
(* from one of them, and so does the network it joins, together with the   *)
(* secret for it, unless the secret was lost.                              *)
Recombines(s, ps) ==
    \A i \in Ifaces :
        s[i] # Missing =>
            /\ \E p \in Of(ps, i) : s[i].conf \in {p.conf, Blank}
            /\ \E p \in Of(ps, i) : /\ s[i].net = p.net
                                    /\ s[i].secret \in {p.secret, NoSecret, Hidden}

(* The files hold pieces of ps, or exactly the value. *)
Files(ps) ==
    \/ durable' = FALSE /\ pieces' = ps
    \/ durable' = TRUE /\ pieces' = {value'}

Init ==
    /\ value = [i \in Ifaces |-> Missing]
    /\ target = None
    /\ pieces = {value}
    /\ durable = TRUE

(* A save of target' is accepted. *)
Begin ==
    /\ target = None
    /\ target' # None
    /\ UNCHANGED <<value, pieces, durable>>

(* The state being saved starts reaching the files. *)
Reach ==
    /\ target # None
    /\ Files(pieces \cup {target})
    /\ UNCHANGED <<value, target>>

(* The files catch up. *)
Settle ==
    /\ ~durable
    /\ Files(pieces)
    /\ UNCHANGED <<value, target>>

Acknowledge ==
    /\ target \in pieces
    /\ value' = target
    /\ target' = None
    /\ Files(pieces)

GiveUp ==
    /\ target # None
    /\ target' = None
    /\ Files(pieces)
    /\ UNCHANGED value

Restart ==
    /\ durable => value' = value
    /\ Recombines(value', pieces)
    /\ target' = None
    /\ Files(pieces \cup {value'})

Next == Begin \/ Reach \/ Settle \/ Acknowledge \/ GiveUp \/ Restart

Spec == Init /\ [][Next]_vars
=============================================================================
