----------------------------- MODULE MCWireless -----------------------------
(***************************************************************************)
(* WIFI, for TLC: the plugin and what the daemon asks of it (Wifi),        *)
(* scanning (Scan) and the quick-start hints on disk (Hints), side by      *)
(* side.  Every behaviour is one of one part.                              *)
(***************************************************************************)
EXTENDS Hints, Scan, Wifi

CONSTANT Parts      \* the parts that are explored

VARIABLE part

-----------------------------------------------------------------------------
(* Wifi: two radios and two networks: one saved and unbound, one saved or  *)
(* asked for, bound to the first radio or unbound.                         *)
Profile(s, w, b) == [ssid |-> s, password |-> w, base |-> b]
KnownProfiles == {Profile("home", "k1", Unset)}
Connect(c) == [op |-> "connect", cfg |-> c]
Asking ==
  {Connect(Profile("work", "k1", "w0")), Connect(Profile("home", "k2", Unset))}
    \union {[op |-> o, ssid |-> "home"] : o \in {"up", "down", "forget"}}
    \union {[op |-> o, phy |-> "w0"] : o \in {"phy-down", "ignore"}}
    \union {[op |-> o] : o \in {"on", "off"}}

-----------------------------------------------------------------------------
(* Scan: two radios, one of which does not report its SSID, and access     *)
(* points of a hidden and of a mixed SSID.                                 *)
Ap(ssid, hidden, dbm, auth) == [ssid |-> ssid, hidden |-> hidden, dbm |-> dbm, auth |-> auth]

AccessPoints ==
    {Ap("cave", TRUE, -60, {"psk"}), Ap("home", FALSE, -50, {"psk", "sae"}),
     Ap("home", TRUE, -40, {}), Ap(None, FALSE, -30, {"wpa1"})}

ScanRequests ==
    {[iface |-> None, hidden |-> {}, dump |-> FALSE], [iface |-> "w1", hidden |-> {"cave"}, dump |-> FALSE],
     [iface |-> None, hidden |-> {}, dump |-> TRUE], [iface |-> "eth0", hidden |-> {}, dump |-> FALSE]}

-----------------------------------------------------------------------------
PartsInit ==
    /\ part \in Parts /\ HintsInit /\ Init /\ WifiInit
    /\ part # "hints" => pid = 1
    /\ part # "scan" => air = [r \in Radio |-> {}]

PartsNext ==
    \/ part = "wifi" /\ WifiNext /\ UNCHANGED <<part, hintsVars, vars>>
    \/ part = "scan" /\ Next /\ UNCHANGED <<part, hintsVars, wifiVars>>
    \/ part = "hints" /\ HintsNext /\ UNCHANGED <<part, vars, wifiVars>>

PartsSpec == PartsInit /\ [][PartsNext]_<<part, hintsVars, vars, wifiVars>>

=============================================================================
