--------------------------------- MODULE Scan ---------------------------------
(***************************************************************************)
(* `npt wifi scan` (plugin-wifi/scan.rs): the radios and what they are      *)
(* connected to are read from the kernel in several dumps                   *)
(* (lib/netlink/wifi.rs), each radio scans, the access points are merged    *)
(* into one entry per SSID, and a scan that fails or finds nothing is tried *)
(* once more.  Meanwhile the radios connect, roam and disconnect.           *)
(*                                                                         *)
(* The order of the printed list is left out.  Of two access points of an   *)
(* SSID with the same signal, either may be the first of the dump.          *)
(***************************************************************************)
EXTENDS Integers, FiniteSets

CONSTANTS
    None,
    Radio,
    Aps,            \* access points: [ssid, hidden, dbm, auth]; `ssid` may be None
    Reporting,      \* radios whose driver reports the SSID in the interface dump
    Requests,       \* [iface, hidden, dump]
    MaxReach,       \* bound on access points in reach of a radio at first
    MaxRequests,    \* bound on requests
    MaxChanges,     \* bound on what radios do meanwhile
    MaxFaults       \* bound on failing scans

VARIABLES
    air,            \* Radio -> access points in reach
    assoc,          \* Radio -> None or [ap, authorized]
    pc,             \* "idle", "ifaces", "stations", "scan" or "done"
    req, attempt,
    info,           \* Radio -> SSID it is connected to, or None
    probe,          \* the SSIDs to probe for
    todo,           \* radios left in this phase
    ret,            \* SSID -> [radio, dbm, auths]
    answer,         \* "none", "ok", "invalid" or "failed"
    heard,          \* access points of this attempt that are to be reported
    was,            \* SSIDs a radio had in this attempt
    used

vars == <<air, assoc, pc, req, attempt, info, probe, todo, ret, answer, heard, was, used>>

-----------------------------------------------------------------------------
(* RSNE and vendor elements of an access point.                              *)
auth_type_from_akm(akm) ==
    IF "sae" \in akm THEN "wpa3" ELSE IF "psk" \in akm THEN "wpa2" ELSE "unknown"

detect_auth_type(ap) ==
    IF ap.auth = {} THEN "open" ELSE IF "wpa1" \in ap.auth THEN "unknown"
    ELSE auth_type_from_akm(ap.auth)

Connected == {assoc[r].ap.ssid : r \in {q \in Radio : assoc[q] # None}} \ {None}

(* wifi_scan() and wifi_scan_dump(), while WIFI is on.                       *)
Begin(a) ==
    /\ attempt' = a
    /\ pc' = "ifaces"
    /\ info' = [r \in Radio |-> None]
    /\ probe' = req'.hidden
    /\ todo' = {}
    /\ ret' = [s \in {} |-> None]
    /\ heard' = {}
    /\ was' = Connected

Request ==
    /\ pc \in {"idle", "done"} /\ used.requests < MaxRequests
    /\ req' \in Requests
    /\ Begin(1)
    /\ answer' = "none"
    /\ used' = [used EXCEPT !.requests = @ + 1]
    /\ UNCHANGED <<air, assoc>>

(* get_wifi_ifaces(): the interface dump,                                    *)
QueryIfaces ==
    /\ pc = "ifaces"
    /\ info' = [r \in Radio |-> IF r \in Reporting /\ assoc[r] # None THEN assoc[r].ap.ssid ELSE None]
    /\ pc' = "stations"
    /\ todo' = Radio
    /\ UNCHANGED <<air, assoc, req, attempt, probe, ret, answer, heard, was, used>>

(* get_mac_ssid_map(): the SSID of the station by the scan results.          *)
SsidOfStation(r) == IF assoc[r].ap \in air[r] THEN assoc[r].ap.ssid ELSE None

(* then the station of each radio.  One that is not authorized does not      *)
(* count.                                                                    *)
Station(r) ==
    IF assoc[r] = None \/ ~assoc[r].authorized THEN None
    ELSE IF info[r] = None THEN SsidOfStation(r) ELSE info[r]

QueryStation(r) ==
    /\ pc = "stations" /\ r \in todo
    /\ info' = [info EXCEPT ![r] = Station(r)]
    /\ todo' = todo \ {r}
    /\ UNCHANGED <<air, assoc, pc, req, attempt, probe, ret, answer, heard, was, used>>

RetryWithProbes(result) ==
    IF ~req.dump /\ attempt = 1 /\ (result # "ok" \/ DOMAIN ret = {})
    THEN /\ attempt' = 2
         /\ pc' = "ifaces"
         /\ todo' = {} /\ heard' = {} /\ was' = Connected
         /\ ret' = [s \in {} |-> None]
         /\ UNCHANGED <<answer, info, probe>>
    ELSE /\ pc' = "done"
         /\ answer' = result
         /\ UNCHANGED <<attempt, info, probe, todo, ret, heard, was>>

(* A first attempt that failed or found nothing is made again.               *)
Retry(result) ==
    IF ~req.dump /\ attempt = 1 /\ (result # "ok" \/ DOMAIN ret = {})
    THEN Begin(2) /\ UNCHANGED answer
    ELSE /\ pc' = "done"
         /\ answer' = result
         /\ UNCHANGED <<attempt, info, probe, todo, ret, heard, was>>

(* wifi_ifaces(), and the SSIDs in use are probed for, too.                  *)
WifiIfaces ==
    /\ pc = "stations" /\ todo = {}
    /\ req' = req
    /\ IF req.iface # None /\ req.iface \notin Radio THEN Retry("invalid")
       ELSE /\ pc' = "scan"
            /\ probe' = probe \cup ({info[r] : r \in Radio} \ {None})
            /\ todo' = IF req.iface = None THEN Radio ELSE {req.iface}
            /\ UNCHANGED <<attempt, info, ret, answer, heard, was>>
    /\ UNCHANGED <<air, assoc, used>>

Reported(ap) == ap.ssid # None /\ (~ap.hidden \/ req.dump \/ ap.ssid \in probe)

(* The access points of one SSID into its entry.                             *)
MergeEntry(old, r, aps) ==
    LET strongest == CHOOSE ap \in aps : \A other \in aps : ap.dbm >= other.dbm
        auths == {detect_auth_type(ap) : ap \in aps}
    IN IF old = None THEN [radio |-> r, dbm |-> strongest.dbm, auths |-> auths]
       ELSE [radio |-> IF old.dbm < strongest.dbm THEN r ELSE old.radio,
             dbm |-> IF old.dbm < strongest.dbm THEN strongest.dbm ELSE old.dbm,
             auths |-> old.auths \cup auths]

merge_scan_results(r) ==
    LET aps == {ap \in air[r] : Reported(ap)}
        of(s) == {ap \in aps : ap.ssid = s}
        found == {ap.ssid : ap \in aps}
    IN [s \in DOMAIN ret \cup found |->
            IF s \notin found THEN ret[s]
            ELSE MergeEntry(IF s \in DOMAIN ret THEN ret[s] ELSE None, r, of(s))]

ScanRadio(r) ==
    /\ pc = "scan" /\ r \in todo
    /\ ret' = merge_scan_results(r)
    /\ heard' = heard \cup {ap \in air[r] : ap.ssid # None}
    /\ todo' = todo \ {r}
    /\ UNCHANGED <<air, assoc, pc, req, attempt, info, probe, answer, was, used>>

Merged ==
    /\ pc = "scan" /\ todo = {}
    /\ req' = req
    /\ Retry("ok")
    /\ UNCHANGED <<air, assoc, used>>

ScanFails ==
    /\ pc = "scan" /\ todo # {} /\ used.faults < MaxFaults
    /\ req' = req
    /\ used' = [used EXCEPT !.faults = @ + 1]
    /\ Retry("failed")
    /\ UNCHANGED <<air, assoc>>

-----------------------------------------------------------------------------
(* A radio starts to connect, is authorized, roams or disconnects; access    *)
(* points come and go.                                                       *)
RadioChanges ==
    /\ pc \notin {"idle", "done"} /\ used.changes < MaxChanges
    /\ used' = [used EXCEPT !.changes = @ + 1]
    /\ \E r \in Radio :
        \/ /\ \E a \in {[ap |-> ap, authorized |-> b] : ap \in air[r], b \in BOOLEAN} \cup {None} :
                a # assoc[r] /\ assoc' = [assoc EXCEPT ![r] = a]
           /\ UNCHANGED air
        \/ /\ \E ap \in Aps : air' = [air EXCEPT ![r] = IF ap \in @ THEN @ \ {ap} ELSE @ \cup {ap}]
           /\ UNCHANGED assoc
    /\ was' = was \cup ({assoc'[r].ap.ssid : r \in {q \in Radio : assoc'[q] # None}} \ {None})
    /\ UNCHANGED <<pc, req, attempt, info, probe, todo, ret, answer, heard>>

Init ==
    /\ air \in [Radio -> {s \in SUBSET Aps : Cardinality(s) <= MaxReach}]
    /\ assoc = [r \in Radio |-> None]
    /\ pc = "idle" /\ req = None /\ attempt = 0
    /\ info = [r \in Radio |-> None]
    /\ probe = {} /\ todo = {}
    /\ ret = [s \in {} |-> None]
    /\ answer = "none" /\ heard = {} /\ was = {}
    /\ used = [requests |-> 0, changes |-> 0, faults |-> 0]

Next ==
    \/ Request \/ QueryIfaces \/ WifiIfaces \/ Merged \/ ScanFails \/ RadioChanges
    \/ \E r \in Radio : QueryStation(r) \/ ScanRadio(r)

Spec == Init /\ [][Next]_vars

-----------------------------------------------------------------------------
(* hidden_ssids: an SSID that no access point announces is printed by a scan *)
(* only when it was asked for or a radio had it while this attempt ran, not  *)
(* for what an earlier attempt found.                                        *)
HiddenOnlyProbed ==
    answer = "ok" /\ ~req.dump => \A s \in DOMAIN ret :
        s \in req.hidden \cup was \/ \E ap \in heard : ap.ssid = s /\ ~ap.hidden

===============================================================================
