--------------------------------- MODULE Hints ---------------------------------
(***************************************************************************)
(* The WIFI quick-start hints (plugin-wifi/hints.rs): one file per SSID     *)
(* with the access points (BSS) it was connected through.  A connection is  *)
(* recorded by reading the file, merging the BSS and replacing the file by  *)
(* a rename; an apply of the SSID loads it, or deletes it once it is too    *)
(* old.  The plugin may die at any point, also between the creation of the  *)
(* temporary file and the rename.                                           *)
(*                                                                         *)
(* The clock does not step backwards.  Files that others changed (mode,     *)
(* owner, symbolic links) are left out.                                     *)
(***************************************************************************)
EXTENDS Naturals, Sequences

CONSTANTS
    Nil,           \* no file, no write in progress
    Torn,           \* a file that does not parse
    Ssid, Bss, Freq,
    Pid,            \* the process ids the plugin may get
    MAX_BSS_PER_SSID,
    HINT_TTL_DAYS,
    MaxDay,         \* bound on days
    MaxConnects,    \* bound on connections
    MaxCrashes       \* bound on crashes and failed writes

Entry == [bssid : Bss, freq : Freq]
Hint == [on : Nat, bss : Seq(Entry)]

ASSUME HintsAssumption ==
    /\ Nil \notin Nat \cup Hint /\ Torn \notin Hint
    /\ MAX_BSS_PER_SSID \in Nat \ {0} /\ HINT_TTL_DAYS \in Nat

VARIABLES
    file,           \* SSID |-> Nil, Torn or [on, bss], bss in the order of recording
    tmp,            \* the temporary files, as <<SSID, pid>>
    write,          \* Nil or the write between create and rename
    unsynced,       \* SSIDs whose file is not on the disk yet
    pid,
    day,
    connected,      \* SSID |-> day of the last connection it recorded, or Nil
    retried,        \* SSIDs with a connection that was not recorded after a crash
    uses            \* connections and faults so far

hintsVars == <<file, tmp, write, unsynced, pid, day, connected, retried, uses>>

-----------------------------------------------------------------------------
is_expired(on) == day > on /\ day - on > HINT_TTL_DAYS

(* A file that is missing, does not parse or is not of the SSID is no hint.  *)
read_hints(s) == IF file[s] \in {Nil, Torn} THEN Nil ELSE file[s]

(* merge_bss(): a known BSS keeps its place, the first ones are dropped when *)
(* there are too many.                                                       *)
merge_bss(previous, b, f) ==
    LET old == IF previous = Nil THEN <<>> ELSE previous.bss
        entry == [bssid |-> b, freq |-> f]
        bss == IF \E n \in DOMAIN old : old[n].bssid = b
               THEN [n \in DOMAIN old |-> IF old[n].bssid = b THEN entry ELSE old[n]]
               ELSE Append(old, entry)
        excess == IF Len(bss) > MAX_BSS_PER_SSID THEN Len(bss) - MAX_BSS_PER_SSID ELSE 0
    IN [on |-> day, bss |-> SubSeq(bss, excess + 1, Len(bss))]

Fresh(s) ==
    LET hints == read_hints(s) IN IF hints # Nil /\ is_expired(hints.on) THEN Nil ELSE hints

SkipsKnown(previous, new) == previous # Nil /\ previous.bss = new.bss

(* Whether the write is skipped.                                             *)
Unchanged(previous, new) == previous = new

(* record_bss_on_day() up to the creation of the temporary file.  One that   *)
(* an earlier process with the same id left makes it fail, and is removed.   *)
record_bss(s, b, f) ==
    LET new == merge_bss(Fresh(s), b, f)
    IN /\ write = Nil /\ uses.connects < MaxConnects
       /\ uses' = [uses EXCEPT !.connects = @ + 1]
       /\ \/ /\ Unchanged(Fresh(s), new)
             /\ connected' = [connected EXCEPT ![s] = day]
             /\ UNCHANGED <<tmp, write, retried>>
          \/ /\ ~Unchanged(Fresh(s), new) /\ <<s, pid>> \in tmp
             /\ tmp' = tmp \ {<<s, pid>>}
             /\ retried' = retried \cup {s}
             /\ UNCHANGED <<write, connected>>
          \/ /\ ~Unchanged(Fresh(s), new) /\ <<s, pid>> \notin tmp
             /\ tmp' = tmp \cup {<<s, pid>>}
             /\ write' = [ssid |-> s, hints |-> new]
             /\ UNCHANGED <<connected, retried>>
       /\ UNCHANGED <<file, unsynced, pid, day>>

(* write_hints(): the contents are written and the file is renamed.          *)
Rename ==
    /\ write # Nil
    /\ LET s == write.ssid
       IN /\ file' = [file EXCEPT ![s] = write.hints]
          /\ tmp' = tmp \ {<<s, pid>>}
          /\ unsynced' = unsynced \cup {s}
          /\ connected' = [connected EXCEPT ![s] = day]
          /\ retried' = retried \ {s}
    /\ write' = Nil
    /\ UNCHANGED <<pid, day, uses>>

Fault == uses.faults < MaxCrashes /\ uses' = [uses EXCEPT !.faults = @ + 1]

WriteFails ==
    /\ write # Nil /\ Fault
    /\ tmp' = tmp \ {<<write.ssid, pid>>}
    /\ write' = Nil
    /\ UNCHANGED <<file, unsynced, pid, day, connected, retried>>

(* load_hints_on_day(): an expired file is deleted.                          *)
load_hints(s) ==
    /\ write = Nil /\ read_hints(s) # Nil /\ is_expired(file[s].on)
    /\ file' = [file EXCEPT ![s] = Nil]
    /\ UNCHANGED <<tmp, write, unsynced, pid, day, connected, retried, uses>>

Loaded(s) == IF Fresh(s) = Nil THEN {} ELSE {Fresh(s).bss[n] : n \in DOMAIN Fresh(s).bss}

(* remove(): the profile is removed or set down.                             *)
remove(s) ==
    /\ write = Nil /\ file[s] # Nil
    /\ file' = [file EXCEPT ![s] = Nil]
    /\ connected' = [connected EXCEPT ![s] = Nil]
    /\ UNCHANGED <<tmp, write, unsynced, pid, day, retried, uses>>

Tomorrow ==
    /\ write = Nil /\ day < MaxDay
    /\ day' = day + 1
    /\ unsynced' = {}
    /\ UNCHANGED <<file, tmp, write, pid, connected, retried, uses>>

(* The plugin starts again, after a power loss with any file that was not on *)
(* the disk torn.                                                            *)
Crash ==
    /\ Fault
    /\ \E torn \in SUBSET unsynced, p \in Pid :
        /\ file' = [s \in Ssid |-> IF s \in torn /\ file[s] # Nil THEN Torn ELSE file[s]]
        /\ connected' = [s \in Ssid |-> IF s \in torn THEN Nil ELSE connected[s]]
        /\ pid' = p
    /\ write' = Nil
    /\ unsynced' = {}
    /\ UNCHANGED <<tmp, day, retried>>

-----------------------------------------------------------------------------
HintsInit ==
    /\ file = [s \in Ssid |-> Nil]
    /\ tmp = {} /\ write = Nil /\ unsynced = {}
    /\ pid \in Pid
    /\ day = 0
    /\ connected = [s \in Ssid |-> Nil]
    /\ retried = {}
    /\ uses = [connects |-> 0, faults |-> 0]

HintsNext ==
    \/ \E s \in Ssid, b \in Bss, f \in Freq : record_bss(s, b, f)
    \/ \E s \in Ssid : load_hints(s) \/ remove(s)
    \/ Rename \/ WriteFails \/ Tomorrow \/ Crash

HintsSpec == HintsInit /\ [][HintsNext]_hintsVars

-----------------------------------------------------------------------------
(* The skipped writes and is_expired(): an SSID has hints exactly when the   *)
(* last connection it recorded, written or not, is at most the limit of days *)
(* ago, unless the profile was removed or the file was torn since.           *)
HintsWhileRecent ==
    \A s \in Ssid :
        Loaded(s) # {} <=> connected[s] # Nil /\ day - connected[s] <= HINT_TTL_DAYS

(* wifi_quick_start.md: after a crash the next connection is recorded.       *)
NextConnectionRecords == retried = {}

===============================================================================
