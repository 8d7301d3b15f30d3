--------------------------- MODULE WirelessProofs ---------------------------
(***************************************************************************)
(* What scans print, what the quick-start hints keep and which errors a    *)
(* connection wait reads, for any radios, profiles, access points,         *)
(* requests, limits and numbers of days, events and crashes.               *)
(***************************************************************************)
EXTENDS Hints, Scan, Wifi, SequenceTheorems, TLAPS

-----------------------------------------------------------------------------
(* Scan.  What a radio was seen connected to is what it had in this very    *)
(* attempt, only such an SSID is probed for beside those asked for, and     *)
(* only a probed or announced SSID becomes an entry.                        *)
Justified(s) == s \in req.hidden \cup was \/ \E a \in heard : a.ssid = s /\ ~a.hidden

ScanInv ==
    /\ DOMAIN info = Radio
    /\ pc \in {"idle", "ifaces", "stations", "scan", "done"}
    /\ pc = "idle" => answer = "none"
    /\ pc \notin {"idle", "done"} =>
          /\ answer = "none"
          /\ Connected \subseteq was
    /\ pc # "idle" =>
          /\ \A r \in Radio : info[r] \in was \cup {None}
          /\ probe \subseteq req.hidden \cup was
          /\ ~req.dump => \A s \in DOMAIN ret : Justified(s)

LEMMA ScanInit == Init => ScanInv
  BY DEF Init, ScanInv

(* An attempt begins: what an earlier one found is forgotten.               *)
LEMMA BeginScan ==
  ASSUME NEW a, Begin(a), UNCHANGED assoc, answer' = "none"
  PROVE  ScanInv'
  <1>1. /\ pc' = "ifaces" /\ info' = [r \in Radio |-> None] /\ probe' = req'.hidden
        /\ DOMAIN ret' = {} /\ was' = Connected
    BY DEF Begin
  <1>2. Connected' = Connected
    BY DEF Connected
  <1> QED BY <1>1, <1>2 DEF ScanInv

LEMMA RetryScan ==
  ASSUME ScanInv, NEW result, Retry(result), req' = req, UNCHANGED assoc,
         pc \in {"stations", "scan"}
  PROVE  ScanInv'
  <1>1. CASE ~req.dump /\ attempt = 1 /\ (result # "ok" \/ DOMAIN ret = {})
    BY <1>1, BeginScan DEF Retry, ScanInv
  <1>2. CASE ~(~req.dump /\ attempt = 1 /\ (result # "ok" \/ DOMAIN ret = {}))
    <2>1. pc' = "done" /\ UNCHANGED <<info, probe, ret, heard, was>>
      BY <1>2 DEF Retry
    <2> QED BY <2>1 DEF ScanInv, Justified
  <1> QED BY <1>1, <1>2

LEMMA ScanStep ==
  ASSUME ScanInv, [Next]_vars
  PROVE  ScanInv'
  <1>1. CASE Request
    <2>1. Begin(1) /\ assoc' = assoc /\ answer' = "none"
      BY <1>1 DEF Request
    <2> QED BY <2>1, BeginScan
  <1>2. CASE QueryIfaces
    <2>1. /\ pc = "ifaces" /\ pc' = "stations"
          /\ UNCHANGED <<assoc, req, probe, ret, answer, heard, was>>
          /\ info' = [r \in Radio |-> IF r \in Reporting /\ assoc[r] # None
                                        THEN assoc[r].ap.ssid ELSE None]
      BY <1>2 DEF QueryIfaces
    <2>2. \A r \in Radio : info'[r] \in Connected \cup {None}
      BY <2>1 DEF Connected
    <2>3. DOMAIN info' = Radio /\ Connected' = Connected
      BY <2>1 DEF Connected
    <2> QED BY <2>1, <2>2, <2>3 DEF ScanInv, Justified
  <1>3. ASSUME NEW r \in Radio, QueryStation(r) PROVE ScanInv'
    <2>1. /\ pc = "stations" /\ info' = [info EXCEPT ![r] = Station(r)]
          /\ UNCHANGED <<assoc, pc, req, probe, ret, answer, heard, was>>
      BY <1>3 DEF QueryStation
    <2>2. Station(r) \in was \cup {None}
      <3>1. assoc[r] # None => SsidOfStation(r) \in Connected \cup {None}
        BY DEF SsidOfStation, Connected
      <3> QED BY <2>1, <3>1 DEF Station, ScanInv
    <2>3. DOMAIN info' = Radio /\ \A q \in Radio : info'[q] \in was \cup {None}
      BY <2>1, <2>2 DEF ScanInv
    <2>4. Connected' = Connected
      BY <2>1 DEF Connected
    <2> QED BY <2>1, <2>3, <2>4 DEF ScanInv, Justified
  <1>4. CASE WifiIfaces
    <2>1. pc = "stations" /\ req' = req /\ assoc' = assoc
      BY <1>4 DEF WifiIfaces
    <2>2. CASE Retry("invalid")
      BY <2>1, <2>2, RetryScan
    <2>3. CASE /\ pc' = "scan" /\ UNCHANGED <<info, ret, answer, heard, was>>
               /\ probe' = probe \cup ({info[r] : r \in Radio} \ {None})
      <3>1. Connected' = Connected
        BY <2>1 DEF Connected
      <3> QED BY <2>1, <2>3, <3>1 DEF ScanInv, Justified
    <2> QED BY <1>4, <2>2, <2>3 DEF WifiIfaces
  <1>5. ASSUME NEW r \in Radio, ScanRadio(r) PROVE ScanInv'
    <2>1. /\ pc = "scan" /\ ret' = merge_scan_results(r)
          /\ heard' = heard \cup {a \in air[r] : a.ssid # None}
          /\ UNCHANGED <<assoc, pc, req, info, probe, answer, was>>
      BY <1>5 DEF ScanRadio
    <2>2. DOMAIN ret' = DOMAIN ret \cup {a.ssid : a \in {b \in air[r] : Reported(b)}}
      BY <2>1 DEF merge_scan_results
    <2>3. ASSUME ~req.dump, NEW s \in DOMAIN ret' PROVE Justified(s)'
      <3>1. CASE s \in DOMAIN ret
        <4>1. Justified(s)
          BY <2>1, <2>3, <3>1 DEF ScanInv
        <4> QED BY <2>1, <4>1 DEF Justified
      <3>2. CASE s \notin DOMAIN ret
        <4>1. PICK a \in air[r] : Reported(a) /\ a.ssid = s
          BY <2>2, <2>3, <3>2
        <4>2. a \in heard'
          BY <2>1, <4>1 DEF Reported
        <4>3. ~a.hidden \/ s \in probe
          BY <2>3, <4>1 DEF Reported
        <4>4. probe \subseteq req.hidden \cup was
          BY <2>1 DEF ScanInv
        <4> QED BY <2>1, <4>1, <4>2, <4>3, <4>4 DEF Justified
      <3> QED BY <3>1, <3>2
    <2>4. Connected' = Connected
      BY <2>1 DEF Connected
    <2> QED BY <2>1, <2>3, <2>4 DEF ScanInv
  <1>6. CASE Merged \/ ScanFails
    BY <1>6, RetryScan DEF Merged, ScanFails
  <1>7. CASE RadioChanges
    <2>1. /\ pc \notin {"idle", "done"} /\ was' = was \cup Connected'
          /\ UNCHANGED <<pc, req, info, probe, ret, answer, heard>>
      BY <1>7 DEF RadioChanges, Connected
    <2>2. \A s : Justified(s) => Justified(s)'
      BY <2>1 DEF Justified
    <2> QED BY <2>1, <2>2 DEF ScanInv
  <1>8. CASE UNCHANGED vars
    BY <1>8 DEF vars, ScanInv, Justified, Connected
  <1> QED BY <1>1, <1>2, <1>3, <1>4, <1>5, <1>6, <1>7, <1>8 DEF Next

(* hidden_ssids of scan.rs: a scan prints an SSID nobody announces only when *)
(* it was asked for or a radio had it while this very attempt ran.           *)
THEOREM HiddenOnlyWhenProbed == Spec => []HiddenOnlyProbed
  <1>1. ScanInv => HiddenOnlyProbed
    BY DEF ScanInv, Justified, HiddenOnlyProbed
  <1>2. ScanInv /\ [Next]_vars => ScanInv'
    BY ScanStep
  <1> QED BY ScanInit, <1>1, <1>2, PTL DEF Spec

-----------------------------------------------------------------------------
(* Hints.  A file holds at least one BSS and the day of the last connection  *)
(* it recorded; one that is gone while that connection still counts was      *)
(* expired, and a write in progress is of today.                             *)
HintsInv ==
    /\ day \in Nat
    /\ file \in [Ssid -> Hint \cup {Nil, Torn}]
    /\ connected \in [Ssid -> Nat \cup {Nil}]
    /\ write # Nil => /\ write.ssid \in Ssid /\ write.hints \in Hint
                      /\ write.hints.on = day /\ write.hints.bss # <<>>
    /\ \A s \in Ssid :
          /\ connected[s] # Nil => connected[s] <= day
          /\ file[s] \in Hint => connected[s] = file[s].on /\ file[s].bss # <<>>
          /\ file[s] \notin Hint /\ connected[s] # Nil
               => day - connected[s] > HINT_TTL_DAYS

LEMMA HintsStart == HintsInit => HintsInv
  <1> SUFFICES ASSUME HintsInit PROVE HintsInv
    OBVIOUS
  <1>1. day \in Nat /\ write = Nil
    BY DEF HintsInit
  <1>2. /\ file \in [Ssid -> Hint \cup {Nil, Torn}]
        /\ connected \in [Ssid -> Nat \cup {Nil}]
        /\ \A s \in Ssid : file[s] = Nil /\ connected[s] = Nil
    BY DEF HintsInit
  <1>3. Nil \notin Hint
    BY HintsAssumption
  <1> QED BY <1>1, <1>2, <1>3 DEF HintsInv

LEMMA FreshIsHint ==
  ASSUME HintsInv, NEW s \in Ssid
  PROVE  /\ Fresh(s) \in Hint \cup {Nil}
         /\ Fresh(s) # Nil <=> file[s] \in Hint /\ ~is_expired(file[s].on)
         /\ Fresh(s) # Nil => Fresh(s) = file[s]
  <1>1. file[s] \in Hint \cup {Nil, Torn}
    BY DEF HintsInv
  <1>2. read_hints(s) # Nil <=> file[s] \in Hint
    BY <1>1, HintsAssumption DEF read_hints
  <1>3. read_hints(s) # Nil => read_hints(s) = file[s]
    BY DEF read_hints
  <1> QED BY <1>1, <1>2, <1>3 DEF Fresh

(* merge_bss(): the limit leaves the BSS that was just used.                 *)
LEMMA MergeIsHint ==
  ASSUME HintsInv, NEW previous \in Hint \cup {Nil}, NEW b \in Bss, NEW f \in Freq
  PROVE  /\ merge_bss(previous, b, f) \in Hint
         /\ merge_bss(previous, b, f).on = day
         /\ merge_bss(previous, b, f).bss # <<>>
  <1> DEFINE old == IF previous = Nil THEN <<>> ELSE previous.bss
             entry == [bssid |-> b, freq |-> f]
             bss == IF \E n \in DOMAIN old : old[n].bssid = b
                    THEN [n \in DOMAIN old |-> IF old[n].bssid = b THEN entry ELSE old[n]]
                    ELSE Append(old, entry)
             excess == IF Len(bss) > MAX_BSS_PER_SSID THEN Len(bss) - MAX_BSS_PER_SSID ELSE 0
             cut == SubSeq(bss, excess + 1, Len(bss))
  <1>1. merge_bss(previous, b, f) = [on |-> day, bss |-> cut]
    BY DEF merge_bss
  <1>2. old \in Seq(Entry) /\ entry \in Entry
    BY DEF Hint, Entry
  <1>3. bss \in Seq(Entry) /\ Len(bss) > 0
    <2> HIDE DEF old, entry
    <2>1. CASE \E n \in DOMAIN old : old[n].bssid = b
      <3> DEFINE new == [n \in DOMAIN old |-> IF old[n].bssid = b THEN entry ELSE old[n]]
      <3>1. DOMAIN old = 1 .. Len(old) /\ Len(old) \in Nat
            /\ \A n \in DOMAIN old : old[n] \in Entry
        BY <1>2, LenProperties
      <3>2. new \in [1 .. Len(old) -> Entry]
        BY <1>2, <3>1
      <3>3. new \in Seq(Entry) /\ Len(new) = Len(old)
        BY <3>1, <3>2
      <3>4. Len(old) > 0
        BY <2>1, <3>1
      <3>5. bss = new
        BY <2>1
      <3> QED BY <3>3, <3>4, <3>5, Zenon
    <2>2. CASE ~(\E n \in DOMAIN old : old[n].bssid = b)
      <3>1. bss = Append(old, entry)
        BY <2>2
      <3>2. Append(old, entry) \in Seq(Entry) /\ Len(Append(old, entry)) = Len(old) + 1
            /\ Len(old) \in Nat
        BY <1>2, AppendProperties, LenProperties
      <3> QED BY <3>1, <3>2
    <2> QED BY <2>1, <2>2
  <1> HIDE DEF bss
  <1>4. /\ excess \in Nat /\ excess + 1 <= Len(bss) /\ Len(bss) \in Nat
    BY <1>3, HintsAssumption, LenProperties
  <1> HIDE DEF excess
  <1>5. \A i \in (excess + 1) .. Len(bss) : bss[i] \in Entry
    BY <1>3, <1>4, ElementOfSeq
  <1>6. cut \in Seq(Entry) /\ Len(cut) > 0
    <2>1. /\ cut \in Seq(Entry)
          /\ Len(cut) = IF excess + 1 <= Len(bss) THEN Len(bss) - (excess + 1) + 1 ELSE 0
      BY <1>4, <1>5, SubSeqProperties
    <2> QED BY <1>4, <2>1
  <1>7. cut # <<>>
    <2> HIDE DEF cut
    <2>1. Len(<<>>) = 0
      OBVIOUS
    <2> QED BY <1>6, <2>1
  <1> HIDE DEF cut
  <1> QED BY <1>1, <1>6, <1>7 DEF HintsInv, Hint

(* Nothing but the file, the day and the last recorded connection matters.   *)
LEMMA HintsStep ==
  ASSUME HintsInv, [HintsNext]_hintsVars
  PROVE  HintsInv'
  <1>1. ASSUME NEW s \in Ssid, NEW b \in Bss, NEW f \in Freq, record_bss(s, b, f)
        PROVE  HintsInv'
    <2> DEFINE new == merge_bss(Fresh(s), b, f)
    <2>1. Fresh(s) \in Hint \cup {Nil} /\ (Fresh(s) # Nil => Fresh(s) = file[s])
      BY FreshIsHint
    <2>2. new \in Hint /\ new.on = day /\ new.bss # <<>>
      BY <1>1, <2>1, MergeIsHint, Zenon
    <2> HIDE DEF new
    <2>3. UNCHANGED <<file, day>>
      BY <1>1 DEF record_bss
    <2>4. CASE /\ Unchanged(Fresh(s), new) /\ connected' = [connected EXCEPT ![s] = day]
               /\ write' = write
      <3>1. Fresh(s) = new /\ file[s] = new
        BY <2>1, <2>2, <2>4, HintsAssumption DEF Unchanged
      <3>2. connected' \in [Ssid -> Nat \cup {Nil}] /\ connected'[s] = day
            /\ \A t \in Ssid : t # s => connected'[t] = connected[t]
        BY <2>4 DEF HintsInv
      <3> QED BY <2>2, <2>3, <2>4, <3>1, <3>2 DEF HintsInv
    <2>5. CASE UNCHANGED <<write, connected>>
      BY <2>3, <2>5 DEF HintsInv
    <2>6. CASE write' = [ssid |-> s, hints |-> new] /\ connected' = connected
      <3>1. write'.ssid = s /\ write'.hints = new
        BY <2>6
      <3> QED BY <1>1, <2>2, <2>3, <2>6, <3>1 DEF HintsInv
    <2> QED BY <1>1, <2>4, <2>5, <2>6 DEF record_bss, new
  <1>2. CASE Rename
    <2> DEFINE s == write.ssid
    <2>1. /\ write # Nil /\ file' = [file EXCEPT ![s] = write.hints]
          /\ connected' = [connected EXCEPT ![s] = day] /\ write' = Nil /\ day' = day
      BY <1>2 DEF Rename
    <2>2. s \in Ssid /\ write.hints \in Hint /\ write.hints.on = day /\ write.hints.bss # <<>>
      BY <2>1 DEF HintsInv
    <2>3. /\ file' \in [Ssid -> Hint \cup {Nil, Torn}] /\ file'[s] = write.hints
          /\ connected' \in [Ssid -> Nat \cup {Nil}] /\ connected'[s] = day
          /\ \A t \in Ssid : t # s => connected'[t] = connected[t] /\ file'[t] = file[t]
      BY <2>1, <2>2 DEF HintsInv
    <2> HIDE DEF s
    <2>4. ASSUME NEW t \in Ssid
          PROVE  /\ connected'[t] # Nil => connected'[t] <= day
                 /\ file'[t] \in Hint => connected'[t] = file'[t].on /\ file'[t].bss # <<>>
                 /\ file'[t] \notin Hint /\ connected'[t] # Nil
                      => day - connected'[t] > HINT_TTL_DAYS
      <3>1. CASE t = s
        BY <2>2, <2>3, <3>1 DEF HintsInv
      <3>2. CASE t # s
        <4>1. connected'[t] = connected[t] /\ file'[t] = file[t]
          BY <2>3, <3>2
        <4> QED BY <4>1 DEF HintsInv
      <3> QED BY <3>1, <3>2
    <2> QED BY <2>1, <2>3, <2>4 DEF HintsInv
  <1>3. CASE WriteFails
    BY <1>3 DEF WriteFails, HintsInv
  <1>4. ASSUME NEW s \in Ssid, load_hints(s) PROVE HintsInv'
    <2>1. /\ read_hints(s) # Nil /\ is_expired(file[s].on)
          /\ file' = [file EXCEPT ![s] = Nil] /\ UNCHANGED <<write, day, connected>>
      BY <1>4 DEF load_hints
    <2>2. file[s] \in Hint
      BY <2>1 DEF read_hints, HintsInv
    <2>3. day - connected[s] > HINT_TTL_DAYS
      BY <2>1, <2>2 DEF is_expired, HintsInv
    <2>4. /\ file' \in [Ssid -> Hint \cup {Nil, Torn}] /\ file'[s] = Nil
          /\ \A t \in Ssid : t # s => file'[t] = file[t]
      BY <2>1 DEF HintsInv
    <2> QED BY <2>1, <2>3, <2>4, HintsAssumption DEF HintsInv
  <1>5. ASSUME NEW s \in Ssid, remove(s) PROVE HintsInv'
    <2>1. /\ file' = [file EXCEPT ![s] = Nil] /\ connected' = [connected EXCEPT ![s] = Nil]
          /\ UNCHANGED <<write, day>>
      BY <1>5 DEF remove
    <2>2. /\ file' \in [Ssid -> Hint \cup {Nil, Torn}] /\ file'[s] = Nil
          /\ connected' \in [Ssid -> Nat \cup {Nil}] /\ connected'[s] = Nil
          /\ \A t \in Ssid : t # s => connected'[t] = connected[t] /\ file'[t] = file[t]
      BY <2>1 DEF HintsInv
    <2> QED BY <2>1, <2>2, HintsAssumption DEF HintsInv
  <1>6. CASE Tomorrow
    <2>1. write = Nil /\ day' = day + 1 /\ UNCHANGED <<file, write, connected>>
      BY <1>6 DEF Tomorrow
    <2>2. ASSUME NEW s \in Ssid, connected[s] # Nil
          PROVE  connected[s] \in Nat /\ connected[s] <= day'
                 /\ (day - connected[s] > HINT_TTL_DAYS => day' - connected[s] > HINT_TTL_DAYS)
      <3>1. connected[s] \in Nat /\ connected[s] <= day /\ day \in Nat
        BY <2>2 DEF HintsInv
      <3> QED BY <2>1, <3>1, HintsAssumption
    <2>3. day' \in Nat
      BY <2>1 DEF HintsInv
    <2> QED BY <2>1, <2>2, <2>3 DEF HintsInv
  <1>7. CASE Crash
    <2>1. PICK torn \in SUBSET unsynced :
            /\ file' = [s \in Ssid |-> IF s \in torn /\ file[s] # Nil THEN Torn ELSE file[s]]
            /\ connected' = [s \in Ssid |-> IF s \in torn THEN Nil ELSE connected[s]]
      BY <1>7 DEF Crash
    <2>2. write' = Nil /\ day' = day
      BY <1>7 DEF Crash
    <2>3. /\ file' \in [Ssid -> Hint \cup {Nil, Torn}]
          /\ connected' \in [Ssid -> Nat \cup {Nil}]
      BY <2>1 DEF HintsInv
    <2>4. ASSUME NEW s \in Ssid
          PROVE  \/ connected'[s] = Nil /\ file'[s] \notin Hint
                 \/ connected'[s] = connected[s] /\ file'[s] = file[s]
      BY <2>1, HintsAssumption DEF HintsInv
    <2> QED BY <2>2, <2>3, <2>4 DEF HintsInv
  <1>8. CASE UNCHANGED hintsVars
    BY <1>8 DEF hintsVars, HintsInv
  <1> QED BY <1>1, <1>2, <1>3, <1>4, <1>5, <1>6, <1>7, <1>8 DEF HintsNext

(* load_hints_on_day() and the writes merge_bss() allows to skip: an SSID     *)
(* has hints exactly while the last connection it recorded is recent.         *)
THEOREM HintsKeptWhileRecent == HintsSpec => []HintsWhileRecent
  <1>1. ASSUME HintsInv, NEW s \in Ssid
        PROVE  Loaded(s) # {} <=> connected[s] # Nil /\ day - connected[s] <= HINT_TTL_DAYS
    <2>1. /\ Fresh(s) # Nil <=> file[s] \in Hint /\ ~is_expired(file[s].on)
          /\ Fresh(s) # Nil => Fresh(s) = file[s]
      BY <1>1, FreshIsHint
    <2>2. day \in Nat /\ connected[s] \in Nat \cup {Nil} /\ HINT_TTL_DAYS \in Nat
      BY <1>1, HintsAssumption DEF HintsInv
    <2>3. CASE file[s] \in Hint
      <3>1. file[s].on \in Nat /\ connected[s] = file[s].on /\ connected[s] <= day
            /\ connected[s] # Nil
        <4>1. file[s].on \in Nat
          BY <2>3 DEF Hint
        <4>2. connected[s] = file[s].on /\ file[s].on # Nil
          BY <1>1, <2>3, <4>1, HintsAssumption DEF HintsInv
        <4>3. connected[s] <= day
          BY <1>1, <4>2 DEF HintsInv
        <4> QED BY <4>1, <4>2, <4>3
      <3>2. is_expired(file[s].on) <=> ~(day - connected[s] <= HINT_TTL_DAYS)
        BY <2>2, <3>1 DEF is_expired
      <3>3. file[s].bss \in Seq(Entry) /\ file[s].bss # <<>>
        BY <1>1, <2>3 DEF HintsInv, Hint
      <3>4. 1 \in DOMAIN file[s].bss
        BY <3>3, EmptySeq, LenProperties
      <3> QED BY <2>1, <2>3, <3>1, <3>2, <3>4 DEF Loaded
    <2>4. CASE file[s] \notin Hint
      <3>1. connected[s] # Nil => ~(day - connected[s] <= HINT_TTL_DAYS)
        <4>1. connected[s] # Nil => connected[s] \in Nat /\ day - connected[s] > HINT_TTL_DAYS
          BY <1>1, <2>2, <2>4 DEF HintsInv
        <4> QED BY <2>2, <4>1
      <3> QED BY <2>1, <2>4, <3>1 DEF Loaded
    <2> QED BY <2>3, <2>4
  <1>2. HintsInv => HintsWhileRecent
    BY <1>1 DEF HintsWhileRecent
  <1>3. HintsInv /\ [HintsNext]_hintsVars => HintsInv'
    BY HintsStep
  <1> QED BY HintsStart, <1>2, <1>3, PTL DEF HintsSpec

-----------------------------------------------------------------------------
(* Wifi.  A latched error, and errors that are old ones kept or new ones.   *)
Latched(e) == DOMAIN e = {"ssid", "old"} /\ e.old \in BOOLEAN

KeptOrNew(new, old) ==
  \A p \in DOMAIN new : \/ p \in DOMAIN old /\ new[p] = old[p]
                        \/ Latched(new[p]) /\ ~new[p].old

TxFields == {"pc", "req", "todo", "tries", "phys", "outcome", "replied",
             "disturbed", "oldError"}

(* A request is under way and has not failed. *)
UnderWay(pcs) == tx.pc \in pcs /\ tx.outcome = "none"

(* The one message of a request that has not failed carries its profile or  *)
(* none.  From the moment its errors are cleared until the wait is over no  *)
(* old error of that SSID is left, so none is ever read.                    *)
WifiInv ==
  /\ \A p \in DOMAIN errors : Latched(errors[p])
  /\ \A s \in DOMAIN saved : saved[s] \in Config /\ saved[s].ssid = s
  /\ DOMAIN tx = TxFields
  /\ tx.oldError \in BOOLEAN
  /\ tx.pc # "idle" => /\ tx.req \in WifiRequest
                       /\ tx.req.op = "up" => tx.req.ssid \in DOMAIN saved
  /\ tx.pc = "control" => tx.req.op \in {"on", "off"} /\ tx.outcome = "none"
  /\ tx.pc \in {"wait", "rollback"} => tx.outcome = "none" /\ Asks(tx.req)
  /\ UnderWay({"control", "clear", "send", "wait"}) => ~tx.oldError
  /\ UnderWay({"clear", "send", "wait", "rollback"}) =>
       /\ tx.todo = <<tx.todo[1]>>
       /\ Asks(tx.req) => \A c \in tx.todo[1].cfgs : c.ssid = Asked(tx.req).ssid
  /\ UnderWay({"send", "wait"}) /\ Asks(tx.req) /\ tx.todo[1].cfgs # {} =>
       \A p \in DOMAIN errors :
         errors[p].ssid = Asked(tx.req).ssid => ~errors[p].old
  /\ tx.pc = "rollback" /\ tx.oldError => tx.todo[1].cfgs = {}

LEMMA OneMessage ==
  /\ DOMAIN Empty = {}
  /\ \A m : <<m>>[1] = m /\ Head(<<m>>) = m /\ Len(<<m>>) = 1
  BY DEF Empty

LEMMA TxShape == WifiInv => DOMAIN tx = TxFields
  BY DEF WifiInv

LEMMA WifiStart == WifiInit => WifiInv
  <1> SUFFICES ASSUME WifiInit PROVE WifiInv
    OBVIOUS
  <1>1. DOMAIN errors = {}
    BY OneMessage DEF WifiInit
  <1>2. \A s \in DOMAIN saved : saved[s] \in Config /\ saved[s].ssid = s
    <2>1. \A s \in DOMAIN saved : \E c \in Profiles : c.ssid = s
      BY DEF WifiInit
    <2>2. \A s \in DOMAIN saved : saved[s] = CHOOSE c \in Profiles : c.ssid = s
      BY DEF WifiInit
    <2> QED BY <2>1, <2>2, WifiAssumption
  <1>3. tx = Idle
    BY DEF WifiInit
  <1> QED BY <1>1, <1>2, <1>3 DEF WifiInv, TxFields, Idle, UnderWay

(* A step of another actor: the request stays where it is, and errors are   *)
(* dropped or latched anew.                                                 *)
LEMMA OthersKeep ==
  ASSUME WifiInv, saved' = saved,
         DOMAIN tx' = DOMAIN tx,
         tx'.pc = tx.pc, tx'.req = tx.req, tx'.todo = tx.todo,
         tx'.outcome = tx.outcome, tx'.oldError = tx.oldError,
         KeptOrNew(errors', errors)
  PROVE  WifiInv'
  <1>1. Asked(tx.req)' = Asked(tx.req) /\ Asks(tx.req)' = Asks(tx.req)
    BY Zenon DEF Asked, Asks
  <1>2. \A p \in DOMAIN errors' : Latched(errors'[p])
    BY Zenon DEF WifiInv, KeptOrNew
  <1>3. \A pcs : UnderWay(pcs)' <=> UnderWay(pcs)
    BY Zenon DEF UnderWay
  <1>4. ASSUME UnderWay({"send", "wait"}), Asks(tx.req), tx.todo[1].cfgs # {},
               NEW p \in DOMAIN errors', errors'[p].ssid = Asked(tx.req).ssid
        PROVE  ~errors'[p].old
    BY <1>4, Zenon DEF WifiInv, KeptOrNew
  <1> QED BY <1>1, <1>2, <1>3, <1>4, Zenon DEF WifiInv, UnderWay

LEMMA WithoutKeeps ==
  ASSUME NEW f, NEW S PROVE KeptOrNew(Without(f, S), f)
  BY DEF KeptOrNew, Without, Restrict

LEMMA ClearAppliedKeeps ==
  ASSUME NEW f, NEW m PROVE KeptOrNew(ClearApplied(f, m), f)
  BY DEF KeptOrNew, ClearApplied, Restrict

(* WifiClientState::apply latches nothing.                                  *)
LEMMA AppliedKeeps ==
  ASSUME NEW m, NEW fault PROVE KeptOrNew(Applied(m, fault).errors, errors)
  <1> DEFINE left == RemoveIfaces(m, fault)
             pending == PendingNetworks(m, left)
             st == AddIfaces(m, left, fault)
  <1>1. /\ DOMAIN left = {"enabled", "ifaces", "client", "live", "errors"}
        /\ KeptOrNew(left.errors, errors)
    BY WithoutKeeps, Zenon DEF RemoveIfaces
  <1> HIDE DEF left
  <1>2. DOMAIN st = DOMAIN left /\ KeptOrNew(st.errors, errors)
    <2>1. DOMAIN st = DOMAIN left
      BY <1>1 DEF AddIfaces
    <2>2. st.errors = left.errors \/ \E S : st.errors = Without(left.errors, S)
      BY <1>1 DEF AddIfaces
    <2> QED BY <1>1, <2>1, <2>2, Zenon DEF KeptOrNew, Without, Restrict
  <1> HIDE DEF st
  <1>3. KeptOrNew(Empty, errors)
    BY DEF KeptOrNew, Empty
  <1> DEFINE kept == Store(st, pending)
  <1>4. DOMAIN kept = DOMAIN st /\ kept.errors = st.errors
    BY <1>1, <1>2 DEF Store
  <1> HIDE DEF kept
  <1>5. StopClient(st).errors = Empty /\ StartClient(kept, fault).errors = Empty
    BY <1>1, <1>2, <1>4 DEF StopClient, StartClient
  <1>6. \E S : UpdateClient(m, st, pending, fault).errors = Without(st.errors, S)
    BY <1>1, <1>2 DEF UpdateClient, Store
  <1>7. KeptOrNew(UpdateClient(m, st, pending, fault).errors, errors)
    BY <1>2, <1>6, Zenon DEF KeptOrNew, Without, Restrict
  <1>8. Applied(m, fault) \in {st, StopClient(st), kept, StartClient(kept, fault),
                               UpdateClient(m, st, pending, fault)}
    BY DEF Applied, left, st, kept
  <1> QED BY <1>2, <1>3, <1>4, <1>5, <1>7, <1>8

(* The worker, the client, the radios and the access points.                *)
LEMMA WorkerKeeps == WifiInv /\ (WorkerStep \/ HostStep) => WifiInv'
  <1> SUFFICES ASSUME WifiInv, WorkerStep \/ HostStep PROVE WifiInv'
    OBVIOUS
  <1>0. DOMAIN tx = TxFields
    BY DEF WifiInv
  <1>a. KeptOrNew(errors, errors) /\ KeptOrNew(Empty, errors)
    BY DEF KeptOrNew, Empty
  <1>1. ASSUME NEW fault \in Faults, WorkerApply(fault) PROVE WifiInv'
    <2>1. PICK m : errors' = Applied(m, fault).errors
      BY <1>1 DEF WorkerApply, Take
    <2>2. KeptOrNew(errors', errors)
      BY <2>1, AppliedKeeps
    <2>3. saved' = saved /\ tx' = tx
      BY <1>1, Zenon DEF WorkerApply, conf
    <2> QED BY <2>2, <2>3, OthersKeep
  <1>2. ASSUME NEW fault \in Faults, WorkerControl(fault) PROVE WifiInv'
    <2>1. errors' = errors \/ errors' = Empty
      BY <1>2 DEF WorkerControl, Take, SetControl, StopClient, StartClient, State
    <2>2. KeptOrNew(errors', errors)
      BY <1>a, <2>1
    <2>3. saved' = saved /\ tx' = [tx EXCEPT !.replied = TRUE]
      BY <1>2 DEF WorkerControl, conf
    <2> QED BY <1>0, <2>2, <2>3, OthersKeep DEF TxFields
  <1>3. ASSUME NEW p \in Phys, NEW s \in Ssids, RunConnected(p, s) PROVE WifiInv'
    <2>1. KeptOrNew(errors', errors)
      BY <1>3, WithoutKeeps DEF RunConnected
    <2>2. saved' = saved /\ tx' = tx
      BY <1>3 DEF RunConnected, conf
    <2> QED BY <2>1, <2>2, OthersKeep
  <1>4. ASSUME NEW p \in Phys, NEW s \in Ssids, NEW asState \in BOOLEAN,
               RunRejected(p, s, asState)
        PROVE  WifiInv'
    <2>1. KeptOrNew(errors', errors)
      BY <1>4, Zenon DEF RunRejected, KeptOrNew, Put, Over, Latched
    <2>2. saved' = saved /\ tx' = tx
      BY <1>4, Zenon DEF RunRejected, conf
    <2> QED BY <2>1, <2>2, OthersKeep
  <1>5. ASSUME NEW p \in Phys, RunLost(p) PROVE WifiInv'
    <2>1. errors' = errors /\ saved' = saved /\ tx' = tx
      BY <1>5, Zenon DEF RunLost, conf
    <2> QED BY <1>a, <2>1, OthersKeep
  <1>6. ASSUME NEW fault \in Faults, RunStalled(fault) PROVE WifiInv'
    <2>1. errors' = Empty
      BY <1>6 DEF RunStalled, Take, StartClient, State
    <2>2. saved' = saved /\ tx' = tx
      BY <1>6 DEF RunStalled, conf
    <2> QED BY <1>a, <2>1, <2>2, OthersKeep
  <1>7. ASSUME NEW p \in Phys, PhyGone(p) \/ PhyAppears(p) PROVE WifiInv'
    <2>1. errors' = errors /\ saved' = saved /\ tx' = [tx EXCEPT !.disturbed = TRUE]
      BY <1>7 DEF PhyGone, PhyAppears, plugin, conf
    <2> QED BY <1>0, <1>a, <2>1, OthersKeep DEF TxFields
  <1>8. ASSUME NEW s \in Ssids, NEW w \in Passwords, ApReconfigured(s, w) PROVE WifiInv'
    <2>1. errors' = errors /\ saved' = saved /\ tx' = tx
      BY <1>8 DEF ApReconfigured, plugin, conf
    <2> QED BY <1>a, <2>1, OthersKeep
  <1> QED BY <1>1, <1>2, <1>3, <1>4, <1>5, <1>6, <1>7, <1>8 DEF WorkerStep, HostStep

(* What a request names, and what its message carries.                      *)
LEMMA MergeIsConfig ==
  ASSUME WifiInv, NEW c \in Config
  PROVE  Merge(c) \in Config /\ Merge(c).ssid = c.ssid
  <1>1. CASE c.ssid \notin DOMAIN saved
    BY <1>1 DEF Merge, Config
  <1>2. CASE c.ssid \in DOMAIN saved
    <2> DEFINE old == saved[c.ssid]
    <2>1. old \in Config
      BY <1>2 DEF WifiInv
    <2>2. Merge(c) = [c EXCEPT !.base = IF c.base = Unset THEN old.base ELSE c.base,
                               !.password = IF c.password = Unset THEN old.password
                                            ELSE c.password]
      BY <1>2 DEF Merge, Config
    <2> HIDE DEF old
    <2> QED BY <2>1, <2>2, Zenon DEF Config
  <1> QED BY <1>1, <1>2

LEMMA DifferenceNames ==
  ASSUME NEW c, NEW d \in Difference(c) PROVE d.ssid = c.ssid
  <1>1. d = c \/ \E w, b : d = [ssid |-> c.ssid, password |-> w, base |-> b]
    BY Zenon DEF Difference
  <1> QED BY <1>1

LEMMA RequestCarries ==
  ASSUME WifiInv, NEW r \in WifiRequest, Possible(r), Asks(r)
  PROVE  \A c \in RequestMessage(r).cfgs : c.ssid = Asked(r).ssid
  <1>1. CASE r.op = "connect"
    <2>1. r.cfg \in Config
      BY <1>1 DEF WifiRequest
    <2>2. RequestMessage(r).cfgs = Difference(Merge(r.cfg))
      BY <1>1 DEF RequestMessage, Message
    <2>3. Merge(r.cfg).ssid = r.cfg.ssid
      BY <2>1, MergeIsConfig
    <2>4. \A c \in Difference(Merge(r.cfg)) : c.ssid = Merge(r.cfg).ssid
      BY DifferenceNames
    <2> QED BY <1>1, <2>2, <2>3, <2>4, Zenon DEF Asked
  <1>2. CASE r.op = "up"
    <2>1. RequestMessage(r).cfgs = {saved[r.ssid]}
      BY <1>2 DEF RequestMessage, Message
    <2> QED BY <1>2, <2>1 DEF Asked
  <1> QED BY <1>1, <1>2 DEF Asks

(* A request begins: every error latched so far is an old one.              *)
LEMMA BeginKeeps ==
  ASSUME WifiInv, NEW r \in WifiRequests, BeginRequest(r) PROVE WifiInv'
  <1>1. r \in WifiRequest
    BY WifiAssumption
  <1>2. saved' = saved
    BY DEF BeginRequest, conf
  <1>3. \A p \in DOMAIN errors' : Latched(errors'[p])
    BY Zenon DEF BeginRequest, WifiInv, Latched
  <1>4. r.op = "up" => r.ssid \in DOMAIN saved
    BY DEF BeginRequest, Possible
  <1>5. CASE r.op \in {"on", "off"}
    <2>1. tx' = [Idle EXCEPT !.pc = "control", !.req = r]
      BY <1>5 DEF BeginRequest
    <2> QED BY <1>1, <1>2, <1>3, <1>5, <2>1 DEF WifiInv, TxFields, Idle, UnderWay, Asks
  <1>6. CASE r.op \notin {"on", "off"}
    <2>1. tx' = [Idle EXCEPT !.pc = "clear", !.req = r, !.todo = <<RequestMessage(r)>>]
      BY <1>6 DEF BeginRequest
    <2>2. Asks(r) => \A c \in RequestMessage(r).cfgs : c.ssid = Asked(r).ssid
      BY <1>1, RequestCarries DEF BeginRequest
    <2>3. /\ tx'.pc = "clear" /\ tx'.req = r /\ tx'.todo = <<RequestMessage(r)>>
          /\ tx'.outcome = "none" /\ tx'.oldError = FALSE /\ DOMAIN tx' = DOMAIN Idle
      BY <2>1 DEF Idle
    <2>4. Asked(tx.req)' = Asked(r) /\ Asks(tx.req)' = Asks(r)
      BY <1>2, <2>3, Zenon DEF Asked, Asks
    <2>5. tx'.todo[1] = RequestMessage(r)
      BY <2>3, OneMessage, Zenon
    <2>6. tx'.todo = <<tx'.todo[1]>>
      BY <2>3, <2>5, Zenon
    <2>7. DOMAIN tx' = TxFields
      BY <2>3, Zenon DEF Idle, TxFields
    <2>8. tx'.req \in WifiRequest /\ (tx'.req.op = "up" => tx'.req.ssid \in DOMAIN saved')
      BY <1>1, <1>2, <1>4, <2>3
    <2>9. Asks(tx.req)' => \A c \in tx'.todo[1].cfgs : c.ssid = Asked(tx.req)'.ssid
      BY <2>2, <2>4, <2>5
    <2>10. /\ tx'.pc = "clear" /\ tx'.outcome = "none" /\ tx'.oldError = FALSE
           /\ \A s \in DOMAIN saved' : saved'[s] \in Config /\ saved'[s].ssid = s
      BY <1>2, <2>3, Zenon DEF WifiInv
    <2> QED BY <1>3, <2>6, <2>7, <2>8, <2>9, <2>10, Zenon DEF WifiInv, UnderWay
  <1> QED BY <1>5, <1>6

(* The plugin clears the errors of the profiles it is handed.               *)
LEMMA ClearKeeps == ASSUME WifiInv, ClearErrors PROVE WifiInv'
  <1>1. saved' = saved /\ tx' = [tx EXCEPT !.pc = "send"] /\ tx.pc = "clear"
        /\ errors' = ClearApplied(errors, Head(tx.todo))
    BY DEF ClearErrors, conf
  <1>2. /\ tx'.pc = "send" /\ tx'.req = tx.req /\ tx'.todo = tx.todo
        /\ tx'.outcome = tx.outcome /\ tx'.oldError = tx.oldError
        /\ DOMAIN tx' = DOMAIN tx
    BY <1>1, TxShape DEF TxFields
  <1>3. Asked(tx.req)' = Asked(tx.req) /\ Asks(tx.req)' = Asks(tx.req)
    BY <1>1, <1>2 DEF Asked, Asks
  <1>4. \A p \in DOMAIN errors' : p \in DOMAIN errors /\ errors'[p] = errors[p]
    BY <1>1, Zenon DEF ClearApplied, Restrict
  <1>5. ASSUME tx.outcome = "none", Asks(tx.req), tx.todo[1].cfgs # {}
        PROVE  \A p \in DOMAIN errors' : errors'[p].ssid # Asked(tx.req).ssid
    <2>0. /\ tx.todo = <<tx.todo[1]>>
          /\ \A c \in tx.todo[1].cfgs : c.ssid = Asked(tx.req).ssid
      BY <1>1, <1>5 DEF WifiInv, UnderWay
    <2>1. /\ Head(tx.todo) = tx.todo[1]
          /\ \A c \in tx.todo[1].cfgs : c.ssid = Asked(tx.req).ssid
      BY <2>0, OneMessage, Zenon
    <2>2. Asked(tx.req).ssid \in {c.ssid : c \in tx.todo[1].cfgs}
      BY <1>5, <2>1
    <2>3. \A p \in DOMAIN errors' : errors[p].ssid \notin {c.ssid : c \in tx.todo[1].cfgs}
      BY <1>1, <2>1 DEF ClearApplied, Restrict
    <2> QED BY <1>4, <2>2, <2>3, Zenon
  <1> QED BY <1>1, <1>2, <1>3, <1>4, <1>5 DEF WifiInv, UnderWay

(* The wait reads the errors.                                               *)
LEMMA FatalKeeps == ASSUME WifiInv, WaitFatal PROVE WifiInv'
  <1>1. PICK p \in DOMAIN errors :
          /\ errors[p].ssid = Asked(tx.req).ssid
          /\ tx' = [tx EXCEPT !.pc = "rollback", !.oldError = errors[p].old]
    BY Zenon DEF WaitFatal
  <1>2. saved' = saved /\ errors' = errors /\ tx.pc = "wait"
    BY DEF WaitFatal, conf, plugin
  <1>3. /\ tx'.pc = "rollback" /\ tx'.req = tx.req /\ tx'.todo = tx.todo
        /\ tx'.outcome = tx.outcome /\ tx'.oldError = errors[p].old
        /\ DOMAIN tx' = DOMAIN tx
    BY <1>1, TxShape DEF TxFields
  <1>4. Asked(tx.req)' = Asked(tx.req) /\ Asks(tx.req)' = Asks(tx.req)
    BY <1>2, <1>3, Zenon DEF Asked, Asks
  <1>5. errors[p].old => tx.todo[1].cfgs = {}
    BY <1>1, <1>2 DEF WifiInv, UnderWay
  <1>6. tx'.oldError \in BOOLEAN
    BY <1>3 DEF WifiInv, Latched
  <1> QED BY <1>2, <1>3, <1>4, <1>5, <1>6, Zenon DEF WifiInv, UnderWay

(* The other steps of a request, but for its end.                           *)
LEMMA AdvanceKeeps ==
  ASSUME WifiInv,
         Enqueue \/ WaitConnected \/ WaitSettledElsewhere \/ WaitTimeout
           \/ WaitClosed
  PROVE  WifiInv'
  <1>1. saved' = saved /\ errors' = errors
    BY DEF Enqueue, WaitConnected, WaitSettledElsewhere, WaitTimeout, WaitClosed,
           conf, plugin
  <1>2. Asks(tx.req)' = Asks(tx'.req) /\ Asked(tx.req)' = IF tx'.req.op = "connect"
                               THEN tx'.req.cfg ELSE saved[tx'.req.ssid]
    BY <1>1 DEF Asks, Asked
  <1>3. CASE Enqueue
    <2>1. CASE Len(tx.todo) > 1
      <3>1. tx' = [tx EXCEPT !.pc = "clear", !.todo = Tail(@)] /\ tx.pc = "send"
        BY <1>3, <2>1 DEF Enqueue
      <3>2. tx.outcome # "none"
        <4>1. tx.outcome = "none" => tx.todo = <<tx.todo[1]>>
          BY <3>1 DEF WifiInv, UnderWay
        <4>2. tx.outcome = "none" => Len(tx.todo) = 1
          BY <4>1, OneMessage, Zenon
        <4>3. ~(1 > 1)
          OBVIOUS
        <4> QED BY <2>1, <4>2, <4>3, Zenon
      <3> QED BY <1>1, <3>1, <3>2 DEF WifiInv, TxFields, UnderWay
    <2>2. CASE ~(Len(tx.todo) > 1) /\ Waits
      <3>1. tx' = [tx EXCEPT !.pc = "wait", !.phys = Present \ ignored] /\ tx.pc = "send"
        BY <1>3, <2>2 DEF Enqueue
      <3> QED BY <1>1, <2>2, <3>1 DEF WifiInv, TxFields, UnderWay, Waits, Asks, Asked
    <2>3. CASE ~(Len(tx.todo) > 1) /\ ~Waits
      <3>1. tx' = [tx EXCEPT !.pc = "finish"] /\ tx.pc = "send"
        BY <1>3, <2>3 DEF Enqueue
      <3> QED BY <1>1, <3>1 DEF WifiInv, TxFields, UnderWay
    <2> QED BY <2>1, <2>2, <2>3
  <1>4. CASE WaitConnected
    <2>1. tx' = [tx EXCEPT !.pc = "finish", !.tries = 0] /\ tx.pc = "wait"
      BY <1>4 DEF WaitConnected
    <2> QED BY <1>1, <2>1 DEF WifiInv, TxFields, UnderWay
  <1>5. CASE WaitSettledElsewhere \/ WaitTimeout \/ WaitClosed
    <2>1. /\ tx.pc = "wait"
          /\ \/ tx' = [tx EXCEPT !.pc = "clear", !.tries = @ + 1]
             \/ tx' = [tx EXCEPT !.pc = "rollback"]
      BY <1>5 DEF WaitSettledElsewhere, WaitTimeout, WaitClosed, RetryTx
    <2>2. /\ tx'.pc \in {"clear", "rollback"} /\ tx'.req = tx.req /\ tx'.todo = tx.todo
          /\ tx'.outcome = tx.outcome /\ tx'.oldError = tx.oldError
          /\ DOMAIN tx' = DOMAIN tx
      BY <2>1, TxShape, Zenon DEF TxFields
    <2>3. Asked(tx.req)' = Asked(tx.req) /\ Asks(tx.req)' = Asks(tx.req)
      BY <1>1, <2>2 DEF Asked, Asks
    <2> QED BY <1>1, <2>1, <2>2, <2>3 DEF WifiInv, UnderWay
  <1> QED BY <1>3, <1>4, <1>5

(* WIFI switched on or off, the rollback and the end of a request.          *)
LEMMA EndKeeps ==
  ASSUME WifiInv, Controlled \/ Rollback \/ Finish PROVE WifiInv'
  <1>1. CASE Controlled
    <2>1. saved' = saved /\ errors' = errors /\ tx.pc = "control"
      BY <1>1 DEF Controlled, conf, plugin
    <2>2. \/ tx' = [tx EXCEPT !.pc = "clear", !.todo = <<PurgeMessage>>, !.replied = FALSE]
          \/ tx' = [tx EXCEPT !.pc = "finish", !.replied = FALSE]
      BY <1>1 DEF Controlled
    <2>3. tx.req.op \in {"on", "off"} /\ tx.outcome = "none" /\ ~tx.oldError
      BY <2>1, Zenon DEF WifiInv, UnderWay
    <2>4. /\ DOMAIN tx' = DOMAIN tx /\ tx'.req = tx.req /\ tx'.outcome = tx.outcome
          /\ tx'.oldError = tx.oldError /\ tx'.pc \in {"clear", "finish"}
          /\ tx'.pc = "clear" => tx'.todo = <<PurgeMessage>>
      BY <2>2, TxShape, Zenon DEF TxFields
    <2>5. tx'.pc = "clear" => tx'.todo = <<tx'.todo[1]>>
      BY <2>4, OneMessage, Zenon
    <2>6. ~Asks(tx.req)'
      BY <2>3, <2>4 DEF Asks
    <2> QED BY <2>1, <2>3, <2>4, <2>5, <2>6, Zenon DEF WifiInv, UnderWay
  <1>2. CASE Rollback
    <2>1. saved' = saved /\ errors' = errors /\ tx.pc = "rollback"
      BY <1>2 DEF Rollback, conf, plugin
    <2>2. PICK msgs : tx' = [tx EXCEPT !.pc = "clear", !.outcome = "failed", !.tries = 0,
                                      !.phys = {}, !.oldError = FALSE, !.todo = msgs]
      BY <1>2, Zenon DEF Rollback
    <2>3. /\ DOMAIN tx' = DOMAIN tx /\ tx'.pc = "clear" /\ tx'.outcome = "failed"
          /\ tx'.oldError = FALSE /\ tx'.req = tx.req
      BY <2>2, TxShape DEF TxFields
    <2> QED BY <2>1, <2>3, Zenon DEF WifiInv, UnderWay
  <1>3. CASE Finish
    <2>1. errors' = errors /\ tx.pc = "finish"
      BY <1>3 DEF Finish, plugin
    <2>2. DOMAIN tx' = DOMAIN tx /\ tx'.pc = "idle" /\ tx'.oldError = tx.oldError
      BY <1>3, TxShape DEF Finish, TxFields
    <2>3. \A s \in DOMAIN saved' : saved'[s] \in Config /\ saved'[s].ssid = s
      <3>1. CASE saved' = Put(saved, tx.req.cfg.ssid, Merge(tx.req.cfg)) /\ tx.req.op = "connect"
        <4>1. tx.req.cfg \in Config
          BY <2>1, <3>1, Zenon DEF WifiInv, WifiRequest
        <4>2. Merge(tx.req.cfg) \in Config /\ Merge(tx.req.cfg).ssid = tx.req.cfg.ssid
          BY <4>1, MergeIsConfig
        <4> QED BY <3>1, <4>2, Zenon DEF WifiInv, Put, Over
      <3>2. CASE saved' = Without(saved, {tx.req.ssid})
        BY <3>2, Zenon DEF WifiInv, Without, Restrict
      <3>3. CASE saved' = saved
        BY <3>3 DEF WifiInv
      <3> QED BY <1>3, <3>1, <3>2, <3>3 DEF Finish
    <2> QED BY <2>1, <2>2, <2>3, Zenon DEF WifiInv, UnderWay
  <1> QED BY <1>1, <1>2, <1>3

(* The hand-over clears the errors of the profiles it carries.              *)
LEMMA HandOverKeeps ==
  ASSUME WifiInv, NEW p \in Phys, NEW requeried \in BOOLEAN, HandOver(p, requeried)
  PROVE  WifiInv'
  <1>1. saved' = saved
    BY DEF HandOver, conf
  <1>2. \/ errors' = errors /\ tx' = tx
        \/ /\ \E m : errors' = ClearApplied(errors, m)
           /\ tx' = [tx EXCEPT !.disturbed = TRUE]
    BY Zenon DEF HandOver
  <1>3. KeptOrNew(errors', errors)
    BY <1>2, Zenon DEF KeptOrNew, ClearApplied, Restrict
  <1>4. /\ DOMAIN tx' = DOMAIN tx /\ tx'.pc = tx.pc /\ tx'.req = tx.req
        /\ tx'.todo = tx.todo /\ tx'.outcome = tx.outcome /\ tx'.oldError = tx.oldError
    BY <1>2, TxShape DEF TxFields
  <1> QED BY <1>1, <1>3, <1>4, OthersKeep

LEMMA WifiStutters == WifiInv /\ UNCHANGED wifiVars => WifiInv'
  <1> SUFFICES ASSUME WifiInv, UNCHANGED wifiVars PROVE WifiInv'
    OBVIOUS
  <1>1. saved' = saved /\ tx' = tx /\ errors' = errors
    BY DEF wifiVars, conf, plugin
  <1>2. KeptOrNew(errors', errors)
    BY <1>1 DEF KeptOrNew
  <1> QED BY <1>1, <1>2, OthersKeep

LEMMA WifiStep == WifiInv /\ [WifiNext]_wifiVars => WifiInv'
  <1>1. WifiInv /\ DaemonStep => WifiInv'
    BY BeginKeeps, ClearKeeps, FatalKeeps, AdvanceKeeps, EndKeeps, HandOverKeeps
       DEF DaemonStep
  <1> QED BY <1>1, WorkerKeeps, WifiStutters DEF WifiNext

(* A connection wait never fails on an error latched before its request, if *)
(* the request handed its profile over: the errors of an earlier password   *)
(* do not end a connect with the new one (wait_wifi_connect_requests,       *)
(* clear_applied_connect_errors).                                           *)
THEOREM WaitsReadNoOldError == WifiSpec => []WaitReadsNoOldError
  <1>1. WifiInv => WaitReadsNoOldError
    <2> SUFFICES ASSUME WifiInv, tx.pc = "rollback", tx.oldError
                 PROVE  Head(tx.todo).cfgs = {}
      BY DEF WaitReadsNoOldError
    <2>1. tx.todo = <<tx.todo[1]>> /\ tx.todo[1].cfgs = {}
      BY DEF WifiInv, UnderWay
    <2>2. Head(tx.todo) = tx.todo[1]
      BY <2>1, OneMessage, Zenon
    <2> QED BY <2>1, <2>2
  <1> QED BY WifiStart, WifiStep, <1>1, PTL DEF WifiSpec
=============================================================================
