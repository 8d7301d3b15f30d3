--------------------------- MODULE MonitorProofs ---------------------------
(* Proofs about the interface monitor, for every set of interfaces, wifi-    *)
(* phys and SSIDs and every value of the bounds.                             *)
EXTENDS Monitor, TLAPS

LinkOK == link \in [Iface -> Link \cup {None}]
NicOK(n) == n \in Nic /\ Reported(n)

(* A step of the notification path only replaces these four entries.         *)
LEMMA NicUpdate ==
    ASSUME NEW n \in Nic
    PROVE  /\ n = [emited |-> n.emited, paused |-> n.paused,
                   delay_queue |-> n.delay_queue,
                   udev_pending |-> n.udev_pending,
                   phy_emited |-> n.phy_emited, iface_mac |-> n.iface_mac,
                   told |-> n.told, out |-> n.out]
           /\ n.emited \in LastLinkEvent \cup {None}
           /\ n.paused \in LastLinkEvent \cup {None}
           /\ n.delay_queue \in Queued \cup {None}
           /\ n.udev_pending \in Event \cup {None}
           /\ n.phy_emited \in BOOLEAN
           /\ n.iface_mac \in BOOLEAN
           /\ n.told \in Told \cup {None}
           /\ n.out \in Seq(Event)
  BY DEF Nic

(* What the event worker hears of an event agrees with the event.            *)
LEMMA HeardType ==
    ASSUME LinkOK, NEW i \in Iface, NEW ev \in Event
    PROVE  /\ Heard(i, ev) \in Told \cup {None}
           /\ ev.is_delete => Heard(i, ev) = None
           /\ ~ev.is_delete => /\ Heard(i, ev) \in Told
                               /\ Heard(i, ev).is_up = ev.is_up
                               /\ ev.ssid \in {None, Heard(i, ev).ssid}
  BY DEF LinkOK, Link, Event, Heard, Told

LEMMA FromEventType ==
    ASSUME NEW ev \in Event, NEW mac \in BOOLEAN
    PROVE  /\ from_event(ev, mac) \in LastLinkEvent
           /\ from_event(ev, mac).is_up = ev.is_up
           /\ from_event(ev, mac).extra_info \in {None, ev.ssid}
  BY DEF Event, from_event, LastLinkEvent, event_extra_info

LEMMA SuppressOK ==
    ASSUME LinkOK, NEW i \in Iface, NEW n \in Nic, NEW ev \in Event
    PROVE  NicOK(Suppress(i, n, ev))
  <1> DEFINE m == Suppress(i, n, ev)
  <1>1. /\ m.emited = IF ev.is_delete THEN None
                      ELSE from_event(ev, n.iface_mac)
        /\ m.told = Heard(i, ev)
    BY DEF Suppress, Nic
  <1>2. m \in Nic
    <2>1. /\ Heard(i, ev) \in Told \cup {None}
          /\ (IF ev.is_delete THEN None ELSE from_event(ev, n.iface_mac))
               \in LastLinkEvent \cup {None}
          /\ (n.phy_emited /\ ~ev.is_delete) \in BOOLEAN
      BY NicUpdate, HeardType, FromEventType
    <2> QED BY <2>1, Zenon DEF Suppress, Nic
  <1>3. Reported(m)
    BY <1>1, NicUpdate, HeardType, FromEventType, NoneAssumption
       DEF Reported, Told
  <1> QED BY <1>2, <1>3 DEF NicOK

LEMMA NotifyOK ==
    ASSUME LinkOK, NEW w, NEW i \in Iface, NEW n \in Nic, NEW ev \in Event,
           w.wifi \in BOOLEAN
    PROVE  NicOK(notify(w, i, n, ev))
  <1> DEFINE m == notify(w, i, n, ev)
             new == w.wifi /\ ev.wifi /\ ~ev.is_delete /\ ~n.phy_emited
  <1>1. /\ m.emited = IF ev.is_delete THEN None
                      ELSE from_event(ev, n.iface_mac)
        /\ m.told = Heard(i, ev)
    BY DEF notify, Nic
  <1>2. m \in Nic
    <2>1. /\ Heard(i, ev) \in Told \cup {None}
          /\ (IF ev.is_delete THEN None ELSE from_event(ev, n.iface_mac))
               \in LastLinkEvent \cup {None}
          /\ ((n.phy_emited \/ new) /\ ~ev.is_delete) \in BOOLEAN
      BY NicUpdate, HeardType, FromEventType
    <2>2. [ev EXCEPT !.is_new_wifi_phy = new] \in Event
      <3>1. new \in BOOLEAN
        OBVIOUS
      <3> HIDE DEF new
      <3> QED BY <3>1 DEF Event
    <2>3. Append(n.out, [ev EXCEPT !.is_new_wifi_phy = new]) \in Seq(Event)
      BY <2>2, NicUpdate
    <2> DEFINE last == IF ev.is_delete THEN None
                       ELSE from_event(ev, n.iface_mac)
               phy == (n.phy_emited \/ new) /\ ~ev.is_delete
               sent == Append(n.out, [ev EXCEPT !.is_new_wifi_phy = new])
    <2>4. m = [n EXCEPT !.delay_queue = None, !.emited = last,
                        !.phy_emited = phy, !.told = Heard(i, ev),
                        !.out = sent]
      BY DEF notify
    <2>5. last \in LastLinkEvent \cup {None} /\ phy \in BOOLEAN
          /\ sent \in Seq(Event)
      BY <2>1, <2>3
    <2> HIDE DEF m, last, phy, sent
    <2> QED BY <2>1, <2>4, <2>5, Zenon DEF Nic
  <1>3. Reported(m)
    BY <1>1, NicUpdate, HeardType, FromEventType, NoneAssumption
       DEF Reported, Told
  <1> QED BY <1>2, <1>3 DEF NicOK

LEMMA DelayNotifyOK ==
    ASSUME NEW n, NicOK(n), n.emited # None, NEW ev \in Event,
           n.emited.is_up \/ ~ev.is_up
    PROVE  NicOK(delay_notify(n, ev))
  <1> DEFINE m == delay_notify(n, ev)
             q == [event |-> ev, due |-> FALSE]
  <1>0. n \in Nic /\ Reported(n) /\ n.emited \in LastLinkEvent
    BY NicUpdate DEF NicOK
  <1>1. /\ m.emited = IF n.emited.is_up /\ ~ev.is_up
                      THEN from_event(ev, n.iface_mac) ELSE n.emited
        /\ m.told = n.told
        /\ m.delay_queue = q
    BY <1>0 DEF delay_notify, Nic
  <1>2. q \in Queued /\ q.event = ev
    BY DEF Queued
  <1>3. m \in Nic
    <2>1. (IF n.emited.is_up /\ ~ev.is_up THEN from_event(ev, n.iface_mac)
           ELSE n.emited) \in LastLinkEvent
      BY <1>0, NicUpdate, FromEventType
    <2> HIDE DEF q
    <2>2. q \in Queued \cup {None}
      BY <1>2
    <2>3. m = [n EXCEPT !.emited = IF @.is_up /\ ~ev.is_up
                         THEN from_event(ev, n.iface_mac) ELSE @,
                        !.delay_queue = q]
      BY DEF delay_notify, q
    <2> HIDE DEF m
    <2> QED BY <2>1, <2>2, <2>3, <1>0, Zenon DEF Nic
  <1>4. Reported(m)
    <2>1. CASE ev.is_up
      BY <2>1, <1>0, <1>1 DEF Reported
    <2>2. CASE ~ev.is_up
      <3>1. ~m.emited.is_up
        BY <2>2, <1>0, <1>1, NicUpdate, FromEventType
      <3>2. m.delay_queue # None /\ ~m.delay_queue.event.is_up
        BY <2>2, <1>1, <1>2, NoneAssumption, Zenon
      <3> QED BY <3>1, <3>2 DEF Reported
    <2> QED BY <2>1, <2>2
  <1> QED BY <1>3, <1>4 DEF NicOK

(* Entries that do not concern the report may change freely.                 *)
LEMMA FrameOK ==
    ASSUME NEW n, NicOK(n), NEW m \in Nic, m.emited = n.emited,
           m.told = n.told, m.delay_queue = n.delay_queue
    PROVE  NicOK(m)
  BY DEF NicOK, Reported

LEMMA TryNotifyOK ==
    ASSUME LinkOK, NEW w, w.wifi \in BOOLEAN, NEW i \in Iface,
           NEW n, NicOK(n), NEW ev \in Event
    PROVE  NicOK(try_notify(w, i, n, ev))
  <1>0. n \in Nic
    BY DEF NicOK
  <1> DEFINE silenced == event_is_explicitly_down(i, ev)
             interested == event_is_interested(w, i, n, ev)
  <1>1. CASE silenced
    BY <1>0, <1>1, SuppressOK DEF try_notify
  <1>2. CASE ~silenced /\ ~interested
    BY <1>2 DEF try_notify
  <1>3. CASE ~silenced /\ interested /\ ev.is_delete
    <2>1. [n EXCEPT !.udev_pending = None] \in Nic
      BY <1>0 DEF Nic
    <2>2. try_notify(w, i, n, ev)
            = notify(w, i, [n EXCEPT !.udev_pending = None], ev)
      BY <1>3 DEF try_notify
    <2> QED BY <2>1, <2>2, NotifyOK
  <1>4. CASE /\ ~silenced /\ interested /\ ~ev.is_delete
             /\ ~udev_is_initialized(i, ev.idx)
    <2>1. [n EXCEPT !.udev_pending = ev] \in Nic
      BY <1>0 DEF Nic
    <2>2. NicOK([n EXCEPT !.udev_pending = ev])
      BY <1>0, <2>1, FrameOK DEF Nic
    <2> QED BY <1>4, <2>2 DEF try_notify
  <1>5. CASE /\ ~silenced /\ interested /\ ~ev.is_delete
             /\ udev_is_initialized(i, ev.idx)
    <2>1. try_notify(w, i, n, ev)
            = IF \/ n.emited = None
                 \/ n.emited.expired
                 \/ ~n.emited.is_up /\ ev.is_up
              THEN notify(w, i, n, ev) ELSE delay_notify(n, ev)
      BY <1>5 DEF try_notify
    <2> QED BY <1>0, <2>1, NotifyOK, DelayNotifyOK
  <1> QED BY <1>1, <1>2, <1>3, <1>4, <1>5

LEMMA UdevPendingOK ==
    ASSUME LinkOK, NEW w, w.wifi \in BOOLEAN, NEW i \in Iface,
           NEW n, NicOK(n)
    PROVE  NicOK(process_udev_pending(w, i, n))
  <1>0. n \in Nic
    BY DEF NicOK
  <1>1. [n EXCEPT !.udev_pending = None] \in Nic
    BY <1>0 DEF Nic
  <1>2. NicOK([n EXCEPT !.udev_pending = None])
    BY <1>0, <1>1, FrameOK DEF Nic
  <1>3. n.udev_pending # None => n.udev_pending \in Event
    BY <1>0, NicUpdate
  <1> QED BY <1>2, <1>3, TryNotifyOK DEF process_udev_pending

LEMMA WithheldOK ==
    ASSUME NEW n \in Nic
    PROVE  NicOK(Withheld(n))
  <1>1. CASE n.emited = None
    BY <1>1 DEF Withheld, NicOK, Reported
  <1>2. CASE n.emited # None
    <2> DEFINE t == [is_up |-> n.emited.is_up, ssid |-> n.emited.extra_info]
    <2>1. n.emited \in LastLinkEvent
      BY <1>2, NicUpdate
    <2>2. t \in Told /\ t.is_up = n.emited.is_up
          /\ t.ssid = n.emited.extra_info
      BY <2>1 DEF LastLinkEvent, Told
    <2>3. Withheld(n) = [n EXCEPT !.told = t]
      BY <1>2 DEF Withheld
    <2> HIDE DEF t
    <2>4. /\ Withheld(n) \in Nic
          /\ Withheld(n).told = t
          /\ Withheld(n).emited = n.emited
      BY <2>2, <2>3 DEF Nic
    <2>5. Reported(Withheld(n))
      BY <2>2, <2>4, NoneAssumption DEF Reported
    <2> QED BY <2>4, <2>5 DEF NicOK
  <1> QED BY <1>1, <1>2

LEMMA DelayQueueOK ==
    ASSUME LinkOK, NEW w, w.wifi \in BOOLEAN, NEW i \in Iface,
           NEW n, NicOK(n)
    PROVE  NicOK(process_delay_queue(w, i, n))
  <1>0. n \in Nic /\ Reported(n)
    BY DEF NicOK
  <1>1. CASE n.delay_queue = None \/ ~n.delay_queue.due
    BY <1>1 DEF process_delay_queue
  <1>2. CASE n.delay_queue # None /\ n.delay_queue.due
    <2> DEFINE ev == n.delay_queue.event
               m  == [n EXCEPT !.delay_queue = None]
    <2>1. n.delay_queue \in Queued
      BY <1>0, <1>2, NicUpdate
    <2>2. ev \in Event
      BY <2>1 DEF Queued
    <2>3. m \in Nic /\ m.emited = n.emited /\ m.told = n.told
      BY <1>0 DEF Nic
    <2>4. process_delay_queue(w, i, n) =
            CASE event_is_explicitly_down(i, ev) -> Withheld(m)
              [] ~event_is_explicitly_down(i, ev)
                 /\ n.emited # None /\ n.emited.is_up /\ ev.is_up -> m
              [] OTHER -> notify(w, i, m, ev)
      BY <1>2 DEF process_delay_queue
    <2>5. n.emited # None /\ n.emited.is_up => Reported(m)
      BY <1>0, <2>3 DEF Reported
    <2> HIDE DEF m, ev
    <2>6. NicOK(Withheld(m)) /\ NicOK(notify(w, i, m, ev))
      BY <2>2, <2>3, WithheldOK, NotifyOK
    <2>7. n.emited # None /\ n.emited.is_up => NicOK(m)
      BY <2>3, <2>5 DEF NicOK
    <2> QED BY <2>4, <2>6, <2>7
  <1> QED BY <1>1, <1>2

LEMMA EventTypes ==
    ASSUME NEW idx \in 0..MaxChanges, NEW up \in BOOLEAN,
           NEW s \in Ssid \cup {None}, NEW wifi \in BOOLEAN
    PROVE  /\ NewEvent(idx, up, s, wifi) \in Event
           /\ DeleteEvent(idx, s, wifi) \in Event
  BY Zenon DEF NewEvent, DeleteEvent, Event

LEMMA ToDeleteType ==
    ASSUME NEW last \in LastLinkEvent
    PROVE  to_delete_event(last) \in Event
  BY EventTypes DEF LastLinkEvent, to_delete_event

LEMMA LinkEventTypes ==
    ASSUME LinkOK, NEW i \in Iface, link[i] # None, NEW w
    PROVE  DumpEvent(i) \in Event /\ QueryEvent(w, i) \in Event
  <1>1. /\ link[i].idx \in 0..MaxChanges /\ link[i].is_up \in BOOLEAN
        /\ link[i].ssid \in Ssid \cup {None}
    BY DEF LinkOK, Link
  <1>2. (i \in WifiPhy) \in BOOLEAN
    OBVIOUS
  <1> QED BY <1>1, <1>2, EventTypes, Zenon DEF DumpEvent, QueryEvent

LEMMA MacOK ==
    ASSUME NEW n, NicOK(n), NEW b \in BOOLEAN
    PROVE  NicOK([n EXCEPT !.iface_mac = b])
  <1>1. [n EXCEPT !.iface_mac = b] \in Nic
    BY DEF NicOK, Nic
  <1> QED BY <1>1, FrameOK DEF NicOK, Nic

LEMMA RtnlOK ==
    ASSUME LinkOK, NEW w, w.wifi \in BOOLEAN, NEW m \in Message,
           NEW n, NicOK(n), NEW sysfs \in BOOLEAN
    PROVE  NicOK(process_rtnl_message(w, m, n, sysfs))
  <1>1. /\ m.iface \in Iface /\ m.idx \in 0..MaxChanges
        /\ m.is_up \in BOOLEAN /\ m.ssid \in Ssid \cup {None}
    BY DEF Message
  <1>2. (m.iface \in WifiPhy /\ sysfs) \in BOOLEAN
    OBVIOUS
  <1>3. parse_link_msg(w, m, sysfs) \in Event
    BY <1>1, <1>2, EventTypes, Zenon DEF parse_link_msg
  <1>4. (n.iface_mac \/ m.ssid = None) \in BOOLEAN
    OBVIOUS
  <1>5. NicOK([n EXCEPT !.iface_mac = n.iface_mac \/ m.ssid = None])
    BY <1>4, MacOK, Zenon
  <1> QED BY <1>1, <1>3, <1>5, TryNotifyOK DEF process_rtnl_message

LEMMA DumpOK ==
    ASSUME LinkOK, NEW w, w.wifi \in BOOLEAN, NEW i \in Iface,
           NEW n, NicOK(n)
    PROVE  /\ link[i] # None => NicOK(handle_resume_event(w, i, n))
           /\ NicOK(dump(w, i, n))
  <1>0. n \in Nic
    BY DEF NicOK
  <1>1. ASSUME link[i] # None PROVE NicOK(handle_resume_event(w, i, n))
    <2> DEFINE m == [n EXCEPT !.iface_mac = TRUE]
    <2>1. NicOK(m)
      BY MacOK, Zenon
    <2>2. DumpEvent(i) \in Event
      BY <1>1, LinkEventTypes
    <2> HIDE DEF m
    <2>3. NicOK(try_notify(w, i, m, DumpEvent(i)))
      BY <2>1, <2>2, TryNotifyOK
    <2> QED BY <2>1, <2>3 DEF handle_resume_event, m
  <1>2. NicOK(handle_resume_deleted(w, i, n))
    <2>1. CASE ~paused_state \/ n.paused = None
      BY <2>1 DEF handle_resume_deleted
    <2>2. CASE ~(~paused_state \/ n.paused = None)
      <3>1. n.paused \in LastLinkEvent
        BY <1>0, <2>2, NicUpdate
      <3>2. (n.iface_mac \/ n.paused.mac_address) \in BOOLEAN
        BY <1>0, NicUpdate
      <3>3. NicOK([n EXCEPT !.iface_mac = n.iface_mac \/ n.paused.mac_address])
        BY <3>2, MacOK, Zenon
      <3>4. NicOK(try_notify(w, i, [n EXCEPT !.iface_mac =
                                      n.iface_mac \/ n.paused.mac_address],
                             to_delete_event(n.paused)))
        BY <3>1, <3>3, ToDeleteType, TryNotifyOK
      <3> QED BY <2>2, <3>4, MacOK, Zenon DEF handle_resume_deleted
    <2> QED BY <2>1, <2>2
  <1>3. ASSUME NEW m, NicOK(m) PROVE NicOK([m EXCEPT !.paused = None])
    <2>1. [m EXCEPT !.paused = None] \in Nic
      BY <1>3 DEF NicOK, Nic
    <2> QED BY <1>3, <2>1, FrameOK, Zenon DEF NicOK, Nic
  <1> QED BY <1>1, <1>2, <1>3 DEF dump

LEMMA ReconcileOK ==
    ASSUME LinkOK, NEW w, w.wifi \in BOOLEAN, NEW i \in Iface,
           NEW n, NicOK(n)
    PROVE  NicOK(reconcile(w, i, n))
  <1>0. n \in Nic
    BY DEF NicOK
  <1>1. ASSUME link[i] # None PROVE NicOK(reconcile_present(w, i, n))
    <2> DEFINE m == [n EXCEPT !.iface_mac = TRUE]
    <2>1. NicOK(m)
      BY MacOK, Zenon
    <2>2. QueryEvent(w, i) \in Event
      BY <1>1, LinkEventTypes
    <2> HIDE DEF m
    <2>3. NicOK(try_notify(w, i, m, QueryEvent(w, i)))
      BY <2>1, <2>2, TryNotifyOK
    <2> QED BY <2>1, <2>3 DEF reconcile_present, m
  <1>2. NicOK(reconcile_missing(w, i, n))
    <2>1. CASE n.emited = None
      BY <2>1 DEF reconcile_missing
    <2>2. CASE n.emited # None
      <3> DEFINE m == [n EXCEPT !.iface_mac = @ \/ n.emited.mac_address]
                 ev == to_delete_event(n.emited)
                 k == [m EXCEPT !.emited = None, !.phy_emited = FALSE]
      <3>1. ev \in Event
        BY <1>0, <2>2, NicUpdate, ToDeleteType
      <3>2. (n.iface_mac \/ n.emited.mac_address) \in BOOLEAN
        BY <1>0, NicUpdate
      <3>3. NicOK(m)
        BY <3>2, MacOK, Zenon
      <3>4. reconcile_missing(w, i, n) =
              [(IF event_is_interested(w, i, m, ev) THEN try_notify(w, i, m, ev)
                ELSE k) EXCEPT !.iface_mac = FALSE]
        BY <2>2 DEF reconcile_missing
      <3> HIDE DEF m, ev
      <3>5. k \in Nic /\ k.emited = None
        BY <3>3, Zenon DEF NicOK, Nic
      <3>6. NicOK(k)
        BY <3>5 DEF NicOK, Reported
      <3>7. NicOK(try_notify(w, i, m, ev))
        BY <3>1, <3>3, TryNotifyOK
      <3> HIDE DEF k
      <3> QED BY <3>4, <3>6, <3>7, MacOK, Zenon
    <2> QED BY <2>1, <2>2
  <1> QED BY <1>1, <1>2 DEF reconcile

------------------------------------------------------------------------------
(* The entries of every name, step by step.                                  *)

NicInv == nic \in [Iface -> Nic] /\ \A i \in Iface : NicOK(nic[i])

LEMMA QuietOK ==
    ASSUME NicInv
    PROVE  /\ Quiet \in [Iface -> Nic]
           /\ \A i \in Iface : NicOK(Quiet[i]) /\ Quiet[i].emited = nic[i].emited
  <1> SUFFICES ASSUME NEW i \in Iface
               PROVE  /\ NicOK(Silent(nic[i]))
                      /\ Silent(nic[i]).emited = nic[i].emited
    BY DEF Quiet, NicOK
  <1>1. nic[i] \in Nic /\ NicOK(nic[i])
    BY DEF NicInv
  <1>2. <<>> \in Seq(Event)
    OBVIOUS
  <1>3. Silent(nic[i]) \in Nic
    BY <1>1, <1>2, Zenon DEF Silent, Nic
  <1>4. /\ Silent(nic[i]).emited = nic[i].emited
        /\ Silent(nic[i]).told = nic[i].told
        /\ Silent(nic[i]).delay_queue = nic[i].delay_queue
    BY <1>1 DEF Silent, Nic
  <1> QED BY <1>1, <1>3, <1>4, FrameOK

LEMMA PauseNic ==
    ASSUME NicInv, pause
    PROVE  NicInv'
  <1> DEFINE p(i) == [Quiet[i] EXCEPT !.iface_mac = FALSE,
                                      !.paused = IF paused_state THEN @
                                                 ELSE nic[i].emited]
  <1>1. nic' = [i \in Iface |-> p(i)]
    BY Zenon DEF pause
  <1>2. ASSUME NEW i \in Iface PROVE NicOK(p(i))
    <2>1. Quiet[i] \in Nic /\ NicOK(Quiet[i])
      BY QuietOK DEF NicOK
    <2>2. nic[i].emited \in LastLinkEvent \cup {None}
      BY NicUpdate DEF NicInv
    <2>3. p(i) \in Nic
      BY <2>1, <2>2, Zenon DEF Nic
    <2>4. /\ p(i).emited = Quiet[i].emited
          /\ p(i).told = Quiet[i].told
          /\ p(i).delay_queue = Quiet[i].delay_queue
      BY <2>1 DEF Nic
    <2> HIDE DEF p
    <2> QED BY <2>1, <2>3, <2>4, FrameOK
  <1> HIDE DEF p
  <1> QED BY <1>1, <1>2 DEF NicInv, NicOK

LEMMA ResumeNic ==
    ASSUME LinkOK, NicInv, NEW w, w.wifi \in BOOLEAN, resume(w)
    PROVE  NicInv'
  <1>1. CASE ResumeDone(w)
    <2>1. nic' = [i \in Iface |-> dump(w, i, Quiet[i])]
      BY <1>1 DEF ResumeDone
    <2>2. \A i \in Iface : NicOK(dump(w, i, Quiet[i]))
      BY QuietOK, DumpOK
    <2> QED BY <2>1, <2>2 DEF NicInv, NicOK
  <1>2. CASE ResumeFailed(w)
    <2>1. PICK seen \in SUBSET {i \in Iface : link[i] # None} :
            nic' = [i \in Iface |-> IF i \in seen
                                    THEN handle_resume_event(w, i, Quiet[i])
                                    ELSE Quiet[i]]
      BY <1>2 DEF ResumeFailed
    <2>2. \A i \in Iface : NicOK(IF i \in seen
                                  THEN handle_resume_event(w, i, Quiet[i])
                                  ELSE Quiet[i])
      BY QuietOK, DumpOK
    <2> QED BY <2>1, <2>2 DEF NicInv, NicOK
  <1> QED BY <1>1, <1>2 DEF resume

LEMMA QuietNic ==
    ASSUME NicInv, nic' = Quiet
    PROVE  NicInv'
  BY QuietOK DEF NicInv

(* Updating one name.                                                        *)
LEMMA OneNic ==
    ASSUME NicInv, NEW i \in Iface, NEW n, NicOK(n),
           nic' = [Quiet EXCEPT ![i] = n]
    PROVE  NicInv'
  BY QuietOK DEF NicInv, NicOK

LEMMA NicStep ==
    ASSUME TypeOK, NicInv, Next
    PROVE  NicInv'
  <1>0. LinkOK /\ watch.wifi \in BOOLEAN
    BY DEF TypeOK, LinkOK
  <1>1. ASSUME NEW w, w.wifi \in BOOLEAN, AddWatch(w) PROVE NicInv'
    <2>1. CASE should_start_netlink
      <3>1. resume(w)
        BY <1>1, <2>1 DEF AddWatch
      <3> QED BY <1>0, <1>1, <3>1, ResumeNic
    <2>2. CASE ~should_start_netlink
      BY <1>1, <2>2, QuietNic DEF AddWatch, NoSession
    <2> QED BY <2>1, <2>2
  <1>2. ASSUME NEW w, DelWatch(w) PROVE NicInv'
    BY <1>2, PauseNic, QuietNic, Zenon DEF DelWatch, NoSession
  <1>3. ASSUME NEW i \in Iface, NEW phy \in BOOLEAN, Forget(i, phy)
        PROVE  NicInv'
    <2> DEFINE n == [Quiet[i] EXCEPT !.emited = None, !.paused = None,
                                     !.phy_emited = @ /\ ~phy]
    <2>1. Quiet[i] \in Nic /\ Quiet \in [Iface -> Nic]
      BY QuietOK
    <2>2. nic' = [Quiet EXCEPT ![i] = n]
      BY <1>3, <2>1, Zenon DEF Forget, Nic
    <2>3. n \in Nic /\ n.emited = None
      BY <2>1, Zenon DEF Nic
    <2>4. NicOK(n)
      BY <2>3 DEF NicOK, Reported
    <2> HIDE DEF n
    <2> QED BY <2>2, <2>4, OneNic, Zenon
  <1>4. CASE CommandStep
    <2>1. ASSUME NEW i \in Iface, AddIface(i) \/ AddMacWatch(i) PROVE NicInv'
      BY <1>0, <1>1, <2>1 DEF AddIface, AddMacWatch, TypeOK
    <2>2. ASSUME NEW i \in Iface, DelIface(i) \/ DelMacWatch(i) PROVE NicInv'
      BY <1>2, <2>2 DEF DelIface, DelMacWatch
    <2>3. ASSUME NEW i \in Iface, ForgetPausedState(i) \/ ForgetEmitted(i)
          PROVE  NicInv'
      BY <1>3, <2>3, Zenon DEF ForgetPausedState, ForgetEmitted
    <2>4. CASE EnableWifiMonitor
      <3> DEFINE w == [watch EXCEPT !.wifi = TRUE]
      <3>1. w.wifi \in BOOLEAN
        BY DEF TypeOK
      <3>2. AddWatch(w)
        BY <2>4 DEF EnableWifiMonitor
      <3> HIDE DEF w
      <3> QED BY <1>1, <3>1, <3>2
    <2>5. CASE DisableWifiMonitor
      BY <1>2, <2>5 DEF DisableWifiMonitor
    <2>6. CASE Start
      <3>1. resume(watch) \/ NoSession
        BY <2>6 DEF Start
      <3>2. CASE resume(watch)
        BY <1>0, <3>2, ResumeNic
      <3>3. CASE NoSession
        BY <3>3, QuietNic DEF NoSession
      <3> QED BY <3>1, <3>2, <3>3
    <2>7. CASE Pause
      BY <2>7, PauseNic DEF Pause
    <2>8. CASE Resume
      <3>1. resume(watch) \/ NoSession
        BY <2>8 DEF Resume
      <3>2. CASE resume(watch)
        BY <1>0, <3>2, ResumeNic
      <3>3. CASE NoSession
        BY <3>3, QuietNic DEF NoSession
      <3> QED BY <3>1, <3>2, <3>3
    <2>9. ASSUME NEW name, MarkExplicitlyDown({name}) \/ ClearExplicitlyDown({name})
          PROVE  NicInv'
      BY <2>9, QuietNic, Zenon DEF MarkExplicitlyDown, ClearExplicitlyDown, NoSession
    <2> QED BY <1>4, <2>1, <2>2, <2>3, <2>4, <2>5, <2>6, <2>7, <2>8, <2>9, Zenon
               DEF CommandStep
  <1>5. CASE NetlinkMsg
    <2> DEFINE m == Head(nlq)
    <2>0. m \in Message
      BY <1>5 DEF NetlinkMsg, TypeOK
    <2>1. m \in Message /\ m.iface \in Iface
      BY <2>0 DEF Message
    <2>2. PICK sysfs \in BOOLEAN :
            nic' = [Quiet EXCEPT ![m.iface] =
                      process_rtnl_message(watch, m, Quiet[m.iface], sysfs)]
      BY <1>5, <2>1, QuietOK, Zenon DEF NetlinkMsg
    <2>3. NicOK(process_rtnl_message(watch, m, Quiet[m.iface], sysfs))
      BY <1>0, <2>1, QuietOK, RtnlOK
    <2> QED BY <2>1, <2>2, <2>3, OneNic, Zenon
  <1>6. ASSUME NEW due \in BOOLEAN, Tick(due) PROVE NicInv'
    <2> DEFINE d(i) == process_delay_queue(watch, i,
                         process_udev_pending(watch, i, Quiet[i]))
               t(i) == IF due THEN reconcile(watch, i, d(i)) ELSE d(i)
    <2>1. nic' = [i \in Iface |-> t(i)]
      BY <1>6 DEF Tick
    <2>2. \A i \in Iface : NicOK(d(i))
      BY <1>0, QuietOK, UdevPendingOK, DelayQueueOK
    <2> HIDE DEF d
    <2>3. \A i \in Iface : NicOK(t(i))
      BY <1>0, <2>2, ReconcileOK
    <2> HIDE DEF t
    <2> QED BY <2>1, <2>3 DEF NicInv, NicOK
  <1>7. CASE KernelStep
    BY <1>7, QuietNic, Zenon DEF KernelStep, LinkNew, LinkSet, LinkDel, LinkChatter,
                          Change
  <1>8. CASE TimeStep
    <2>1. ASSUME NEW i \in Iface, UdevInit(i) PROVE NicInv'
      BY <2>1, QuietNic DEF UdevInit
    <2>2. ASSUME NEW i \in Iface, DelayPasses(i) PROVE NicInv'
      <3> DEFINE q == [Quiet[i].delay_queue EXCEPT !.due = TRUE]
                 n == [Quiet[i] EXCEPT !.delay_queue = q]
      <3>1. Quiet[i] \in Nic /\ NicOK(Quiet[i]) /\ Quiet \in [Iface -> Nic]
        BY QuietOK
      <3>2. nic[i].delay_queue # None /\ nic[i].delay_queue = Quiet[i].delay_queue
        BY <2>2 DEF DelayPasses, Quiet, Silent, Nic, NicInv
      <3>3. Quiet[i].delay_queue \in Queued
        BY <3>1, <3>2, NicUpdate
      <3>4. q \in Queued /\ q.event = Quiet[i].delay_queue.event
        BY <3>3, Zenon DEF Queued
      <3>5. nic' = [Quiet EXCEPT ![i] = n]
        BY <2>2, <3>1, <3>3 DEF DelayPasses, Nic, Queued
      <3> HIDE DEF q
      <3>6. /\ n \in Nic /\ n.emited = Quiet[i].emited
            /\ n.told = Quiet[i].told /\ n.delay_queue = q
        BY <3>1, <3>4, Zenon DEF Nic
      <3> HIDE DEF n
      <3>7. NicOK(n)
        BY <3>1, <3>2, <3>4, <3>6, NoneAssumption DEF NicOK, Reported
      <3> QED BY <3>5, <3>7, OneNic, Zenon
    <2>3. ASSUME NEW i \in Iface, Expire(i) PROVE NicInv'
      <3> DEFINE e == [Quiet[i].emited EXCEPT !.expired = TRUE]
                 n == [Quiet[i] EXCEPT !.emited = e]
      <3>1. Quiet[i] \in Nic /\ NicOK(Quiet[i]) /\ Quiet \in [Iface -> Nic]
            /\ Quiet[i].emited = nic[i].emited
        BY QuietOK
      <3>2. Quiet[i].emited \in LastLinkEvent /\ Quiet[i].emited # None
        BY <2>3, <3>1, NicUpdate DEF Expire
      <3>3. /\ e \in LastLinkEvent /\ e.is_up = Quiet[i].emited.is_up
            /\ e.extra_info = Quiet[i].emited.extra_info
        BY <3>2, Zenon DEF LastLinkEvent
      <3>4. nic' = [Quiet EXCEPT ![i] = n]
        BY <2>3, <3>1, <3>2 DEF Expire, Nic, LastLinkEvent
      <3> HIDE DEF e
      <3>5. /\ n \in Nic /\ n.emited = e
            /\ n.told = Quiet[i].told /\ n.delay_queue = Quiet[i].delay_queue
        BY <3>1, <3>3, Zenon DEF Nic
      <3> HIDE DEF n
      <3>6. NicOK(n)
        BY <3>1, <3>2, <3>3, <3>5 DEF NicOK, Reported
      <3> QED BY <3>4, <3>6, OneNic, Zenon
    <2> QED BY <1>8, <2>1, <2>2, <2>3 DEF TimeStep
  <1> QED BY <1>4, <1>5, <1>6, <1>7, <1>8, Zenon DEF Next, WorkerStep

------------------------------------------------------------------------------
(* The control state: session, receiver, snapshot, pauses and bounds.        *)

(* The inductive invariant.  NotDeaf is not inductive by itself: Start opens *)
(* a session only when the worker was not started, and that there is none    *)
(* before is SessionSound.  Both need the types, so the four are carried     *)
(* together.                                                                 *)
IInv == TypeOK /\ SessionSound /\ NotDeaf /\ Accounted

(* The part of the invariant that is not about the entries nic.              *)
Kernel ==
    /\ link \in [Iface -> Link \cup {None}]
    /\ udev \subseteq {i \in Iface : link[i] # None}
    /\ changes \in 0..MaxChanges
    /\ cmds \in 0..MaxCmds

Socket == nlq \in Seq(Message) /\ Len(nlq) <= MaxQueue

Session ==
    /\ watch \in [ifaces: SUBSET Iface, macs: SUBSET Iface, wifi: BOOLEAN]
    /\ explicitly_down \subseteq Iface \cup Ssid
    /\ started \in BOOLEAN
    /\ manual_pause_count \in 0..MaxPause
    /\ netlink_handle \in BOOLEAN
    /\ netlink_msg_receiver \in BOOLEAN
    /\ paused_state \in BOOLEAN
    /\ dump_failed \in BOOLEAN
    /\ SessionSound
    /\ NotDeaf

LEMMA IInvParts ==
    /\ IInv <=> Kernel /\ Socket /\ Session /\ NicInv
    /\ IInv' <=> Kernel' /\ Socket' /\ Session' /\ NicInv'
  BY DEF IInv, Kernel, Socket, Session, NicInv, NicOK, TypeOK, Accounted

LEMMA CommandKernel ==
    ASSUME Kernel, Command
    PROVE  Kernel'
  BY MonitorAssumption DEF Kernel, Command

(* Putting the receiver back keeps or empties the queue.                     *)
LEMMA PutBackSocket ==
    ASSUME Socket, NEW opened \in BOOLEAN, PutBackReceiver(opened)
    PROVE  Socket' /\ (~netlink_msg_receiver' => nlq' = <<>>)
  BY MonitorAssumption DEF Socket, PutBackReceiver

LEMMA AddWatchStep ==
    ASSUME Kernel, Socket, Session, NEW w,
           w \in [ifaces: SUBSET Iface, macs: SUBSET Iface, wifi: BOOLEAN],
           AddWatch(w)
    PROVE  Kernel' /\ Socket' /\ Session'
  <1>1. Kernel'
    BY CommandKernel DEF AddWatch, SetWatch
  <1>2. Socket' /\ (~netlink_msg_receiver' => nlq' = <<>>)
    BY PutBackSocket, Zenon DEF AddWatch, SetWatch, resume, ResumeDone, ResumeFailed,
                         NoSession
  <1>3. Session'
    BY <1>2, Zenon DEF AddWatch, SetWatch, resume, ResumeDone, ResumeFailed,
                NoSession, PutBackReceiver, should_start_netlink, Session,
                SessionSound, NotDeaf
  <1> QED BY <1>1, <1>2, <1>3

LEMMA DelWatchStep ==
    ASSUME Kernel, Socket, Session, NEW w,
           w \in [ifaces: SUBSET Iface, macs: SUBSET Iface, wifi: BOOLEAN],
           should_resume(w) => should_resume(watch),
           DelWatch(w)
    PROVE  Kernel' /\ Socket' /\ Session'
  <1>1. Kernel'
    BY CommandKernel DEF DelWatch, SetWatch
  <1>2. Socket' /\ (~netlink_msg_receiver' => nlq' = <<>>)
    BY PutBackSocket, Zenon DEF DelWatch, SetWatch, pause, NoSession
  <1>3. should_resume(w) <=> ~should_pause(w)
    BY DEF should_resume
  <1>4. should_resume(watch)' <=> should_resume(w)
    BY DEF DelWatch, SetWatch, should_resume, should_pause
  <1>5. Session'
    BY <1>2, <1>3, <1>4, Zenon DEF DelWatch, SetWatch, pause, NoSession,
         PutBackReceiver, Session, SessionSound, NotDeaf
  <1> QED BY <1>1, <1>2, <1>5

LEMMA ControlCommandStep ==
    ASSUME Kernel, Socket, Session, CommandStep
    PROVE  Kernel' /\ Socket' /\ Session'
  <1> DEFINE Watches == [ifaces: SUBSET Iface, macs: SUBSET Iface, wifi: BOOLEAN]
  <1>0. watch \in Watches
    BY DEF Session
  <1>1. ASSUME NEW i \in Iface, AddIface(i) PROVE Kernel' /\ Socket' /\ Session'
    <2> DEFINE w == [watch EXCEPT !.ifaces = @ \cup {i}]
    <2>1. w \in Watches
      BY <1>0
    <2>2. AddWatch(w)
      BY <1>1 DEF AddIface
    <2> HIDE DEF w
    <2> QED BY <2>1, <2>2, AddWatchStep
  <1>2. ASSUME NEW i \in Iface, AddMacWatch(i)
        PROVE  Kernel' /\ Socket' /\ Session'
    <2> DEFINE w == [watch EXCEPT !.macs = @ \cup {i}]
    <2>1. w \in Watches
      BY <1>0
    <2>2. AddWatch(w)
      BY <1>2 DEF AddMacWatch
    <2> HIDE DEF w
    <2> QED BY <2>1, <2>2, AddWatchStep
  <1>3. CASE EnableWifiMonitor
    <2> DEFINE w == [watch EXCEPT !.wifi = TRUE]
    <2>1. w \in Watches
      BY <1>0, Zenon
    <2>2. AddWatch(w)
      BY <1>3 DEF EnableWifiMonitor
    <2> HIDE DEF w
    <2> QED BY <2>1, <2>2, AddWatchStep
  <1>4. ASSUME NEW i \in Iface, DelIface(i) PROVE Kernel' /\ Socket' /\ Session'
    <2> DEFINE w == [watch EXCEPT !.ifaces = @ \ {i}]
    <2>1. w \in Watches /\ (should_resume(w) => should_resume(watch))
      BY <1>0 DEF should_resume, should_pause
    <2>2. DelWatch(w)
      BY <1>4 DEF DelIface
    <2> HIDE DEF w
    <2> QED BY <2>1, <2>2, DelWatchStep
  <1>5. ASSUME NEW i \in Iface, DelMacWatch(i)
        PROVE  Kernel' /\ Socket' /\ Session'
    <2> DEFINE w == [watch EXCEPT !.macs = @ \ {i}]
    <2>1. w \in Watches /\ (should_resume(w) => should_resume(watch))
      BY <1>0 DEF should_resume, should_pause
    <2>2. DelWatch(w)
      BY <1>5 DEF DelMacWatch
    <2> HIDE DEF w
    <2> QED BY <2>1, <2>2, DelWatchStep
  <1>6. CASE DisableWifiMonitor
    <2> DEFINE w == [watch EXCEPT !.wifi = FALSE]
    <2>1. w \in Watches /\ (should_resume(w) => should_resume(watch))
      BY <1>0, Zenon DEF should_resume, should_pause
    <2>2. DelWatch(w)
      BY <1>6 DEF DisableWifiMonitor
    <2> HIDE DEF w
    <2> QED BY <2>1, <2>2, DelWatchStep
  <1>7. CASE manual_pause_count = 0 /\ Start
    <2>1. Kernel'
      BY <1>7, CommandKernel DEF Start
    <2>2. Socket' /\ (~netlink_msg_receiver' => nlq' = <<>>)
      BY <1>7, PutBackSocket, Zenon DEF Start, resume, ResumeDone, ResumeFailed,
                                 NoSession
    <2>3. should_resume(watch)' <=> should_resume(watch)
      BY <1>7 DEF Start, should_resume, should_pause
    <2>4. Session'
      BY <1>7, <2>2, <2>3, Zenon DEF Start, resume, ResumeDone, ResumeFailed,
           NoSession, PutBackReceiver, Session, SessionSound, NotDeaf
    <2> QED BY <2>1, <2>2, <2>4
  <1>8. CASE Pause
    <2>1. Kernel'
      BY <1>8, CommandKernel DEF Pause
    <2>2. Socket' /\ (~netlink_msg_receiver' => nlq' = <<>>)
      BY <1>8, PutBackSocket, Zenon DEF Pause, pause
    <2>3. manual_pause_count' \in 0..MaxPause /\ manual_pause_count' # 0
      BY <1>8, MonitorAssumption DEF Pause, Session
    <2>4. netlink_msg_receiver' = FALSE
      BY <1>8, <2>3, Zenon DEF Pause, pause, PutBackReceiver, Session
    <2>5. Session'
      BY <1>8, <2>2, <2>3, <2>4, Zenon DEF Pause, pause, Session, SessionSound,
                                    NotDeaf
    <2> QED BY <2>1, <2>2, <2>5
  <1>9. CASE manual_pause_count > 0 /\ Resume
    <2>1. Kernel'
      BY <1>9, CommandKernel DEF Resume
    <2>2. Socket' /\ (~netlink_msg_receiver' => nlq' = <<>>)
      BY <1>9, PutBackSocket, Zenon DEF Resume, resume, ResumeDone, ResumeFailed,
                                 NoSession
    <2>3. should_resume(watch)' <=> should_resume(watch)
      BY <1>9 DEF Resume, should_resume, should_pause
    <2>4. /\ manual_pause_count' \in 0..MaxPause
          /\ ~netlink_msg_receiver
      BY <1>9, MonitorAssumption DEF Resume, Session, SessionSound
    <2>5. Session'
      BY <1>9, <2>2, <2>3, <2>4, Zenon DEF Resume, resume, ResumeDone,
           ResumeFailed, NoSession, PutBackReceiver, Session, SessionSound,
           NotDeaf
    <2> QED BY <2>1, <2>2, <2>5
  <1>10. ASSUME NEW name \in Iface \cup Ssid,
                MarkExplicitlyDown({name}) \/ ClearExplicitlyDown({name})
         PROVE  Kernel' /\ Socket' /\ Session'
    <2>1. Kernel'
      BY <1>10, CommandKernel DEF MarkExplicitlyDown, ClearExplicitlyDown
    <2>2. Socket' /\ (~netlink_msg_receiver' => nlq' = <<>>)
      BY <1>10, PutBackSocket, Zenon DEF MarkExplicitlyDown, ClearExplicitlyDown,
                                  NoSession
    <2>3. should_resume(watch)' <=> should_resume(watch)
      BY <1>10 DEF MarkExplicitlyDown, ClearExplicitlyDown, should_resume,
                   should_pause
    <2>4. explicitly_down' \subseteq Iface \cup Ssid
      BY <1>10 DEF MarkExplicitlyDown, ClearExplicitlyDown, Session
    <2>5. netlink_msg_receiver' = netlink_msg_receiver
      BY <1>10, Zenon DEF MarkExplicitlyDown, ClearExplicitlyDown, NoSession,
                   PutBackReceiver, Session, SessionSound
    <2>6. UNCHANGED <<watch, started, manual_pause_count, netlink_handle,
                      paused_state, dump_failed>>
      BY <1>10, Zenon DEF MarkExplicitlyDown, ClearExplicitlyDown, NoSession
    <2>7. Session'
      BY <2>2, <2>3, <2>4, <2>5, <2>6 DEF Session, SessionSound, NotDeaf
    <2> QED BY <2>1, <2>2, <2>7
  <1>11. ASSUME NEW i \in Iface, ForgetPausedState(i) \/ ForgetEmitted(i)
         PROVE  Kernel' /\ Socket' /\ Session'
    <2>1. PICK phy \in BOOLEAN : Forget(i, phy)
      BY <1>11, Zenon DEF ForgetPausedState, ForgetEmitted
    <2>2. Kernel'
      BY <2>1, CommandKernel DEF Forget
    <2>3. Socket' /\ (~netlink_msg_receiver' => nlq' = <<>>)
      BY <2>1, PutBackSocket, Zenon DEF Forget
    <2>4. should_resume(watch)' <=> should_resume(watch)
      BY <2>1 DEF Forget, should_resume, should_pause
    <2>5. Session'
      BY <2>1, <2>3, <2>4, Zenon DEF Forget, PutBackReceiver, Session, SessionSound,
                              NotDeaf
    <2> QED BY <2>2, <2>3, <2>5
  <1> QED BY <1>1, <1>2, <1>3, <1>4, <1>5, <1>6, <1>7, <1>8, <1>9, <1>10,
             <1>11, Zenon DEF CommandStep

LEMMA ControlWorkerStep ==
    ASSUME Kernel, Socket, Session, WorkerStep
    PROVE  Kernel' /\ Socket' /\ Session'
  <1>1. /\ netlink_msg_receiver = TRUE /\ netlink_msg_receiver' = TRUE
        /\ WorkerOnly
    BY Zenon DEF WorkerStep, NetlinkMsg, Tick, WorkerOnly, Session, SessionSound
  <1>2. Socket'
    <2>1. CASE NetlinkMsg
      BY <1>1, <2>1, MonitorAssumption DEF NetlinkMsg, Socket
    <2>2. CASE Tick(FALSE) \/ Tick(TRUE)
      BY <1>1, <2>2, Zenon DEF Tick, Socket
    <2> QED BY <2>1, <2>2, Zenon DEF WorkerStep
  <1>3. Kernel'
    BY <1>1 DEF WorkerOnly, Kernel
  <1>4. should_resume(watch)' <=> should_resume(watch)
    BY <1>1 DEF WorkerOnly, should_resume, should_pause
  <1>5. Session'
    BY <1>1, <1>4 DEF WorkerOnly, Session, SessionSound, NotDeaf
  <1> QED BY <1>2, <1>3, <1>5

LEMMA EnvironmentSession ==
    ASSUME Session, Environment, ~netlink_msg_receiver => nlq' = <<>>
    PROVE  Session'
  <1>1. should_resume(watch)' <=> should_resume(watch)
    BY DEF Environment, should_resume, should_pause
  <1> QED BY <1>1 DEF Environment, Session, SessionSound, NotDeaf

LEMMA MulticastSocket ==
    ASSUME Socket, Session, NEW m \in Message, Multicast(m)
    PROVE  Socket' /\ (~netlink_msg_receiver => nlq' = <<>>)
  BY MonitorAssumption DEF Socket, Session, SessionSound, Multicast

LEMMA ControlKernelStep ==
    ASSUME Kernel, Socket, Session, KernelStep
    PROVE  Kernel' /\ Socket' /\ Session'
  <1>1. Change /\ Environment /\ changes' \in 0..MaxChanges /\ cmds' = cmds
    <2>1. Change
      BY Zenon DEF KernelStep, LinkNew, LinkSet, LinkDel, LinkChatter
    <2> QED BY <2>1, MonitorAssumption DEF Change, Kernel, Environment
  <1> SUFFICES /\ link' \in [Iface -> Link \cup {None}]
               /\ udev' \subseteq {i \in Iface : link'[i] # None}
               /\ \E m \in Message : Multicast(m)
    BY <1>1, MulticastSocket, EnvironmentSession DEF Kernel
  <1>0. ASSUME NEW i \in Iface, NEW l \in Link, NEW k \in {"new", "del", "scan"}
        PROVE  Msg(i, k, l) \in Message
    BY DEF Msg, Link, Message
  <1>2. ASSUME NEW i \in Iface, LinkNew(i)
        PROVE  /\ link' \in [Iface -> Link \cup {None}]
               /\ udev' \subseteq {j \in Iface : link'[j] # None}
               /\ \E m \in Message : Multicast(m)
    <2> DEFINE l == [idx |-> changes + 1, is_up |-> FALSE, ssid |-> None]
    <2>1. l \in Link
      BY <1>1 DEF Link, Change
    <2>2. link' = [link EXCEPT ![i] = l] /\ Multicast(Msg(i, "new", l))
          /\ udev' = udev
      BY <1>2 DEF LinkNew
    <2> HIDE DEF l
    <2>3. l # None
      BY <2>1, NoneAssumption
    <2> QED BY <1>0, <2>1, <2>2, <2>3 DEF Kernel
  <1>3. ASSUME NEW i \in Iface, LinkSet(i)
        PROVE  /\ link' \in [Iface -> Link \cup {None}]
               /\ udev' \subseteq {j \in Iface : link'[j] # None}
               /\ \E m \in Message : Multicast(m)
    <2>0. link[i] \in Link
      BY <1>3 DEF LinkSet, Kernel
    <2>1. PICK up \in BOOLEAN, s \in Ssid \cup {None} :
            LET l == [link[i] EXCEPT !.is_up = up, !.ssid = s]
            IN  /\ link' = [link EXCEPT ![i] = l]
                /\ Multicast(Msg(i, "new", l))
      BY <1>3, Zenon DEF LinkSet
    <2> DEFINE l == [link[i] EXCEPT !.is_up = up, !.ssid = s]
    <2>2. l \in Link
      BY <2>0, Zenon DEF Link
    <2>3. link' = [link EXCEPT ![i] = l] /\ Multicast(Msg(i, "new", l))
          /\ udev' = udev
      BY <1>3, <2>1, Zenon DEF LinkSet
    <2> HIDE DEF l
    <2>4. l # None
      BY <2>2, NoneAssumption
    <2> QED BY <1>0, <2>2, <2>3, <2>4 DEF Kernel
  <1>4. ASSUME NEW i \in Iface, LinkDel(i)
        PROVE  /\ link' \in [Iface -> Link \cup {None}]
               /\ udev' \subseteq {j \in Iface : link'[j] # None}
               /\ \E m \in Message : Multicast(m)
    <2> DEFINE l == [link[i] EXCEPT !.is_up = FALSE, !.ssid = None]
    <2>1. link[i] \in Link
      BY <1>4 DEF LinkDel, Kernel
    <2>2. l \in Link
      BY <2>1, Zenon DEF Link
    <2>3. link' = [link EXCEPT ![i] = None] /\ Multicast(Msg(i, "del", l))
          /\ udev' = udev \ {i}
      BY <1>4 DEF LinkDel
    <2> HIDE DEF l
    <2> QED BY <1>0, <2>2, <2>3 DEF Kernel
  <1>5. ASSUME NEW i \in Iface, LinkChatter(i)
        PROVE  /\ link' \in [Iface -> Link \cup {None}]
               /\ udev' \subseteq {j \in Iface : link'[j] # None}
               /\ \E m \in Message : Multicast(m)
    <2> DEFINE l == [link[i] EXCEPT !.ssid = None]
    <2>1. link[i] \in Link
      BY <1>5 DEF LinkChatter, Kernel
    <2>2. l \in Link
      BY <2>1 DEF Link
    <2>3. Multicast(Msg(i, "new", l)) \/ Multicast(Msg(i, "scan", link[i]))
      BY <1>5 DEF LinkChatter
    <2> HIDE DEF l
    <2>4. \E m \in Message : Multicast(m)
      BY <1>0, <2>1, <2>2, <2>3
    <2> QED BY <1>5, <2>4 DEF Kernel, LinkChatter
  <1> QED BY <1>2, <1>3, <1>4, <1>5 DEF KernelStep

LEMMA ControlTimeStep ==
    ASSUME Kernel, Socket, Session, TimeStep
    PROVE  Kernel' /\ Socket' /\ Session'
  <1>1. /\ Environment /\ nlq' = nlq /\ link' = link /\ changes' = changes
        /\ cmds' = cmds
    BY DEF TimeStep, UdevInit, DelayPasses, Expire, Environment
  <1>2. udev' \subseteq {i \in Iface : link'[i] # None}
    BY <1>1 DEF TimeStep, UdevInit, DelayPasses, Expire, Kernel
  <1>3. Session'
    BY <1>1, EnvironmentSession DEF Session, SessionSound
  <1> QED BY <1>1, <1>2, <1>3 DEF Kernel, Socket

------------------------------------------------------------------------------
(* The theorems.                                                             *)

LEMMA InitInv == Init => IInv
  <1> SUFFICES ASSUME Init PROVE Kernel /\ Socket /\ Session /\ NicInv
    BY IInvParts
  <1>1. Kernel
    <2>1. PICK present \in SUBSET Iface :
            /\ link = [i \in Iface |->
                         IF i \in present
                         THEN [idx |-> 0, is_up |-> FALSE, ssid |-> None]
                         ELSE None]
            /\ udev \in SUBSET present
      BY Zenon DEF Init
    <2> DEFINE l == [idx |-> 0, is_up |-> FALSE, ssid |-> None]
    <2>2. l \in Link
      BY MonitorAssumption DEF Link
    <2>3. link = [i \in Iface |-> IF i \in present THEN l ELSE None]
      BY <2>1
    <2> HIDE DEF l
    <2>4. l # None
      BY <2>2, NoneAssumption
    <2>5. link \in [Iface -> Link \cup {None}]
      BY <2>2, <2>3
    <2>6. udev \subseteq {i \in Iface : link[i] # None}
      BY <2>1, <2>3, <2>4, Zenon
    <2>7. changes \in 0..MaxChanges /\ cmds \in 0..MaxCmds
      BY MonitorAssumption DEF Init
    <2> QED BY <2>5, <2>6, <2>7 DEF Kernel
  <1>2. Socket
    BY MonitorAssumption DEF Init, Socket
  <1>3. Session
    <2>1. watch \in [ifaces: SUBSET Iface, macs: SUBSET Iface, wifi: BOOLEAN]
      BY DEF Init
    <2>2. manual_pause_count \in 0..MaxPause
      BY MonitorAssumption DEF Init
    <2>3. SessionSound /\ NotDeaf
      BY DEF Init, SessionSound, NotDeaf
    <2>4. /\ explicitly_down \subseteq Iface \cup Ssid
          /\ started \in BOOLEAN /\ netlink_handle \in BOOLEAN
          /\ netlink_msg_receiver \in BOOLEAN /\ paused_state \in BOOLEAN
          /\ dump_failed \in BOOLEAN
      BY Zenon DEF Init
    <2> QED BY <2>1, <2>2, <2>3, <2>4 DEF Session
  <1>4. NicInv
    <2>1. NoEntries \in Nic /\ NoEntries.emited = None
      BY DEF NoEntries, Nic
    <2> QED BY <2>1 DEF Init, NicInv, NicOK, Reported
  <1> QED BY <1>1, <1>2, <1>3, <1>4

LEMMA StepInv == IInv /\ [Next]_vars => IInv'
  <1> SUFFICES ASSUME IInv, [Next]_vars PROVE IInv'
    OBVIOUS
  <1>1. Kernel /\ Socket /\ Session /\ NicInv /\ TypeOK
    BY IInvParts DEF IInv
  <1>2. CASE Next
    <2>1. NicInv'
      BY <1>1, <1>2, NicStep
    <2>2. Kernel' /\ Socket' /\ Session'
      BY <1>1, <1>2, ControlCommandStep, ControlWorkerStep,
         ControlKernelStep, ControlTimeStep DEF Next
    <2> QED BY <2>1, <2>2, IInvParts
  <1>3. CASE UNCHANGED vars
    <2>1. TypeOK' /\ SessionSound' /\ NotDeaf' /\ Accounted'
      BY <1>3 DEF IInv, vars, TypeOK, SessionSound, NotDeaf, Accounted,
                  should_resume, should_pause
    <2> QED BY <2>1 DEF IInv
  <1> QED BY <1>2, <1>3

LEMMA Invariance == Spec => []IInv
  BY InitInv, StepInv, PTL DEF Spec

(* The worker's maps, the socket queue, the pause counter and the kernel     *)
(* state keep their types under every command, message, tick and link change *)
(* of run().                                                                 *)
THEOREM TypeCorrect == Spec => []TypeOK
  BY Invariance, PTL DEF IInv

(* The session handle that resume() and pause() set and the receiver that    *)
(* run() moves in and out of the worker never drift apart.                   *)
THEOREM SessionIsSound == Spec => []SessionSound
  BY Invariance, PTL DEF IInv

(* No sequence of commands leaves a started, unpaused worker with a watch    *)
(* but without a netlink session, unless resume() itself failed.             *)
THEOREM NeverDeaf == Spec => []NotDeaf
  BY Invariance, PTL DEF IInv

(* Whatever try_notify, process_delay_queue, pause, the dump of resume() or  *)
(* reconcile() record as the last event of a name was reported, or is still  *)
(* queued for its report.                                                    *)
THEOREM RecordsAccounted == Spec => []Accounted
  BY Invariance, PTL DEF IInv

(* A step that only empties the out sequences sends nothing.                 *)
LEMMA QuietOut ==
    ASSUME NicInv, NEW i \in Iface
    PROVE  Quiet[i] \in Nic /\ Quiet[i].out = <<>>
  <1>1. Quiet[i] \in Nic /\ nic[i] \in Nic
    BY QuietOK DEF NicInv
  <1>2. Quiet[i] = [nic[i] EXCEPT !.out = <<>>]
    BY DEF Quiet, Silent
  <1> QED BY <1>1, <1>2 DEF Nic

LEMMA NothingSent ==
    ASSUME NEW i \in Iface, nic'[i].out = <<>>
    PROVE  Sent(i) = {}
  BY DEF Sent

(* The steps that send events: opening a session, a message and a tick.      *)
LEMMA SendingStep ==
    ASSUME IInv, Next, NEW i \in Iface, Sent(i) # {}
    PROVE  /\ started' /\ manual_pause_count' = 0
           /\ \/ \E w : w.wifi \in BOOLEAN /\ resume(w)
              \/ NetlinkMsg \/ Tick(FALSE) \/ Tick(TRUE)
  <1> DEFINE Opens == \E w : w.wifi \in BOOLEAN /\ resume(w)
             Sends == Opens \/ NetlinkMsg \/ Tick(FALSE) \/ Tick(TRUE)
             Awake == started' /\ manual_pause_count' = 0
  <1>0. NicInv /\ Session
    BY IInvParts
  <1>w. watch.wifi \in BOOLEAN /\ watch \in [ifaces: SUBSET Iface, macs: SUBSET Iface, wifi: BOOLEAN]
    BY DEF IInv, TypeOK
  <1> SUFFICES Awake /\ Sends
    BY Zenon
  <1>o. ASSUME NEW w, w.wifi \in BOOLEAN, resume(w) PROVE Opens
    BY <1>o
  <1> HIDE DEF Opens
  <1>1. nic' # Quiet
    BY <1>0, QuietOut, NothingSent
  <1>2. ~pause
    <2> SUFFICES ASSUME pause PROVE FALSE
      OBVIOUS
    <2>1. nic'[i] = [Quiet[i] EXCEPT !.iface_mac = FALSE,
                                     !.paused = IF paused_state THEN @
                                                ELSE nic[i].emited]
      BY Zenon DEF pause
    <2>2. nic'[i].out = <<>>
      BY <1>0, <2>1, QuietOut DEF Nic
    <2> QED BY <2>2, NothingSent
  <1>3. ASSUME NEW j \in Iface, NEW n, n.out = <<>>,
               nic' = [Quiet EXCEPT ![j] = n]
        PROVE  FALSE
    <2>1. nic'[i].out = <<>>
      BY <1>0, <1>3, QuietOut DEF Quiet
    <2> QED BY <2>1, NothingSent
  <1>4. CASE CommandStep
    <2>1. ASSUME NEW w, w.wifi \in BOOLEAN, AddWatch(w) PROVE Awake /\ Sends
      <3>1. should_start_netlink /\ resume(w)
        BY <1>1, <2>1, Zenon DEF AddWatch, NoSession
      <3>2. Opens
        BY <2>1, <3>1 DEF Opens
      <3> QED BY <2>1, <3>1, <3>2 DEF AddWatch, SetWatch, should_start_netlink
    <2>2. ASSUME NEW w, DelWatch(w) PROVE FALSE
      BY <1>1, <1>2, <2>2, Zenon DEF DelWatch, NoSession
    <2>3. ASSUME NEW j \in Iface, NEW phy \in BOOLEAN, Forget(j, phy)
          PROVE  FALSE
      <3> DEFINE n == [Quiet[j] EXCEPT !.emited = None, !.paused = None,
                                       !.phy_emited = @ /\ ~phy]
      <3>1. n.out = <<>>
        BY <1>0, QuietOut DEF Nic
      <3>2. nic' = [Quiet EXCEPT ![j] = n]
        BY <1>0, <2>3, QuietOut, Zenon DEF Forget, Nic
      <3> HIDE DEF n
      <3> QED BY <1>3, <3>1, <3>2, Zenon
    <2>4. CASE manual_pause_count = 0 /\ Start
      <3>1. Awake /\ resume(watch)
        BY <1>1, <2>4, Zenon DEF Start, NoSession
      <3>2. Opens
        BY <1>w, <1>o, <3>1
      <3> QED BY <3>1, <3>2
    <2>5. CASE Resume
      <3>1. Awake /\ resume(watch)
        BY <1>1, <2>5, Zenon DEF Resume, NoSession
      <3>2. Opens
        BY <1>w, <1>o, <3>1
      <3> QED BY <3>1, <3>2
    <2>6. ASSUME NEW j \in Iface, AddIface(j) \/ AddMacWatch(j)
          PROVE  Awake /\ Sends
      <3> DEFINE v == [watch EXCEPT !.ifaces = @ \cup {j}]
                 u == [watch EXCEPT !.macs = @ \cup {j}]
      <3>1. v.wifi \in BOOLEAN /\ u.wifi \in BOOLEAN
        BY <1>w
      <3>2. AddWatch(v) \/ AddWatch(u)
        BY <2>6 DEF AddIface, AddMacWatch
      <3> HIDE DEF v, u, Awake, Sends
      <3> QED BY <2>1, <3>1, <3>2
    <2>7. CASE EnableWifiMonitor
      <3> DEFINE v == [watch EXCEPT !.wifi = TRUE]
      <3>1. v.wifi \in BOOLEAN
        BY <1>w
      <3>2. AddWatch(v)
        BY <2>7 DEF EnableWifiMonitor
      <3> HIDE DEF v, Awake, Sends
      <3> QED BY <2>1, <3>1, <3>2
    <2>8. ASSUME NEW j \in Iface, DelIface(j) \/ DelMacWatch(j) PROVE FALSE
      BY <2>2, <2>8 DEF DelIface, DelMacWatch
    <2>9. ~DisableWifiMonitor
      BY <2>2 DEF DisableWifiMonitor
    <2>10. ASSUME NEW j \in Iface, ForgetPausedState(j) \/ ForgetEmitted(j)
           PROVE  FALSE
      BY <2>3, <2>10, Zenon DEF ForgetPausedState, ForgetEmitted
    <2>11. ~Pause
      BY <1>2 DEF Pause
    <2>12. ASSUME NEW name, MarkExplicitlyDown({name})
                            \/ ClearExplicitlyDown({name})
           PROVE  FALSE
      BY <1>1, <2>12, Zenon DEF MarkExplicitlyDown, ClearExplicitlyDown, NoSession
    <2> QED BY <1>4, <2>4, <2>5, <2>6, <2>7, <2>8, <2>9, <2>10, <2>11, <2>12, Zenon
               DEF CommandStep
  <1>5. CASE WorkerStep
    BY <1>0, <1>5, Zenon DEF WorkerStep, NetlinkMsg, Tick, WorkerOnly, Session,
                      SessionSound
  <1>6. ~KernelStep
    BY <1>1, Zenon DEF KernelStep, LinkNew, LinkSet, LinkDel, LinkChatter, Change
  <1>7. ~TimeStep
    <2>1. ASSUME NEW j \in Iface, DelayPasses(j) PROVE FALSE
      <3> DEFINE n == [Quiet[j] EXCEPT !.delay_queue.due = TRUE]
      <3>1. n.out = <<>>
        BY <1>0, QuietOut DEF Nic
      <3>2. nic' = [Quiet EXCEPT ![j] = n]
        BY <1>0, <2>1, QuietOut DEF DelayPasses, Quiet
      <3> HIDE DEF n
      <3> QED BY <1>3, <3>1, <3>2, Zenon
    <2>2. ASSUME NEW j \in Iface, Expire(j) PROVE FALSE
      <3> DEFINE n == [Quiet[j] EXCEPT !.emited.expired = TRUE]
      <3>1. n.out = <<>>
        BY <1>0, QuietOut DEF Nic
      <3>2. nic' = [Quiet EXCEPT ![j] = n]
        BY <1>0, <2>2, QuietOut DEF Expire, Quiet
      <3> HIDE DEF n
      <3> QED BY <1>3, <3>1, <3>2, Zenon
    <2> QED BY <1>1, <2>1, <2>2 DEF TimeStep, UdevInit
  <1> QED BY <1>4, <1>5, <1>6, <1>7, Zenon DEF Next

(* A link event leaves the worker only in a step after which it is started   *)
(* and no Pause is outstanding: an apply that paused the monitor does not    *)
(* hear of the changes it makes itself.                                      *)
THEOREM SilentWhilePaused == Spec => PausedSilent
  <1>1. IInv /\ [Next]_vars =>
          [\A i \in Iface :
             Sent(i) # {} => started' /\ manual_pause_count' = 0]_vars
    BY SendingStep, Zenon
  <1> QED BY <1>1, Invariance, PTL DEF Spec, PausedSilent

------------------------------------------------------------------------------
(* What the worker sends.  `up` says that the step began with an unexpired   *)
(* up on record and nothing queued that contradicts it.                      *)
UpRecord(n) == n.emited # None /\ n.emited.is_up /\ ~n.emited.expired

Lawful(i, n, up) ==
    \A k \in DOMAIN n.out :
        /\ i \notin explicitly_down /\ n.out[k].ssid \notin explicitly_down
        /\ up => ~n.out[k].is_up

LEMMA NotifyLawful ==
    ASSUME NEW w, NEW i, NEW n \in Nic, NEW ev \in Event, NEW up \in BOOLEAN,
           Lawful(i, n, up), ~event_is_explicitly_down(i, ev), up => ~ev.is_up
    PROVE  Lawful(i, notify(w, i, n, ev), up)
  <1> DEFINE new == w.wifi /\ ev.wifi /\ ~ev.is_delete /\ ~n.phy_emited
             e == [ev EXCEPT !.is_new_wifi_phy = new]
  <1>1. e.ssid = ev.ssid /\ e.is_up = ev.is_up
    BY DEF Event
  <1>2. notify(w, i, n, ev).out = Append(n.out, e)
    BY DEF notify, Nic
  <1>3. n.out \in Seq(Event)
    BY NicUpdate
  <1> HIDE DEF e
  <1>4. \A k \in DOMAIN Append(n.out, e) :
           \/ k \in DOMAIN n.out /\ Append(n.out, e)[k] = n.out[k]
           \/ Append(n.out, e)[k] = e
    BY <1>3
  <1> QED BY <1>1, <1>2, <1>4 DEF Lawful, event_is_explicitly_down

LEMMA SameOutLawful ==
    ASSUME NEW i, NEW n, NEW m, NEW up, Lawful(i, n, up), m.out = n.out
    PROVE  Lawful(i, m, up)
  BY DEF Lawful

(* try_notify: silenced events are not sent, and while an unexpired up is on *)
(* record only deletions are.                                                *)
LEMMA TryNotifyLawful ==
    ASSUME NEW w, NEW i, NEW n \in Nic, NEW ev \in Event, NEW up \in BOOLEAN,
           Lawful(i, n, up), up => UpRecord(n) /\ (ev.is_delete => ~ev.is_up)
    PROVE  Lawful(i, try_notify(w, i, n, ev), up)
  <1> DEFINE silenced == event_is_explicitly_down(i, ev)
             interested == event_is_interested(w, i, n, ev)
  <1>1. CASE silenced
    <2>1. try_notify(w, i, n, ev) = Suppress(i, n, ev)
      BY <1>1 DEF try_notify
    <2>2. Suppress(i, n, ev).out = n.out
      BY DEF Suppress, Nic
    <2> QED BY <2>1, <2>2, SameOutLawful
  <1>2. CASE ~silenced /\ ~interested
    BY <1>2 DEF try_notify
  <1>3. CASE ~silenced /\ interested /\ ev.is_delete
    <2> DEFINE m == [n EXCEPT !.udev_pending = None]
    <2>1. m \in Nic /\ m.out = n.out
      BY DEF Nic
    <2>2. try_notify(w, i, n, ev) = notify(w, i, m, ev)
      BY <1>3 DEF try_notify
    <2> HIDE DEF m
    <2>3. Lawful(i, m, up)
      BY <2>1, SameOutLawful
    <2> QED BY <1>3, <2>1, <2>2, <2>3, NotifyLawful
  <1>4. CASE /\ ~silenced /\ interested /\ ~ev.is_delete
             /\ ~udev_is_initialized(i, ev.idx)
    <2> DEFINE m == [n EXCEPT !.udev_pending = ev]
    <2>1. m.out = n.out
      BY DEF Nic
    <2>2. try_notify(w, i, n, ev) = m
      BY <1>4 DEF try_notify
    <2> QED BY <2>1, <2>2, SameOutLawful, Zenon
  <1>5. CASE /\ ~silenced /\ interested /\ ~ev.is_delete
             /\ udev_is_initialized(i, ev.idx)
    <2>1. try_notify(w, i, n, ev)
            = IF \/ n.emited = None
                 \/ n.emited.expired
                 \/ ~n.emited.is_up /\ ev.is_up
              THEN notify(w, i, n, ev) ELSE delay_notify(n, ev)
      BY <1>5 DEF try_notify
    <2>2. delay_notify(n, ev).out = n.out
      BY DEF delay_notify, Nic
    <2>3. CASE up
      <3>1. try_notify(w, i, n, ev) = delay_notify(n, ev)
        BY <2>1, <2>3 DEF UpRecord
      <3> QED BY <2>2, <3>1, SameOutLawful
    <2>4. CASE ~up
      BY <1>5, <2>1, <2>2, <2>4, NotifyLawful, SameOutLawful
    <2> QED BY <2>3, <2>4
  <1> QED BY <1>1, <1>2, <1>3, <1>4, <1>5

(* A deleted link is reported down.                                          *)
LEMMA DeleteIsDown ==
    ASSUME NEW idx, NEW s, NEW wifi
    PROVE  ~DeleteEvent(idx, s, wifi).is_up /\ DeleteEvent(idx, s, wifi).is_delete
  BY DEF DeleteEvent, NewEvent

LEMMA RtnlLawful ==
    ASSUME NEW w, NEW m \in Message, NEW n \in Nic, NEW sysfs \in BOOLEAN, NEW up \in BOOLEAN,
           Lawful(m.iface, n, up), up => UpRecord(n)
    PROVE  Lawful(m.iface, process_rtnl_message(w, m, n, sysfs), up)
  <1> DEFINE ev == parse_link_msg(w, m, sysfs)
             k == [n EXCEPT !.iface_mac = n.iface_mac \/ m.ssid = None]
  <1>1. /\ m.iface \in Iface /\ m.idx \in 0..MaxChanges
        /\ m.is_up \in BOOLEAN /\ m.ssid \in Ssid \cup {None}
    BY DEF Message
  <1>2. (m.iface \in WifiPhy /\ sysfs) \in BOOLEAN
    OBVIOUS
  <1>3. ev \in Event
    BY <1>1, <1>2, EventTypes, Zenon DEF parse_link_msg
  <1>4. ev.is_delete => ~ev.is_up
    BY DeleteIsDown DEF parse_link_msg, NewEvent
  <1>5. (n.iface_mac \/ m.ssid = None) \in BOOLEAN
    OBVIOUS
  <1>6. k \in Nic /\ k.out = n.out /\ k.emited = n.emited
    BY <1>5, Zenon DEF Nic
  <1>7. process_rtnl_message(w, m, n, sysfs) =
          IF m.kind = "scan" THEN n ELSE try_notify(w, m.iface, k, ev)
    BY DEF process_rtnl_message
  <1> HIDE DEF k, ev
  <1>8. Lawful(m.iface, k, up) /\ (up => UpRecord(k))
    BY <1>6, SameOutLawful DEF UpRecord
  <1>9. Lawful(m.iface, try_notify(w, m.iface, k, ev), up)
    BY <1>3, <1>4, <1>6, <1>8, TryNotifyLawful
  <1> QED BY <1>7, <1>9

LEMMA MacLawful ==
    ASSUME NEW i, NEW n \in Nic, NEW b, NEW up \in BOOLEAN,
           Lawful(i, n, up), up => UpRecord(n)
    PROVE  LET m == [n EXCEPT !.iface_mac = b]
           IN  Lawful(i, m, up) /\ (up => UpRecord(m))
  <1> DEFINE m == [n EXCEPT !.iface_mac = b]
  <1>1. m.out = n.out /\ m.emited = n.emited
    BY DEF Nic
  <1> HIDE DEF m
  <1>2. Lawful(i, m, up) /\ (up => UpRecord(m))
    BY <1>1, SameOutLawful DEF UpRecord
  <1> QED BY <1>2 DEF m

LEMMA UdevPendingLawful ==
    ASSUME NEW w, NEW i, NEW n \in Nic, NEW up \in BOOLEAN,
           Lawful(i, n, up), up => UpRecord(n) /\ n.udev_pending = None
    PROVE  /\ Lawful(i, process_udev_pending(w, i, n), up)
           /\ up => process_udev_pending(w, i, n) = n
  <1> DEFINE m == [n EXCEPT !.udev_pending = None]
  <1>1. m \in Nic /\ m.out = n.out
    BY DEF Nic
  <1>2. n.udev_pending # None => n.udev_pending \in Event
    BY NicUpdate
  <1>3. process_udev_pending(w, i, n) =
          IF n.udev_pending # None /\ udev_is_initialized(i, n.udev_pending.idx)
          THEN try_notify(w, i, m, n.udev_pending) ELSE n
    BY DEF process_udev_pending
  <1> HIDE DEF m
  <1>4. Lawful(i, m, up)
    BY <1>1, SameOutLawful
  <1>5. CASE up
    BY <1>3, <1>5, Zenon
  <1>6. CASE ~up
    <2>1. n.udev_pending # None => Lawful(i, try_notify(w, i, m, n.udev_pending), up)
      BY <1>1, <1>2, <1>4, <1>6, TryNotifyLawful
    <2> QED BY <1>3, <1>6, <2>1
  <1> QED BY <1>5, <1>6

LEMMA DelayQueueLawful ==
    ASSUME NEW w, NEW i, NEW n \in Nic, NEW up \in BOOLEAN, Lawful(i, n, up),
           up => UpRecord(n) /\ (n.delay_queue # None => n.delay_queue.event.is_up)
    PROVE  /\ Lawful(i, process_delay_queue(w, i, n), up)
           /\ up => UpRecord(process_delay_queue(w, i, n))
  <1>1. CASE n.delay_queue = None \/ ~n.delay_queue.due
    BY <1>1 DEF process_delay_queue
  <1>2. CASE n.delay_queue # None /\ n.delay_queue.due
    <2> DEFINE ev == n.delay_queue.event
               m  == [n EXCEPT !.delay_queue = None]
    <2>1. n.delay_queue \in Queued
      BY <1>2, NicUpdate
    <2>2. ev \in Event
      BY <2>1 DEF Queued
    <2>3. m \in Nic /\ m.emited = n.emited /\ m.out = n.out
      BY DEF Nic
    <2>4. process_delay_queue(w, i, n) =
            CASE event_is_explicitly_down(i, ev) -> Withheld(m)
              [] ~event_is_explicitly_down(i, ev)
                 /\ n.emited # None /\ n.emited.is_up /\ ev.is_up -> m
              [] OTHER -> notify(w, i, m, ev)
      BY <1>2 DEF process_delay_queue
    <2>5. up => ev.is_up
      BY <1>2
    <2> HIDE DEF m, ev
    <2>6. Lawful(i, m, up) /\ (up => UpRecord(m))
      BY <2>3, SameOutLawful DEF UpRecord
    <2>7. Withheld(m).out = m.out /\ Withheld(m).emited = m.emited
      BY <2>3 DEF Withheld, Nic
    <2>8. Lawful(i, Withheld(m), up) /\ (up => UpRecord(Withheld(m)))
      BY <2>6, <2>7, SameOutLawful DEF UpRecord
    <2>9. ~up /\ ~event_is_explicitly_down(i, ev) => Lawful(i, notify(w, i, m, ev), up)
      BY <2>2, <2>3, <2>6, NotifyLawful
    <2>10. CASE up
      <3>1. n.emited # None /\ n.emited.is_up /\ ev.is_up
        BY <2>5, <2>10 DEF UpRecord
      <3>2. process_delay_queue(w, i, n) = Withheld(m) \/ process_delay_queue(w, i, n) = m
        BY <2>4, <3>1
      <3> QED BY <2>6, <2>8, <3>2
    <2>11. CASE ~up
      <3>1. \/ process_delay_queue(w, i, n) = Withheld(m)
            \/ process_delay_queue(w, i, n) = m
            \/ /\ process_delay_queue(w, i, n) = notify(w, i, m, ev)
               /\ ~event_is_explicitly_down(i, ev)
        BY <2>4
      <3> QED BY <2>6, <2>8, <2>9, <2>11, <3>1
    <2> QED BY <2>10, <2>11
  <1> QED BY <1>1, <1>2

(* Only deletions pass an up record in the dump and in the query.            *)
LEMMA LinkEventsKeep ==
    ASSUME NEW w, NEW i
    PROVE  ~DumpEvent(i).is_delete /\ ~QueryEvent(w, i).is_delete
  BY DEF DumpEvent, QueryEvent, NewEvent

LEMMA ResumeEventLawful ==
    ASSUME LinkOK, NEW w, NEW i \in Iface, NEW n \in Nic, NEW up \in BOOLEAN,
           link[i] # None, Lawful(i, n, up), up => UpRecord(n)
    PROVE  Lawful(i, handle_resume_event(w, i, n), up)
  <1> DEFINE m == [n EXCEPT !.iface_mac = TRUE]
  <1>1. m \in Nic
    BY Zenon DEF Nic
  <1>2. Lawful(i, m, up) /\ (up => UpRecord(m))
    BY MacLawful
  <1>3. DumpEvent(i) \in Event
    BY LinkEventTypes
  <1>4. handle_resume_event(w, i, n) =
          IF emit_on_resume(n, DumpEvent(i)) THEN try_notify(w, i, m, DumpEvent(i))
          ELSE m
    BY DEF handle_resume_event
  <1> HIDE DEF m
  <1>5. Lawful(i, try_notify(w, i, m, DumpEvent(i)), up)
    BY <1>1, <1>2, <1>3, LinkEventsKeep, TryNotifyLawful
  <1> QED BY <1>2, <1>4, <1>5

(* A deletion may be sent whatever is on record.                             *)
LEMMA DeletionLawful ==
    ASSUME LinkOK, NEW w, w.wifi \in BOOLEAN, NEW i \in Iface,
           NEW n, NicOK(n), NEW up \in BOOLEAN, Lawful(i, n, up),
           up => UpRecord(n), NEW last \in LastLinkEvent
    PROVE  LET m == [n EXCEPT !.iface_mac = @ \/ last.mac_address]
               t == try_notify(w, i, m, to_delete_event(last))
           IN  NicOK(m) /\ NicOK(t) /\ Lawful(i, m, up) /\ Lawful(i, t, up)
  <1> DEFINE m == [n EXCEPT !.iface_mac = @ \/ last.mac_address]
             ev == to_delete_event(last)
  <1>0. n \in Nic
    BY DEF NicOK
  <1>1. (n.iface_mac \/ last.mac_address) \in BOOLEAN
    OBVIOUS
  <1>2. NicOK(m)
    BY <1>1, MacOK, Zenon
  <1>3. Lawful(i, m, up) /\ (up => UpRecord(m))
    BY <1>0, MacLawful
  <1>4. ev \in Event /\ ~ev.is_up
    BY ToDeleteType, DeleteIsDown DEF to_delete_event
  <1> HIDE DEF m, ev
  <1>5. NicOK(try_notify(w, i, m, ev))
    BY <1>2, <1>4, TryNotifyOK
  <1>6. Lawful(i, try_notify(w, i, m, ev), up)
    BY <1>2, <1>3, <1>4, TryNotifyLawful DEF NicOK
  <1> QED BY <1>2, <1>3, <1>5, <1>6 DEF m, ev

LEMMA DumpLawful ==
    ASSUME LinkOK, NEW w, w.wifi \in BOOLEAN, NEW i \in Iface,
           NEW n, NicOK(n), NEW up \in BOOLEAN,
           Lawful(i, n, up), up => UpRecord(n)
    PROVE  Lawful(i, dump(w, i, n), up)
  <1>0. n \in Nic
    BY DEF NicOK
  <1>1. ASSUME NEW m \in Nic, Lawful(i, m, up)
        PROVE  Lawful(i, [m EXCEPT !.paused = None], up)
    <2>1. [m EXCEPT !.paused = None].out = m.out
      BY DEF Nic
    <2> QED BY <1>1, <2>1, SameOutLawful, Zenon
  <1>2. CASE link[i] # None
    <2>1. Lawful(i, handle_resume_event(w, i, n), up)
      BY <1>0, <1>2, ResumeEventLawful
    <2>2. handle_resume_event(w, i, n) \in Nic
      BY <1>2, DumpOK DEF NicOK
    <2> QED BY <1>1, <1>2, <2>1, <2>2 DEF dump
  <1>3. CASE link[i] = None
    <2> DEFINE d == handle_resume_deleted(w, i, n)
    <2>1. d \in Nic /\ Lawful(i, d, up)
      <3>1. CASE ~paused_state \/ n.paused = None
        BY <1>0, <3>1 DEF handle_resume_deleted
      <3>2. CASE ~(~paused_state \/ n.paused = None)
        <4> DEFINE m == [n EXCEPT !.iface_mac = @ \/ n.paused.mac_address]
                   t == try_notify(w, i, m, to_delete_event(n.paused))
        <4>1. n.paused \in LastLinkEvent
          BY <1>0, <3>2, NicUpdate
        <4>2. NicOK(t) /\ Lawful(i, t, up)
          BY <4>1, DeletionLawful
        <4>3. d = [t EXCEPT !.iface_mac = FALSE]
          BY <3>2 DEF handle_resume_deleted
        <4> HIDE DEF t, d
        <4>4. d \in Nic /\ d.out = t.out
          BY <4>2, <4>3, Zenon DEF NicOK, Nic
        <4> QED BY <4>2, <4>4, SameOutLawful
      <3> QED BY <3>1, <3>2
    <2> HIDE DEF d
    <2>2. dump(w, i, n) = [d EXCEPT !.paused = None]
      BY <1>3 DEF dump, d
    <2> QED BY <1>1, <2>1, <2>2
  <1> QED BY <1>2, <1>3

LEMMA ReconcileLawful ==
    ASSUME LinkOK, NEW w, w.wifi \in BOOLEAN, NEW i \in Iface,
           NEW n, NicOK(n), NEW up \in BOOLEAN,
           Lawful(i, n, up), up => UpRecord(n)
    PROVE  Lawful(i, reconcile(w, i, n), up)
  <1>0. n \in Nic
    BY DEF NicOK
  <1>1. ASSUME link[i] # None PROVE Lawful(i, reconcile_present(w, i, n), up)
    <2> DEFINE m == [n EXCEPT !.iface_mac = TRUE]
               ev == QueryEvent(w, i)
    <2>1. m \in Nic
      BY <1>0, Zenon DEF Nic
    <2>2. Lawful(i, m, up) /\ (up => UpRecord(m))
      BY <1>0, MacLawful
    <2>3. ev \in Event /\ ~ev.is_delete
      BY <1>1, LinkEventTypes, LinkEventsKeep
    <2>4. reconcile_present(w, i, n) = m \/ reconcile_present(w, i, n) = try_notify(w, i, m, ev)
      BY DEF reconcile_present
    <2> HIDE DEF m, ev
    <2>5. Lawful(i, try_notify(w, i, m, ev), up)
      BY <2>1, <2>2, <2>3, TryNotifyLawful
    <2> QED BY <2>2, <2>4, <2>5
  <1>2. Lawful(i, reconcile_missing(w, i, n), up)
    <2>1. CASE n.emited = None
      BY <2>1 DEF reconcile_missing
    <2>2. CASE n.emited # None
      <3> DEFINE m == [n EXCEPT !.iface_mac = @ \/ n.emited.mac_address]
                 t == try_notify(w, i, m, to_delete_event(n.emited))
                 k == [m EXCEPT !.emited = None, !.phy_emited = FALSE]
      <3>1. n.emited \in LastLinkEvent
        BY <1>0, <2>2, NicUpdate
      <3>2. NicOK(m) /\ NicOK(t) /\ Lawful(i, m, up) /\ Lawful(i, t, up)
        BY <3>1, DeletionLawful
      <3>3. \/ reconcile_missing(w, i, n) = [t EXCEPT !.iface_mac = FALSE]
            \/ reconcile_missing(w, i, n) = [k EXCEPT !.iface_mac = FALSE]
        BY <2>2, Zenon DEF reconcile_missing
      <3> HIDE DEF t, m
      <3>4. [t EXCEPT !.iface_mac = FALSE].out = t.out
        BY <3>2 DEF NicOK, Nic
      <3>5. [k EXCEPT !.iface_mac = FALSE].out = m.out
        BY <3>2 DEF NicOK, Nic
      <3> QED BY <3>2, <3>3, <3>4, <3>5, SameOutLawful, Zenon
    <2> QED BY <2>1, <2>2
  <1> QED BY <1>1, <1>2 DEF reconcile

(* Every step that sends anything obeys the law.                             *)
LEMMA SendingLawful ==
    ASSUME IInv, Next, NEW i \in Iface, Sent(i) # {}
    PROVE  Lawful(i, nic'[i], UpRecord(nic[i]) /\ ~StaleQueued(nic[i]))
  <1> DEFINE up == UpRecord(nic[i]) /\ ~StaleQueued(nic[i])
             n == Quiet[i]
  <1>0. NicInv /\ Session /\ LinkOK /\ Socket
    BY IInvParts DEF Kernel, LinkOK
  <1>1. NicOK(n) /\ n \in Nic /\ n.out = <<>>
    BY <1>0, QuietOK, QuietOut
  <1>2. /\ n.emited = nic[i].emited /\ n.udev_pending = nic[i].udev_pending
        /\ n.delay_queue = nic[i].delay_queue
    BY <1>0 DEF Quiet, Silent, NicInv, Nic
  <1>3. /\ up \in BOOLEAN
        /\ up => /\ UpRecord(n) /\ n.udev_pending = None
                 /\ n.delay_queue # None => n.delay_queue.event.is_up
    BY <1>2 DEF UpRecord, StaleQueued
  <1> HIDE DEF up, n
  <1>4. Lawful(i, n, up)
    BY <1>1 DEF Lawful
  <1>w. watch.wifi \in BOOLEAN
    BY <1>0 DEF Session
  <1>5. ASSUME NEW w, w.wifi \in BOOLEAN, resume(w) PROVE Lawful(i, nic'[i], up)
    <2>1. CASE ResumeDone(w)
      <3>1. nic'[i] = dump(w, i, n)
        BY <2>1 DEF ResumeDone, n
      <3> QED BY <1>0, <1>1, <1>3, <1>4, <1>5, <3>1, DumpLawful
    <2>2. CASE ResumeFailed(w)
      <3>1. \/ nic'[i] = n
            \/ link[i] # None /\ nic'[i] = handle_resume_event(w, i, n)
        BY <2>2 DEF ResumeFailed, n
      <3>2. link[i] # None => Lawful(i, handle_resume_event(w, i, n), up)
        BY <1>0, <1>1, <1>3, <1>4, ResumeEventLawful
      <3> QED BY <1>4, <3>1, <3>2
    <2> QED BY <1>5, <2>1, <2>2 DEF resume
  <1>6. ASSUME NetlinkMsg PROVE Lawful(i, nic'[i], up)
    <2> DEFINE m == Head(nlq)
    <2>1. m \in Message
      BY <1>0, <1>6 DEF Socket, NetlinkMsg
    <2>2. PICK sysfs \in BOOLEAN :
            nic' = [Quiet EXCEPT ![m.iface] =
                      process_rtnl_message(watch, m, Quiet[m.iface], sysfs)]
      BY <1>6, Zenon DEF NetlinkMsg, Quiet
    <2> HIDE DEF m
    <2>3. CASE m.iface = i
      <3>1. nic'[i] = process_rtnl_message(watch, m, n, sysfs)
        BY <2>2, <2>3 DEF Quiet, n
      <3> QED BY <1>1, <1>3, <1>4, <2>1, <2>3, <3>1, RtnlLawful
    <2>4. CASE m.iface # i
      <3>1. nic'[i] = n
        BY <2>2, <2>4 DEF Quiet, n
      <3> QED BY <1>4, <3>1
    <2> QED BY <2>3, <2>4
  <1>7. ASSUME NEW due \in BOOLEAN, Tick(due) PROVE Lawful(i, nic'[i], up)
    <2> DEFINE p == process_udev_pending(watch, i, n)
               q == process_delay_queue(watch, i, p)
    <2>1. nic'[i] = IF due THEN reconcile(watch, i, q) ELSE q
      BY <1>7 DEF Tick, n
    <2>2. Lawful(i, p, up) /\ (up => p = n)
      BY <1>1, <1>3, <1>4, UdevPendingLawful
    <2>3. NicOK(p)
      BY <1>0, <1>1, <1>w, UdevPendingOK
    <2> HIDE DEF p
    <2>4. Lawful(i, q, up) /\ (up => UpRecord(q))
      BY <1>3, <2>2, <2>3, DelayQueueLawful DEF NicOK
    <2>5. NicOK(q)
      BY <1>0, <1>w, <2>3, DelayQueueOK
    <2> HIDE DEF q
    <2>6. Lawful(i, reconcile(watch, i, q), up)
      BY <1>0, <1>3, <1>w, <2>4, <2>5, ReconcileLawful
    <2> QED BY <2>1, <2>4, <2>6
  <1>8. Lawful(i, nic'[i], up)
    <2>1. \/ \E w : w.wifi \in BOOLEAN /\ resume(w)
          \/ NetlinkMsg \/ Tick(FALSE) \/ Tick(TRUE)
      BY SendingStep, Zenon
    <2>2. CASE \E w : w.wifi \in BOOLEAN /\ resume(w)
      BY <1>5, <2>2
    <2>3. CASE Tick(FALSE) \/ Tick(TRUE)
      BY <1>7, <2>3, Zenon
    <2> QED BY <1>6, <2>1, <2>2, <2>3, Zenon
  <1> QED BY <1>8 DEF up

(* On every path of the worker an event of an interface or SSID marked       *)
(* explicitly down is suppressed, whenever it was queued or deferred.        *)
THEOREM SilencedStaysSilent == Spec => ExplicitlyDownSilent
  <1>1. ASSUME IInv, Next, NEW i \in Iface, NEW ev \in Sent(i)
        PROVE  i \notin explicitly_down /\ ev.ssid \notin explicitly_down
    BY <1>1, SendingLawful, Zenon DEF Lawful, Sent
  <1>2. IInv /\ [Next]_vars =>
          [\A i \in Iface : \A ev \in Sent(i) :
             i \notin explicitly_down /\ ev.ssid \notin explicitly_down]_vars
    BY <1>1
  <1> QED BY <1>2, Invariance, PTL DEF Spec, ExplicitlyDownSilent

(* An unexpired up on record, with nothing older queued for the interface,   *)
(* keeps a second up from being sent by any command, message, dump or tick.  *)
THEOREM UpNotRepeated == Spec => NoDuplicateUp
  <1>1. ASSUME IInv, Next, NEW i \in Iface, NEW ev \in Sent(i), ev.is_up,
               nic[i].emited # None, ~StaleQueued(nic[i])
        PROVE  ~nic[i].emited.is_up \/ nic[i].emited.expired
    <2>1. Lawful(i, nic'[i], UpRecord(nic[i]) /\ ~StaleQueued(nic[i]))
      BY <1>1, SendingLawful
    <2>2. ~UpRecord(nic[i])
      BY <1>1, <2>1 DEF Lawful, Sent
    <2> QED BY <1>1, <2>2 DEF UpRecord
  <1>2. IInv /\ [Next]_vars =>
          [\A i \in Iface : \A ev \in Sent(i) :
             ev.is_up /\ nic[i].emited # None /\ ~StaleQueued(nic[i])
               => ~nic[i].emited.is_up \/ nic[i].emited.expired]_vars
    BY <1>1
  <1> QED BY <1>2, Invariance, PTL DEF Spec, NoDuplicateUp
=============================================================================
