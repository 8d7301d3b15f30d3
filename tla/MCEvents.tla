------------------------------- MODULE MCEvents -------------------------------
(* Instances of Events for TLC.                                             *)
EXTENDS Events

CONSTANTS usb, card, radio, home

MCNamesOf == usb :> {"usb0", "usb1"} @@ card :> {"eth0"} @@ radio :> {"wlan0"}

Nic(id, dev, auto, state) == Profile("eth", id, dev, auto, None, state, None, {})
Virtual(auto, ssid, parent, ports) ==
    Profile("virt", "name", None, auto, ssid, "up", parent, ports)

(* A dock: a card known by its MAC address, and a VLAN on the built-in NIC. *)
Dock == [saved |-> "lan" :> Nic("mac", usb, "undef", "up")
                     @@ "eth0" :> Nic("name", None, "auto", "up")
                     @@ "vlan0" :> Virtual("undef", None, "eth0", {}),
         present |-> {{}, {usb, card}}]

(* A bridge over both cards, one of them activated by hand.                 *)
Bridge == [saved |-> "eth0" :> Nic("name", None, "manual", "up")
                       @@ "usb0" :> Nic("name", None, "undef", "up")
                       @@ "br0" :> Virtual("auto", None, None, {"usb0", "eth0"}),
           present |-> {{card}, {usb}, {usb, card}}]

(* A radio that is not to be touched, under a profile of a network.         *)
Ignoring == [saved |-> "phy" :> Profile("wifi-phy", "mac", radio, "undef", None, "ignore", None, {})
                         @@ "home" :> Profile("wifi-cfg", "none", None, "undef", home, "up", None, {})
                         @@ "vlan1" :> Virtual("manual", None, "eth0", {})
                         @@ "eth0" :> Nic("name", None, "undef", "up"),
             present |-> {{radio}, {radio, card}}]

(* A profile of a network, and a tunnel wanted on it only.                  *)
Wireless == [saved |-> "home" :> Profile("wifi-cfg", "none", None, "undef", home, "up", None, {})
                         @@ "wg0" :> Virtual("wifi", home, None, {}),
             present |-> {{radio}}]

MCHosts == {Dock, Bridge, Ignoring, Wireless}

MCRequests == "eth0" :> Nic("name", None, "auto", "up") @@ "lan" :> Nic("mac", usb, "auto", "up")

===============================================================================
