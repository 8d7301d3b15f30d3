---- MODULE MCServices ----
EXTENDS Services
CONSTANTS eth, s1, d1, d2, g1, g2

MCLeases == {[dns |-> {d1}, gateway |-> g1], [dns |-> {d2}, gateway |-> g2]}
MCResolvers == {[static |-> {s1}, cache |-> "unset"],
                [static |-> {s1}, cache |-> "on"],
                [static |-> {}, cache |-> "off"]}
MCRequests ==
  {[dns |-> [static |-> {s1}, cache |-> "on"], dhcp |-> "start", iface |-> eth],
   [dns |-> [static |-> {}, cache |-> "off"], dhcp |-> "keep", iface |-> eth],
   [dns |-> None, dhcp |-> "start", iface |-> eth],
   [dns |-> None, dhcp |-> "stop", iface |-> eth]}
====
