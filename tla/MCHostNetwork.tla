--------------------------- MODULE MCHostNetwork ---------------------------
(***************************************************************************)
(* One bridge is made, deleted and made again, beside another whose        *)
(* network intersects its own; ports are forwarded, reserved and opened;   *)
(* links are renamed, put in bridges and bonds.  One thing may fail.       *)
(***************************************************************************)
EXTENDS HostNetwork

Arguments ==
  [make   |-> [do |-> "create", name |-> "br", mode |-> "dnsmasq", ip |-> "a", nat |-> TRUE],
   other  |-> [do |-> "create", name |-> "br2", mode |-> "static", ip |-> "b", nat |-> FALSE],
   again  |-> [do |-> "create", name |-> "br", mode |-> "static", ip |-> "a", nat |-> FALSE],
   bare   |-> [do |-> "create", name |-> "br", mode |-> "none", ip |-> "a", nat |-> FALSE],
   unmake |-> [do |-> "delete", name |-> "br"],
   unmake2 |-> [do |-> "delete", name |-> "br"],
   serve  |-> [do |-> "host.add", name |-> "br", host |-> "h"],
   set    |-> [do |-> "socat.set", ns |-> "n1", src |-> "any", protos |-> <<"tcp", "udp">>,
               port |-> 1, dest |-> "d"],
   set2   |-> [do |-> "socat.set", ns |-> "n10", src |-> "hostbits", protos |-> <<"tcp">>,
               port |-> 2, dest |-> "d"],
   twice  |-> [do |-> "socat.set", ns |-> "n1", src |-> "any", protos |-> <<"tcp", "tcp">>,
               port |-> 1, dest |-> "e"],
   remove |-> [do |-> "socat.remove", ns |-> "n1", port |-> 1, dest |-> "d"],
   clear  |-> [do |-> "socat.removeall", ns |-> "n1"],
   keep   |-> [do |-> "socat.reserve", n |-> 1],
   keep2  |-> [do |-> "socat.reserve", n |-> 2],
   open   |-> [do |-> "nft.open", port |-> 22],
   open2  |-> [do |-> "nft.open", port |-> 22],
   drop   |-> [do |-> "nft.drop", port |-> 22],
   addr   |-> [do |-> "addr.add", name |-> "eth0", ip |-> "b"],
   noaddr |-> [do |-> "addr.del", name |-> "eth0", ip |-> "b"],
   nobr   |-> [do |-> "br.del", name |-> "br"],
   plain  |-> [do |-> "br.add", name |-> "br"],
   in     |-> [do |-> "br.addinf", name |-> "br", inf |-> "eth0"],
   out    |-> [do |-> "br.delinf", name |-> "br", inf |-> "eth0"],
   nic    |-> [do |-> "nic.add", name |-> "br", inf |-> "eth0"],
   nonic  |-> [do |-> "nic.remove", name |-> "eth0"],
   up     |-> [do |-> "link.up", name |-> "eth0"],
   down   |-> [do |-> "link.down", name |-> "eth0"],
   rename |-> [do |-> "link.name", name |-> "eth0", new |-> "br"],
   hide   |-> [do |-> "link.name", name |-> "eth0", new |-> "tun0"],
   hidden |-> [do |-> "addr.add", name |-> "tun0", ip |-> "a"],
   mtu    |-> [do |-> "link.mtu", name |-> "eth0", mtu |-> 9000],
   route  |-> [do |-> "route.add", name |-> "eth0", dst |-> "net", gw |-> "g"],
   route2 |-> [do |-> "route.add", name |-> "eth0", dst |-> "net", gw |-> "h"],
   noroute |-> [do |-> "route.del", name |-> "eth0", dst |-> "net", gw |-> ""],
   bond   |-> [do |-> "bond.add", name |-> "bond1", slaves |-> <<"eth0">>, mtu |-> 1500],
   bond2  |-> [do |-> "bond.add", name |-> "bond1", slaves |-> <<"eth0">>, mtu |-> 9000],
   bond0  |-> [do |-> "br.add", name |-> "bond0"],
   nobond |-> [do |-> "bond.del", name |-> "bond1"]]
Commands == DOMAIN Arguments
Together ==
  {{"make", "unmake"}, {"again", "unmake", "bare"}, {"bare", "unmake", "unmake2"}, {"again", "other"},
   {"make", "serve"}, {"again", "serve"}, {"bare", "nobr", "plain"},
   {"set", "clear", "keep", "keep2"}, {"set2", "remove", "keep2", "set"},
   {"twice", "clear", "set2", "set"}, {"open", "open2", "drop"},
   {"addr", "noaddr", "again"}, {"addr", "hide", "hidden"}, {"plain", "in", "out", "rename"}, {"plain", "nic", "nonic", "mtu"},
   {"up", "down", "route", "route2", "noroute"}, {"bond", "nobond", "bond2"},
   {"bond", "rename"}, {"bond", "bond0"}}
Nics == <<"eth0">>
BridgeNames == {"br", "br2"}
IPs == {"a", "b"}
NetworkOf == [i \in IPs |-> i]
Intersect == IPs \X IPs
Listening == {2}
Spaces == {"n1", "n10"}
Unnoticed == {"lo", "tun0"}
Begins == [n \in Spaces |-> IF n = "n1" THEN Spaces ELSE {"n10"}]
WithHostBits == {"hostbits"}
=============================================================================
