------------------------------ MODULE Listings ------------------------------
(* The two tables of the network panel that merge what a tool prints: the     *)
(* listening sockets of ss, sorted and then stripped of neighbours that are   *)
(* the same, and the access points of nmcli, merged by network name.          *)
EXTENDS Naturals, SequencesExt

CONSTANTS
  Ports,      \* numbers
  Processes,  \* names; one of them may stand for a process we cannot see
  Ssids,      \* network names; a hidden network has no row
  MaxSignal,  \* bound: signal strength
  MaxPrinted    \* bound: lines of a tool's output

ASSUME ListingAssumption == Ports \subseteq Nat /\ MaxSignal \in Nat /\ MaxPrinted \in Nat

VARIABLE panel  \* the table on the page: what the tool printed, and the rows

listVars == <<panel>>

Protos == {"tcp", "udp"}
Securities == {"open", "wpa"}
Socket == [proto : Protos, port : Ports, process : Processes, exposed : BOOLEAN]
WifiNet == [ssid : Ssids, signal : 0 .. MaxSignal, security : Securities, active : BOOLEAN]
EmptyPanel == [of |-> "none", lines |-> <<>>, rows |-> <<>>]

ListInit == panel = EmptyPanel

-----------------------------------------------------------------------------
Pairs(s) == (DOMAIN s) \X (DOMAIN s)

(* A stable sort by a relation between places: elements that are equal to it  *)
(* stay in the order they came in.                                            *)
SortBy(s, before) ==
  LET Order(i, j) == <<i, j>> \in before \/ (<<j, i>> \notin before /\ i < j)
      order == CHOOSE p \in SetToSeqs(DOMAIN s) :
                 \A k, l \in DOMAIN s : k < l => Order(p[k], p[l])
  IN  [k \in DOMAIN s |-> s[order[k]]]

(* Exposed to the network first, then by port, then by protocol.              *)
PortBefore(a, b) ==
  \/ a.exposed /\ ~b.exposed
  \/ a.exposed = b.exposed /\ a.port < b.port
  \/ a.exposed = b.exposed /\ a.port = b.port /\ a.proto = "tcp" /\ b.proto = "udp"

PortOrder(s) == {p \in Pairs(s) : PortBefore(s[p[1]], s[p[2]])}

SameService(a, b) == a.port = b.port /\ a.proto = b.proto /\ a.process = b.process

(* dedup_by: a row goes when it is the same as the one kept before it.        *)
Dedup(rows) ==
  FoldLeft(LAMBDA kept, r : IF kept # <<>> /\ SameService(Last(kept), r) THEN kept
                            ELSE Append(kept, r), <<>>, rows)

(* Mutant: the duplicates go before the rows are sorted.                      *)
net_ports_dedup_first(sockets) == SortBy(Dedup(sockets), PortOrder(Dedup(sockets)))

net_ports(sockets) == Dedup(SortBy(sockets, PortOrder(sockets)))

(* The strongest access point of a name gives the signal and the security; a  *)
(* later one has to be stronger. The name is active when one of them is.      *)
Merge(best, line) ==
  LET e == IF line.ssid \in DOMAIN best THEN best[line.ssid] ELSE line
      s == IF line.signal > e.signal THEN line ELSE e
  IN  [n \in DOMAIN best \cup {line.ssid} |->
         IF n = line.ssid THEN [s EXCEPT !.active = e.active \/ line.active] ELSE best[n]]

WifiBefore(a, b) ==
  (a.active /\ ~b.active) \/ (a.active = b.active /\ a.signal > b.signal)

WifiOrder(s) == {p \in Pairs(s) : WifiBefore(s[p[1]], s[p[2]])}

(* The values of the map come in any order.                                   *)
net_wifi_scan(lines) ==
  LET best == FoldLeft(Merge, <<>>, lines)
      values == {[k \in DOMAIN s |-> best[s[k]]] : s \in SetToSeqs(DOMAIN best)}
  IN  {SortBy(v, WifiOrder(v)) : v \in values}

-----------------------------------------------------------------------------
Printed(Line) == UNION {[1 .. n -> Line] : n \in 0 .. MaxPrinted}

ShowPorts ==
  /\ panel = EmptyPanel
  /\ \E sockets \in Printed(Socket) :
       panel' = [of |-> "ports", lines |-> sockets, rows |-> net_ports(sockets)]

ShowWifi ==
  /\ panel = EmptyPanel
  /\ \E lines \in Printed(WifiNet) : \E rows \in net_wifi_scan(lines) :
       panel' = [of |-> "wifi", lines |-> lines, rows |-> rows]

Leave == panel # EmptyPanel /\ panel' = EmptyPanel

ListNext == ShowPorts \/ ShowWifi \/ Leave

ListSpec == ListInit /\ [][ListNext]_listVars

-----------------------------------------------------------------------------
(* What a reader of each table wants to know, told from the lines alone. A    *)
(* service that listens is in the table, and its first row says whether the   *)
(* network can reach it, whichever of its sockets came first; what the        *)
(* network reaches is on top, then the rows go by port, and no service is     *)
(* twice in a row (net.rs:149-151, 168-173). A name on the air has one row    *)
(* with its best signal, and is active when an access point of it is; the     *)
(* active ones are on top, and among the rest no stronger one comes later     *)
(* (net.rs:264-297).                                                          *)
PortsMatch ==
  /\ \A s \in ToSet(panel.lines) : \E k \in DOMAIN panel.rows :
       /\ SameService(panel.rows[k], s)
       /\ \A h \in DOMAIN panel.rows : h < k => ~SameService(panel.rows[h], s)
       /\ panel.rows[k].exposed = \E l \in ToSet(panel.lines) : SameService(l, s) /\ l.exposed
  /\ ToSet(panel.rows) \subseteq ToSet(panel.lines)
  /\ \A i, j \in DOMAIN panel.rows : i < j =>
       /\ panel.rows[i].exposed \/ ~panel.rows[j].exposed
       /\ panel.rows[i].exposed = panel.rows[j].exposed => panel.rows[i].port <= panel.rows[j].port
       /\ j = i + 1 => ~SameService(panel.rows[i], panel.rows[j])

WifiMatches ==
  LET Of(n) == {l \in ToSet(panel.lines) : l.ssid = n}
      names == {l.ssid : l \in ToSet(panel.lines)}
  IN  /\ Len(panel.rows) = Cardinality(names)
      /\ \A r \in ToSet(panel.rows) :
           /\ \E l \in Of(r.ssid) : l.signal = r.signal /\ l.security = r.security
           /\ \A l \in Of(r.ssid) : l.signal <= r.signal
           /\ r.active = \E l \in Of(r.ssid) : l.active
      /\ {r.ssid : r \in ToSet(panel.rows)} = names
      /\ \A i, j \in DOMAIN panel.rows : i < j =>
           /\ panel.rows[i].active \/ ~panel.rows[j].active
           /\ panel.rows[i].active = panel.rows[j].active
                => panel.rows[i].signal >= panel.rows[j].signal

ListingsMatch == (panel.of = "ports" => PortsMatch) /\ (panel.of = "wifi" => WifiMatches)
=============================================================================
