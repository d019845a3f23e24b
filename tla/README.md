# Formal model of the zone-segmentation network

TLA+ modules, TLC configurations and TLAPS proofs for the POX controller that
routes and firewalls traffic between the zones of the Mininet network in this
repository. Every definition is translated from the source; PROJECT.json maps
each one to the lines it stands for.

## 1. The system

Five leaf switches (s1 to s5) each serve one zone. The core switch s6 connects
them and the two outside hosts. No router exists: every zone's gateway address
belongs to the controller, which answers ARP for it, checks each packet that
crosses zones, and injects it at the core.

| Part | State | Operations | Talks to |
|---|---|---|---|
| **Zone policy** `firewall_rules.py`, `policy.json` | none after loading | `load_policy`, `zone_for_ip`, `source_ip_valid_for_zone`, `firewall_allowed` | called by the controller |
| **Port maps** `network.py`, `network.json`, `controller.py` 83-145 | none after loading | `load_network`, `port_maps`, `zone_of_port`, `is_leaf_uplink`, `core_port_for` | called by the controller and `topology.py` |
| **Connection tracking** `conntrack.py` | `_last_seen`: opening flow to timestamp | `check`, `track`, `is_reply`, `expire` | called by the controller for each packet that crosses zones, and by a 30 s timer |
| **Controller** `controller.py` | `connections`, `mac_table`, `ip_to_loc`, `pending` (with one retry timer per entry), `conns` | packet-in and connection-up handlers, the retry timer, the expiry timer | switches (OpenFlow), daemon (through the client), the parts above |
| **Firewall client** `firewall_client.py` | one socket, or none | `is_allowed`, `close` | the daemon; on `OSError` the controller falls back to the Python rules |
| **Firewall daemon** `cpp/firewall_daemon.cpp` | listening socket, a thread per client, the shutdown flag | accept loop, `HandleClient`, `Decide`, signal handler | the client, over a Unix socket |
| **Policy header generator** `tools/gen_policy_header.py` | none | `render` | the daemon's build |
| **Topology** `topology.py` | the emulated network | builds switches, links and hosts from the layout | Mininet |
| **Switches** (Open vSwitch) | flow tables with idle and hard timeouts | table lookup, packet-in, flow-mod, packet-out | the controller |

What is hard about it:

* **Orders of events.** POX runs handlers one at a time, so each is atomic, but
  an address resolution spans many: the packet that starts it, packets that
  join it, its timer, the answer, or traffic of the host being looked for.
* **One packet, many packet-ins.** Each switch on a path shows the controller
  the same frame, and the controller must decide by port where it really
  entered.
* **Time.** Connections expire by age, checked at lookup and swept by a timer.
  Switch rules hide a connection's packets from the controller meanwhile.
* **Delay between check and use.** A queued packet is sent seconds after it was
  checked; a rule outlives the packet it was made for.
* **Two firewalls.** The daemon classifies both ends by address, the fallback
  gets the source zone from the ingress port, and either may answer any packet.
* **Rules wider than a connection.** A rule has no echo identifier, and one made
  for a fragment has neither ports nor ICMP type.
* **A byte stream without a request number.** Client and daemon know which
  answer belongs to which request only by staying in step, across short reads,
  processes that die, signals, and a second daemon on the same path.
* **A controller that restarts.** Its memory is gone, the switches' rules are
  not until each one has connected again.
* **Two readers of one policy.** Python's `ipaddress` and the daemon's masks on
  generated tables must classify every address alike.

What makes each part correct:

* *Policy*: both backends give one verdict for a packet that passed the
  anti-spoofing check.
* *Connection tracking*: a blocked packet is admitted exactly when it answers a
  live connection opened in a permitted direction; dead entries are freed.
* *Learning*: an address is recorded only behind a port of its own zone, and
  behind the port its host is wired to.
* *Routing*: nothing crosses zones that the policy does not entitle to cross,
  and what crosses leaves towards its destination's zone; ARP stays in its zone.
* *Resolution*: it ends; each queued packet is sent on or answered with an
  error; one timer runs per resolution and none after it.
* *Client and daemon*: every call returns, with the policy's verdict for that
  very request, whatever dies; a daemon that came back is used again.
* *Loading*: whatever the files hold, what is accepted satisfies everything the
  rest of the system takes for granted.
* *Network*: no rule, channel, link or restart undoes what the controller
  decided.

PROJECT.json lists the hazards at their lines, with the properties that cover
them or the reason why none does.

## 2. Modules

| Module | Models |
|---|---|
| `ZonePolicy` | the zone table, `zone_for_ip`, the anti-spoofing check, both verdict functions, the rule number of an answer |
| `PortMaps` | the five maps of `port_maps()` and the functions that read them |
| `Bits` | the bits of an address and the `&` of two numbers |
| `PolicyTables` | `load_policy()`: every check of `policy.json`, and the tables it makes |
| `NetworkLayout` | `load_network()`: every check of `network.json`; `port_maps()` |
| `Startup` | the controller's start: policy, then layout, or refusal |
| `DaemonTables` | the generated C++ tables, the daemon's masks, classification and verdict over them |
| `ConnectionTable` | `ConnectionTable` as operators on its dictionary |
| `Conntrack` | that table as a state machine: `check()`, sweeps and time in any order |
| `ConnPromise` | abstract: what connection tracking promises, without a table |
| `FirewallIPC` | client, fallback, socket path and daemons with their threads, one action per system call that can block, fail or be overtaken |
| `VerdictService` | abstract: what a caller of the firewall is promised, without sockets |
| `ZoneRouter` | the controller: every handler and timer callback, composed with policy, maps and table |
| `ZoneNet` | the network: the controller composed with switches and their rules, channels that break, links and hosts, and the controller's restart |
| `ZonePolicyProofs`, `ConntrackProofs`, `ZoneRouterProofs`, `FirewallIPCProofs`, `DaemonTablesProofs`, `StartupProofs`, `ZoneNetProofs` | theorems about the module of that name (section 5) |
| `RoutingProofs` | the theorems about router hops, locations and connections in the network, on top of `ZoneNetProofs` |
| `MCConntrack`, `MCZoneRouter`, `MCZoneNet`, `MCFirewallIPC`, `MCStartup` | instances for TLC |

`ZoneNet` extends `ZoneRouter`, which extends `PortMaps` (and through it
`ZonePolicy`) and `ConnectionTable`. `Conntrack` extends `ConnectionTable` and
instantiates `ConnPromise`; `FirewallIPC` extends `ZonePolicy` and instantiates
`VerdictService`. `Startup` extends `NetworkLayout` and `DaemonTables`, both of
which extend `PolicyTables`, and instantiates `ZonePolicy` and `PortMaps` with
what was loaded for their constants. Each definition marked *Fault* is a wrong version of
the definition below it; nothing refers to it, and PROJECT.json says which
property fails when it takes that definition's place.

### How state corresponds to the code

* An address, a MAC and a zone are members of constant sets, and a subnet is
  the set of its addresses.
* `last_seen` maps a flow to its **age**, `clock() - timestamp`. Ages stop at
  `IDLE_TIMEOUT`, beyond which the code tells no difference. `Elapse` ages every
  entry by one: it is the passing of time, and no line of the code.
* A packet's `kind` is what `_tracked()` and POX's matches make of its transport
  header. `PartKinds` are TCP, UDP and ICMP packets whose header POX could not
  parse, later fragments for example: they are not tracked, and `from_packet()` leaves
  ports or type open for them, so the rule or drop rule made for one covers all
  of its protocol between the two hosts. In `ZoneNet` a switch therefore matches
  a frame with the rules for it and, failing that, with the rules for its
  protocol alone (`Headless`). "other" stands for one further IP protocol.
* `Multicast` are the Ethernet addresses of groups; `_handle_transit()` floods
  what is for one of them, while elsewhere such a destination is merely one that
  was never learned.
* `connections`, `mac_table`, `ip_to_loc` and `pending` are the attributes of
  the same name; a missing key is `None`. `timers[ip]` counts the retry timers
  that run for an address: the code keeps them in POX's scheduler, where a lost
  `cancel()` would leave one behind.
* `sent` holds the OpenFlow messages of the last step, so properties can speak
  of what was sent. The real order of messages is kept where it matters (the
  queue, the core's rule before the leaf's). A flow-mod that carries its packet
  (`msg.data`) appears as the rule and the packet it releases.
* In `ZoneNet`, `wire` holds the frames about to enter each switch port,
  `tables` each switch's rules with their ages, `to_controller` and `to_switch`
  the OpenFlow channels, and `delivered` what the last step handed to hosts.
  Ports and channels are first-in first-out; nothing orders one against
  another, so the leaf's rule may take effect before the core's or long after,
  and any rule may be the first to expire. A rule that is overdue may still
  match until it is removed, as Open vSwitch removes rules now and then. A
  switch whose controller has not answered yet drops what it has no rule for
  (Mininet's secure mode). Switches, links and hosts are not in this
  repository: they are modelled as the controller and `topology.py` use them.
  A rule that counts hops drops a packet on its last one, as Open vSwitch does.
  That Open vSwitch gives the later fragments of a packet ports of 0 when it looks
  for a rule is not modelled: a rule with ports or a type matches none of them,
  and a rule without covers every packet of the protocol, whole or not.
* A packet-in is `[dpid, port, frame]`. `PacketIns` is the set of those that may
  occur, and any may occur at any time once its switch has connected, any number
  of times: duplicates, reordering and hosts that say anything are included.
* The firewall's verdict is taken from either backend, freely for each packet:
  the daemon may die or return between any two. `VerdictService` is why that is
  enough: a call always returns one of the two.
* A channel between switch and controller may break (`ChannelBreaks`): what is
  on it is lost, and the controller, which has no handler for it, keeps the
  switch in `connections`. `ControllerRestarts` is a new process: all tables
  empty. In both cases switches go on forwarding by the rules they have; POX
  deletes them when the switch connects (`SwitchConnects`). `Faults` turns these
  on.
* In `FirewallIPC`, `up` and `down` are the two directions of a connection.
  A request is two pieces and an answer two bytes, so a read may end in the
  middle of either. `peer[k]` is the daemon at the other end: when it dies,
  what it wrote can still be read. `main[d]` follows `main()`: "bind" (the path
  is unlinked), "check" (the loop's condition), "accept", "close", "unlink".
  `shutdown[d]` is the flag, set by a signal at any moment: only one that
  finds the main thread blocked in `accept()` interrupts it. (Signals are taken
  by the main thread; that another thread takes one only adds to the cases in
  which `accept()` is not interrupted.) `IngressZone` is what the controller hands
  its fallback; requests are about packets that passed the anti-spoofing check
  (`RequestAssumption`), so it is the source address's zone. `path` is the daemon whose socket the
  path names, so a second daemon takes it over and a first one that stops
  removes it. A write to a client that is gone ends the daemon, as nothing
  handles SIGPIPE. A full backlog is not modelled.
* In `Startup`, an address is a number of `Width` bits and a subnet its first
  address and prefix length. A raw file is what JSON parsing yields: names map
  to records, rules are sets of names. Whether a file is refused is modelled,
  not which of its faults is reported. Values of a wrong JSON type are `None`;
  booleans in place of integers (which Python takes for integers) and IPv6
  are left out.
* The message that carries an ICMP error of the controller names the packet the
  error is about (`quotes`): the code puts its first bytes behind the ICMP
  header, where no rule can match them.

### What a switch is assumed to raise

`TransitAssumption`: what comes down a leaf's uplink and crosses zones was
entitled to cross. This is the controller's own reasoning for not checking such
packets again (`controller.py` 14-19). The theorems about `sent` show the
controller's half of it: what it puts on the core's ports is entitled to be
there. `ZoneNet` has no `PacketIns` to assume anything of: packet-ins come from
its switches, and `TransitIsJustified` states there, as an invariant, what
`ZoneRouter` assumes. `TransitHolds` proves it.

`PolicyAssumption` and `PortMapsAssumption`, the assumptions the other modules
make of their constants, are invariants of `Startup`: `PolicyIsSound` and
`LayoutIsSound` say that whatever `load_policy()` and `load_network()` accept
satisfies them.

## 3. Runs

| Run | Module, configuration | Shows | Distinct states |
|---|---|---|---|
| `conntrack` | `MCConntrack`, `MCConntrack.cfg` | the table implements its promise; dead entries are freed | 1 776 |
| `resolve` | `MCZoneRouter`, `MCResolve.cfg` | timers match resolutions, queued packets are answered in order, every resolution ends | 27 720 |
| `firewall` | `MCZoneRouter`, `MCFirewall.cfg` | segmentation, routing, learning and reply rules under permitted, blocked, spoofed and reply traffic and its parts | 107 784 |
| `same_zone` | `MCZoneRouter`, `MCSameZone.cfg` | ARP stays in its zone; frames seen on transit do not move a host | 6 561 |
| `unreachable` | `MCZoneRouter`, `MCUnreachable.cfg` | the first divergence of section 6 | - |
| `network` | `MCZoneNet`, `MCNetPing.cfg` | transit is entitled, hosts are segmented, one hop, hosts are located where they are wired to, answers get through, rules follow connections, received traffic has one | 366 395 |
| `two_pings` | `MCZoneNet`, `MCNetTwoPings.cfg` | the second divergence of section 6 | - |
| `restart` | `MCZoneNet`, `MCNetRestart.cfg` | segmentation, one hop and rules that follow connections while channels break and the controller restarts, with a fragment's rule for all ICMP | 528 678 |
| `ipc` | `MCFirewallIPC`, `MCFirewallIPC.cfg` | client and daemons stay in step, implement the verdict service, every call returns, failures do not last | 459 971 |
| `client_gone` | `MCFirewallIPC`, `MCClientGone.cfg` | the third divergence of section 6 | - |
| `daemon_stop` | `MCFirewallIPC`, `MCDaemonStop.cfg` | the fourth divergence of section 6 | - |
| `startup` | `MCStartup`, `MCStartup.cfg` | what is accepted is sound, hosts belong where they are, the daemon agrees with Python | 43 950 |

**Instance of `MCZoneRouter`.** Three zones on four switches with the port numbers of
`network.json`: Dept B behind s3 and s4, the data center behind s5, Trust on the
core s6. That is the smallest layout with two leaves of one zone, a zone on the
core itself, a pair of zones closed both ways (rules 3 and 7) and a pair closed
to ICMP one way (rule 4). Each run gives its own switches and packet-ins,
listed in `MCZoneRouter` with what they are for.

**Instance of `MCZoneNet`.** One Dept B host behind leaf s3 and the Trust host
on the core: a pair of zones whose ICMP rule differs by direction, one
ingress at a leaf and one at the core. Each host may at any time send its ping
(one is permitted, the other blocked) and Trust may ask for its gateway; hosts
answer ARP and pings. `MCNetTwoPings` replaces them by two pings of different
identifiers from the same host. `MCNetRestart` has a later fragment of the blocked
ping, which leads to a drop rule for all ICMP in its direction, and leaves the ARP
request out: the Trust host is then found by probing. (A fragment of the permitted
ping, whose rule forwards all ICMP, was explored too, but takes millions of states.
It is left to the theorems and, in the controller, to the run `firewall`.) Packets that
hosts send here have a TTL of 64: with TTL 1 among them the states are four times as
many. The theorems allow both (`NetAssumption`), and packets with a TTL of 1
are in the run `resolve`.

**Instance of `MCFirewallIPC`.** One client, two daemons on one path, two
connections (one that is stale and one that replaces it), two requests whose
answers differ in both bytes. `MCClientGone` and `MCDaemonStop` have no kills,
so that nothing else can be to blame.

**Instance of `MCStartup`.** Addresses of four bits. In one family of files two
zones take networks, prefix lengths, gateways and MAC spellings of many kinds,
well formed or not, with rules that name known, unknown or no zones, above a core
alone; prefix lengths 0 and full width, where the daemon's shifts are special,
occur. In the other a sound policy meets layouts with up to two leaves, uplinks
that are missing, doubled or collide, and up to two hosts at every kind of
address and port.

**Bounds.** In `MCZoneRouter` and `MCConntrack`, `IDLE_TIMEOUT` is 2 or 3 ages: live, about to expire, expired; the
code only compares an age with the limit. `ARP_MAX_RETRIES` is the code's 3.
`MaxQueue` (packets waiting for one address) is 2 where queues are the subject,
so that one packet can join another and their order shows, and 1 elsewhere; the
code has no limit. Sweeps, ageing, retries and packets are otherwise unbounded.
In `MCZoneNet`, time moves in steps of `TICK` = 30 s, the greatest step that
tells a routed rule's idle timeout (30 s) from its hard timeout (60 s) and both
from `IDLE_TIMEOUT` (4 steps, the code's 120 s); the two timeouts of a drop rule
(10 and 30 s) coincide. In `restart`, `TICK` is 60 s and `IDLE_TIMEOUT` 2 steps: there
faults come between any two steps of a packet, and idle and hard timeout of a
routed rule coincide too, while each still ends before the connection. Time passes only while nothing is on its way and no address is being
resolved (`Quiet`, and no address in `pending`): those take milliseconds and at most three seconds. A host sends while
fewer than `MaxFlight` = 2 frames and messages are on their way, so one packet
can overtake the effects of another. In `restart` it is 1: a host sends once nothing
is on its way, and what faults do is explored at every point of a packet's
path instead. There, too, one packet meets the effects of others: rules that outlived the
controller or were lost with a channel, packets that wait for an address. That one
packet overtakes another while something fails is left to the proofs (`NetSafety`,
`HopsHold`, `FollowingHolds`), which hold for every `MaxFlight`. `ARP_MAX_RETRIES` is 1, as resolution is
the subject of `resolve`.

`Conns` bounds the connections that exist at a time, not how many there ever
are. Calls, starts, signals and kills are unbounded.

**Fairness.** `WF(retry_arp(ip))` and, in `Conntrack`, `WF(Expire)`: both are
recurring POX timers, which fire for as long as they run. Nothing is assumed
of packets, of answers, or of time passing. In `FirewallIPC`, threads that can
run do: `WF` of the steps of a call that was made, of each daemon's main thread
and of each connection's thread. Nobody has to call, to start a daemon, to
signal or to kill one. `CHECK_DEADLOCK` stays on but for `startup`, where the
model ends when the controller runs or the files were refused.

Each property of a passing run has a *Fault* that breaks it.

## 4. Properties

* **`ImplementsPromise`** relates the dictionary, with expiry at lookup and
  sweeps at any time, to a system that only knows how long each connection has
  been quiet. It fails if a sweep drops a live entry, a dead entry answers, a
  blocked packet plants or refreshes an entry, or a reply fails to refresh one.
* **`DeadEntriesAreFreed`**: the sweep gets every dead entry.
* **`Segmentation`**: no message, immediate or delayed, packet or rule, makes a
  switch pass traffic between zones that the policy neither permits nor would
  permit its addressee to start. With **`TrackedArePermitted`** and
  **`ReplyRulesFollowConnections`** (a rule against the policy's direction is
  made only for the reverse of a connection that this very packet refreshed),
  it ties verdicts, table and rules together.
* **`LocationsMatchZones`**, **`LocationsPointHome`**, **`LocatedAtHome`**: where
  hosts are recorded. The second one compares with `EntryPorts`, the core ports
  where the frames of an address enter the network: what other switches show of
  a frame on its way must not move its sender. (`HomesChecked` says that in the
  run `same_zone` these are the ports of `network.json`, one for each host.) The
  third speaks of the links of `ZoneNet`, where the frames come from hosts.
* **`RoutedTowardsZone`**, **`ArpStaysInZone`**: where frames leave the core.
* **`TransitIsJustified`**, **`HostsAreSegmented`**, **`OneHop`** (`ZoneNet`):
  what rules, controller and links do together. They fail if a match is a field
  too wide, if leaf and core both take the hop, or if a packet that meets one
  of two rules is judged differently by the controller.
* **`RulesFollowConnections`** (`ZoneNet`): the controller remembers a
  connection for as long as rules carry it out of its sight. It fails, for
  instance, if routed rules may live as long as `IDLE_TIMEOUT`. It speaks of the
  traffic that needs a connection to cross (`NeedsConnection`): all that tracking
  knows, except an echo reply that the policy permits by itself, which
  `check()` lets through whether or not anyone asked for it, and packets without
  their header, which no connection is recorded of.
  A packet belongs to a connection (`BelongsTo`) by its ends and its direction: an
  echo request only to one it opens, an echo reply only to one it answers.
* **`TrafficHasConnection`** (`ZoneNet`): what a host is handed from another zone,
  by a rule or by the controller, at once or after a wait, belongs to a connection
  that is live at that moment. It relates what leaves the last switch to the table
  in another process that has not seen it. After a restart it is false, and
  nothing claims it: the rules of the time before go on until their switch connects.
  Where hosts send packets without their header it is false too (section 6), so the
  theorem has `WholeHeaders` for a hypothesis.
* **`AnswersGetThrough`** (`ZoneNet`): the controller makes a drop rule that covers
  echo replies, be it one for all ICMP, only if a host sends replies nobody asked
  for; an answer to a permitted ping is never refused. It holds while a host pings
  another once at a time (`OnePingEach`) and sends whole packets (`WholeHeaders`),
  and not for two pings or for fragments of one (section 6).
* **`QueuesAreJustified`**, **`QueuedPacketsAreAnswered`**,
  **`OneTimerPerResolution`**, **`ResolutionsEnd`**: address resolution.
  `QueuedPacketsAreAnswered` speaks of the time the core is connected; without
  it `_forward_ip()` drops packets silently (`controller.py` 433-435).
* **`ImplementsService`** relates a byte stream cut anywhere, a cached socket, a
  fallback and processes that die at any point to a caller that gets the
  policy's verdict for what it asked. **`InStep`** says why: a connection kept
  for the next call holds nothing of the last one. Both fail if a socket that
  failed is kept, or if part of an answer is taken for the whole.
* **`CallsReturn`**, **`Reconnects`**: no call waits for ever, though `recv()`
  has no timeout, and one stale socket costs one fallback.
* **`PolicyIsSound`**, **`LayoutIsSound`**, **`HostsBelong`**: the checks on the
  files, taken together, leave out no case the controller relies on.
  **`DaemonAgrees`**: on every accepted policy the generated tables and masks
  classify every address, and decide every pair, as Python does.

## 5. Proofs

Checked by TLAPS for every policy, topology, packet set, bound and timeout that
meets the named assumptions:

* `ConntrackProofs`: `Refinement` (`Spec => ImplementsPromise`), from `TypeCorrect`.
  The refinement mapping gives an absent flow the age `IDLE_TIMEOUT`; a sweep
  then maps to a stutter, `Elapse` to `TimePasses`, and `Check` to `Allowed`,
  `Answered` or `Refused` by its three outcomes.
* `ZonePolicyProofs`: what the policy functions return for a valid source, a
  gateway, an address of no zone, and `DaemonDecides`, the two verdict functions
  agree. `ZoneRouterProofs` and `FirewallIPCProofs` build on it.
* `ZoneRouterProofs`: `Safety` proves the inductive invariant `SafetyInv`, and
  one theorem for each of its parts follows. `LocationsAtEntry` proves
  `LocationsPointHome`, and `AnswersHold` that `Spec => QueuedPacketsAreAnswered`.
* `ZoneNetProofs`: `NetSafety` proves the inductive invariant `NetInv` of the
  whole network, faults included; `TransitHolds` and `HostsSegmented` follow.
* `RoutingProofs`: `HopsHold` proves the inductive invariant `HopInv`, from which
  `RoutedOnceHolds`, `OneRouterHop` and `HostsLocated` follow; `FollowingHolds`
  proves `FollowInv`, from which `ConnectionsOutliveRules`, `TrafficConnected` and
  `AnswersPass` (`AnswersGetThrough`) follow.
* `FirewallIPCProofs`: `InvHolds`, an inductive invariant; `InStepHolds` and
  `Refinement` (`Spec => ImplementsService`) follow from it.
* `StartupProofs`: `PolicySound`, `LayoutSound`, `HostsSound`. They discharge
  `PolicyAssumption` and `PortMapsAssumption`, which every other theorem about
  the controller takes as given: for any files, what was loaded satisfies them.
  `DaemonAgreement` proves `DaemonAgrees`, for every `Width`, the code's 32 included.
* `DaemonTablesProofs`: `MaskFindsSubnet`, on which `DaemonAgreement` rests: the
  daemon's masks and Python's subnets contain the same addresses.

**The controller.** `Segmentation` is not inductive: a queued packet is sent
later, so the queues must hold entitled packets only (`QueuesAreJustified`);
whether a reply is entitled depends on the table (`TrackedArePermitted`); where
a packet leaves depends on learned locations (`LocationsMatchZones`), and the
type invariant carries the rest, with `OneTimerPerResolution` for the timers.
`SafeSent` gathers what is required of each message sent, `BackedBy` among it:
that a rule against the policy's direction has a connection of age 0 behind it
(`ReplyRulesHold`). The lemmas before
`Safety` follow the code: one for each way of sending (flooding, layer-2
forwarding, errors, routing, rules, probes), one for tracking (`TrackingSafe`),
one for the queue, and one for each handler. `BackendsAgree` says that both
firewalls give one verdict once the source address was checked against the
ingress zone; it is what lets the rest of the proof ignore which backend
answered. Ports are assumed to be finitely many.

**Waiting packets.** A message for a switch that never connected is not sent, so
what could lose a waiting packet is the switch it came from: the invariant adds
that this one has connected (`QueuedAreReachable`). `ErrorAnswers` and
`ForwardAnswers` say that either message is the packet's answer, and
`PacketInCases` what a packet-in can do with a queue at all.

**The network.** `NetInv` is the controller's `SafetyInv` with four facts around
it: what waits to enter a leaf from its uplink, as a frame (`WiresInv`) or as a
packet-in (`RaisedInv`), may cross if it does; a rule in a switch that sends on
traffic that crosses does so only for traffic that may (`TablesLawful`); and so
do the messages on their way to one (`OrdersInv`). A rule forwards what it
matches. A match keeps the addresses of a packet, and its kind or at least its
protocol; what the policy lets a part of a packet do it lets all of its protocol do,
as only ICMP is told apart. So a rule, also one made for a fragment, forwards
entitled traffic only (`MatchCovers`, `ForwardsEntitled`). The
lemma `PacketInSafe` asks of a packet-in just what `RaisedInv` says of it; thus
the assumption the controller makes of uplinks is discharged by induction over
both together. Restarts and broken channels keep it because it is said of every
rule and message by itself, without the tables of the controller that made it.

**One router hop.** Neither `OneHop` nor `LocatedAtHome` is inductive: what a host
is handed depends on the rule or message that emitted it, a rule on the location
it was made from, a location on a frame that came in somewhere else. `HopInv`
tells by the place where a frame is whether its hop is still to come: what goes
up an uplink, or enters from a host, is as that host sent it (`FromHost`); what
comes down an uplink, or is handed to a host, is routed if it crosses zones
(`Routed`: one hop less, from the destination's gateway, to a known MAC). Only the
core's rules may count hops (`RuleHops`); any other rule for traffic that crosses
takes it up to the core or down from it, never straight from one zone's port to
another's. `MessageHops` says the same of messages, `QueueHops` of
waiting packets, `LocationHops` of what the controller remembers. That each step
keeps it is shown through every fault. The part about hops
(`RoutedOnceHolds`) needs nothing of hosts. That the frame is the addressee's and
that locations are right cannot hold of hosts that claim another's address inside
their own zone, which the controller does not prevent; `OneRouterHop` and
`HostsLocated` therefore assume `HonestHosts` as a hypothesis of their own, which
TLC evaluates for the hosts of every run (`HonestyChecked`).

**Rules and connections.** `RulesFollowConnections` speaks of rules, whose cause
is a packet the controller saw earlier. `RulesInv` goes back along it: an order
on its way to a switch is for a connection that was refreshed in this very moment
(age 0: time does not pass while anything is on its way), and an installed rule
is no younger than the last packet of its connection, since the rule ages with
it. A rule is removed once its hard timeout of 60 s is over, before time passes
again, and time steps by at most a minute; so its connection has an age below
120 s and is alive. This is where two constants of the code meet, stated as
`TimeAssumption`: `IDLE_TIMEOUT` steps of `TICK` seconds are the 120 s of
`conntrack.py`. `LessFactor` and `FollowedAlive` do the arithmetic.

`CarryInv` adds what is on its way: once let through, a frame's
connection is alive on every uplink, in every packet-in from one, message, queue
and delivery. It holds while nothing fails, as after a restart old rules go on
forwarding for connections nobody remembers, and while hosts send whole packets, as
the rule for a fragment forwards what no connection is recorded for. `Steady` is both,
and `Whole` says of each frame, and of what each rule was made for, that it has its
header. `TrafficConnected` has `~Faults` and `WholeHeaders` as its hypotheses, while
`ConnectionsOutliveRules` holds through all faults and for all hosts, because it
speaks of switches that are connected, whose rules were cleared when they connected,
and of rules made for packets that have a connection.

**Answers to pings.** The controller refuses an echo reply when the policy blocks
its direction and no connection is recorded that it answers. `AnswersGetThrough`
says that this does not happen to answers, though the controller may not have seen
the request: a rule may have carried it. `Genuine` is what the invariant says of
frames wherever they are: an echo request is one that some host sent, and an echo
reply against the policy is either of the kind a host sends unasked, or answers a
connection that is alive. `PingsTracked` says the same of the table: a connection
of pings is one that a host's request opens. The step that matters is a host's
answer to a request that was delivered to it. By `Connected`, that request belongs
to a connection that is alive, but rules do not tell identifiers apart, so it
could be the connection of another ping between the two; `OnePingEach` excludes
just that, and is where the proof fails for the second divergence of section 6
(`AnswersGenuine`). A reply stays known because time does not pass while it is on
its way (`AliveStays`), and a request is recorded before it is let through
(`TrackingRemembers`). The hypotheses of `AnswersPass` are `~Faults`, as a
controller that forgot its connections refuses their replies, `OnePingEach` and
`WholeHeaders`; TLC evaluates the last two for each run (`PingsChecked`: all but
`two_pings`; `PartsChecked`: all but `restart`).

**Client and daemon.** `Inv` has four parts: types; no two clients share a
connection (`Unshared`); an end that closed holds nothing (`ClosedEnds`); and
`ClientsInv`, which lists, for a client that waits, the places where the pieces
of its request and answer can be: being read, being written, written, or cut
short because the daemon died. A client that does not wait has nothing of the
last call anywhere. That is stronger than `InStep` in what it says of the
daemon's thread, which decides what each piece becomes next. The refinement maps
`Call` to `Ask`, the last byte or the fallback to `Answer` (by
`ResponseIsVerdict` the byte is the Python verdict), `close` to `Leave`, and all
else to a stutter.

**Start-up.** `Accepted` is the invariant: what is loaded came from files that
passed the checks. The rest is about the checks themselves: `LoadedPolicy`, the
maps of `port_maps()` are functions because dpids and ports are unique
(`MapsOfLayout`, `CorePortsOfLayout`), and a host's port has its zone and no
other (`LoadedHostBelongs`).

**Bits and masks.** The daemon finds an address's zone by `(ip & mask) == network`
over a generated array, Python by membership in a subnet; their agreement is about
every number of `Width` bits. `And` is the number that has the bits both have, and
a mask's bits are those from `Width - prefix` up (`MaskBits`), so an address under
a mask is the address without its lower bits, a number that exists (`UpperBits`).
That two numbers have the same upper bits exactly when their quotients by that
power of two are equal is an induction over the number of bits. The library's
induction theorems take an operator, so these inductions go through the least
number that would be a counterexample (`WFMin` and `NatLessThanWellFounded`), and
the recursive function for powers of two is used through its defining equation
only. A network that passed the check of `load_policy()` is a multiple of its
size, so equal quotients mean membership: `MaskFindsSubnet`. The rest of
`DaemonAgreement` is that the generated array lists every zone once (`ListedSet`),
that the first row that matches is the only one, since accepted subnets are
disjoint (`RowsFindZone`), and that the rule array lists the rules' pairs
(`PairsListed`). The code's dictionaries are finite, which `FilesAssumption`
states.

Every safety and action property of the passing runs is stated by a theorem. Only
model-checked are the liveness properties, `ResolutionsEnd`,
`DeadEntriesAreFreed`, `CallsReturn` and `Reconnects`: fairness and `ENABLED` are
beyond the prover. The four runs that expect a violation check what the
documentation says and the code does not do; of these `AnswersGetThrough` is also
proved, under a hypothesis that `two_pings` does not meet.

## 6. Where code and documentation differ

`UnreachableMeansUnknown` (run `unreachable`): the controller's docstring says
that a host is located the moment it ARPs for its gateway and that queueing and
giving up are for hosts that have not transmitted. In the code only an ARP
*reply* to a gateway releases queued packets. If the host is located by any
other traffic while packets wait for it, they keep waiting; should the probes
themselves go unanswered, `_retry_arp()` reports the located host unreachable.
Packets that arrive after the location is known are routed at once, ahead of
the queued ones.

`AnswersGetThrough` (run `two_pings`): the connection table tells pings apart by
identifier, switch rules cannot. While a first ping's rules are installed, a
second ping between the same hosts rides the request rule, so the controller
never sees its request and never records it. If its reply then reaches the
controller (its rule is not installed yet, or has expired), it belongs to no
recorded connection: it is dropped, and the drop rule, blind to identifiers as
well, silences both pings until it expires. `docs/design.md` lists extra echo
replies that pass as the only effect of the missing identifier.

`ServesUntilTold` (run `client_gone`): the comment on the daemon's accept loop
says each connection cleans itself up on disconnect. A client that goes away
between its request and the answer makes `write()` raise SIGPIPE, which nothing
handles or blocks: the whole daemon ends, with every other client's connection.
The controllers then use the Python rules, so verdicts stay right
(`ImplementsService` holds with it).

`SignalEndsDaemon` (run `daemon_stop`): the comment on `sigaction()` says that
without SA_RESTART `accept()` returns EINTR and the loop exits. A signal that
arrives between the check of the flag and `accept()` sets the flag and
interrupts nothing; the daemon then waits in `accept()` until a client connects.

One more divergence has no run of its own. The docstring of `_install_route_flows()`
says that rules match "the exact connection the first packet belongs to (... TCP/UDP
ports or ICMP type)", and `docs/design.md` that "TCP and UDP rules match ports exactly,
so this affects only echo replies". For a packet whose TCP, UDP or ICMP header POX could not parse,
such as a later fragment, the match has the protocol alone. Its rule then carries
every connection of that protocol between the two hosts in that direction, unseen
by `check()`: those connections are never recorded, and their replies are refused. Its drop
rule, where the direction is blocked, refuses all replies in it, those of recorded
connections included. Segmentation is not touched (`HostsSegmented` is proved with
such packets, and `restart` runs with one): the policy decides by zones and by ICMP or
not, so what rides such a rule is allowed by itself. The theorems about recorded
connections and answers name `WholeHeaders` as their hypothesis for this reason.

## 7. Not modelled, and the plan

Not modelled, and why:

* JSON syntax, wrong JSON types beyond "not there", error texts, logging, the
  text of the generated header and packing of frames: no property is about them.
* `main()` of the generator, `bench_firewall.py`, tests, containers and CI: they
  read arguments, write files, measure time or drive the program from outside.
* Starting and stopping the emulation in `topology.py`: calls of Mininet, one
  after the other. What it builds is `Linked` and `Hosts` of `ZoneNet`.
* POX's libraries and Open vSwitch, beyond what the controller uses of them
  (marked external in the map). Lost or reordered frames on links are left out:
  the emulated links neither lose nor reorder, and nothing in the code handles it.

Six hazards have no property. The queue of an address being resolved has no
limit (`controller.py` 453): the models bound it, so they cannot tell. The drop
rule for an unsolicited echo reply (379) is part of the second divergence, and that
for a fragment (383) of the last one: the harm is real, and properties name
what excludes it. With no core connected (433) the code answers nobody, and
`QueuedPacketsAreAnswered` exempts that case. A daemon that stops and unlinks its successor's socket
(`firewall_daemon.cpp` 238) leaves the callers with the fallback for good, which
every property of the service allows. The daemon keeps the policy it was built with
(107): to rebuild it is left to the operator, and the models take one policy for
both. One hazard is covered by half: `TypeOK` of `ZoneRouter` catches one probe too
many (459), and nothing one too few.

`AnswersGetThrough` is not claimed of `restart`: a controller that forgot its
connections refuses their replies, and nothing in the repository says otherwise; and
its hosts send a fragment.

The plan: *(done)* connection tracking and its promise; the controller with its
safety, resolution and proofs; the network with faults; client and daemon with
their service and proofs; loading, and proofs of its soundness; segmentation of
the network proved from that of the controller; router hops, locations,
connections behind rules and traffic, and answers to pings proved for the whole
network; the daemon's tables proved to agree with Python's for 32 bits. *Open*:
TCP, a second leaf, a permitted fragment and packets of TTL 1 in the instance of
`ZoneNet` (the theorems cover all four), hosts that send unsolicited replies, the end of a permitted ping (liveness).
