----------------------------- MODULE NodeLinks -----------------------------
(***************************************************************************)
(* Share links of manual nodes: rendering one from the active parameters   *)
(* of a node (assembly/links, node.ProjectActive, ssplugin) and reading it *)
(* back where it is imported (uriparse, node.ImportURIs).                  *)
(*                                                                         *)
(* A node travels: it is exported for Shadowrocket or as a generic link    *)
(* and imported again, several times over.  A parameter is Absent, On or   *)
(* Off when it is a switch, and otherwise a number that tells what the     *)
(* conversions can do to it: Plain text, Special text (characters a URL    *)
(* escapes; every escape that is not undone adds one), a list of one item, *)
(* of two, or of two run together, the number 0, or an IPv4 address that   *)
(* carries its mask.  The transport, plugin and REALITY objects are        *)
(* flattened into one parameter per path; a protocol has the parameters    *)
(* its links or its declared link mapping mention (but VMess no REALITY,   *)
(* which cannot be stored: node/project.go:363-366).                       *)
(***************************************************************************)
EXTENDS Integers, FiniteSets, TLC

CONSTANT MaxTrips   \* bound: imports of one node

ASSUME LinksAssumption == MaxTrips \in Nat \ {0}

VARIABLES node,   \* the stored node, Refused when an import rejects the link
          link,   \* the last link rendered from it, NoLink when there is none
          trips,  \* imports so far
          via     \* the target the last imported link was written for

linksVars == <<node, link, trips, via>>

Absent == 0
Plain == 1
Special == 2
On == -1
Off == -2
OneItem == -3
TwoItems == -4
Joined == -5
Zero == -6
Masked == -7
LinkTargets == {"sr-subs", "generic-subs"}
Refused == [protocol |-> "refused"]
NoLink == [target |-> "none"]

(* The transport parameters of a network. *)
Opts == [ws    |-> [path |-> "ws-path", host |-> "ws-host"],
         grpc  |-> [path |-> "grpc-service-name"],
         h2    |-> [path |-> "h2-path", host |-> "h2-host"],
         http  |-> [path |-> "http-path", host |-> "http-host"],
         xhttp |-> [path |-> "xhttp-path", host |-> "xhttp-host", mode |-> "xhttp-mode"]]
Parts(network) == IF network \in DOMAIN Opts THEN Opts[network] ELSE <<>>
OptsOf(network) == {Parts(network)[part] : part \in DOMAIN Parts(network)}
Transports(networks) == UNION {OptsOf(w) : w \in networks}

VlessNetworks == {"tcp", "ws", "grpc", "h2", "http", "xhttp", "httpupgrade"}
VmessNetworks == VlessNetworks \ {"xhttp"}
TrojanNetworks == {"tcp", "ws", "grpc"}
PluginOpts == [none |-> {}, obfs |-> {"opt-mode", "opt-host"},
               v2ray |-> {"opt-mode", "opt-host", "opt-path", "opt-tls", "opt-mux"},
               shadowtls |-> {"opt-host", "opt-password", "opt-version", "opt-alpn"},
               restls |-> {"opt-host", "opt-password", "opt-skip"}, custom |-> {"opt-key"}]
AllPluginOpts == UNION {PluginOpts[g] : g \in DOMAIN PluginOpts}
TLSFields == {"servername", "alpn", "client-fingerprint"}

(* The registry: per protocol what is required, the other parameters and    *)
(* switches, and what the link mapping declares beyond the required ones.   *)
Entry(required, text, switches, mapped) ==
  [required |-> required, text |-> text, switches |-> switches, mapped |-> required \cup mapped]
ManualProtocols ==
  [ss |-> Entry({"password"}, AllPluginOpts \ {"opt-tls", "opt-mux", "opt-skip"}, {"opt-tls", "opt-mux", "opt-skip"},
                AllPluginOpts \cup {"plugin"}),
   vmess |-> Entry({"uuid"}, {"alterId"} \cup TLSFields \cup Transports(VmessNetworks), {"udp", "tfo", "skip-cert-verify"},
                   {"alterId", "network", "security", "servername", "alpn", "ws-path", "ws-host", "grpc-service-name"}),
   vless |-> Entry({"uuid"}, {"flow", "public-key", "short-id"} \cup TLSFields \cup Transports(VlessNetworks),
                   {"udp", "tfo", "skip-cert-verify"},
                   {"flow", "network", "security", "servername", "alpn", "public-key", "short-id"} \cup Transports(VlessNetworks)),
   trojan |-> Entry({"password"}, {"sni", "alpn", "public-key", "short-id"} \cup Transports(TrojanNetworks),
                    {"skip-cert-verify"},
                    {"sni", "alpn", "network", "public-key", "short-id"} \cup Transports(TrojanNetworks)),
   anytls |-> Entry({"password"}, {"sni", "alpn", "client-fingerprint"}, {"skip-cert-verify", "udp"},
                    {"sni", "alpn", "client-fingerprint"}),
   hysteria2 |-> Entry({"password"}, {"sni", "alpn", "obfs", "obfs-password", "ports"}, {"skip-cert-verify"},
                       {"sni", "alpn", "obfs", "obfs-password", "ports"}),
   hysteria |-> Entry({"auth"}, {"protocol", "up", "down", "sni", "alpn", "ports", "obfs"}, {"skip-cert-verify"},
                      {"protocol", "up", "down", "sni", "alpn", "ports", "obfs"}),
   tuic |-> Entry({}, {"uuid", "password", "token", "sni", "alpn"}, {"skip-cert-verify"},
                  {"uuid", "password", "token", "sni", "alpn"}),
   wireguard |-> Entry({"private-key", "public-key"},
                       {"ip", "ipv6", "allowed-ips", "pre-shared-key", "mtu", "dns", "reserved"}, {},
                       {"ip", "ipv6", "allowed-ips", "pre-shared-key", "mtu", "dns"}),
   http |-> Entry({}, {"username", "password", "sni"}, {"tls", "skip-cert-verify"}, {"username", "password", "tls", "sni"}),
   socks5 |-> Entry({}, {"username", "password"}, {"tls", "udp", "skip-cert-verify"}, {"username", "password", "tls", "udp"})]
Protocols == DOMAIN ManualProtocols
Texts(p) == ManualProtocols[p].required \cup ManualProtocols[p].text
Switches(p) == ManualProtocols[p].switches
Fields(p) == Texts(p) \cup Switches(p)

Networks(p) == CASE p = "vless" -> VlessNetworks [] p = "vmess" -> VmessNetworks
                 [] p = "trojan" -> TrojanNetworks [] OTHER -> {"none"}
Securities(p) == CASE p = "vless" -> {"none", "tls", "reality"} [] p = "vmess" -> {"none", "tls"}
                   [] p = "trojan" -> {"tls", "reality"} [] OTHER -> {"none"}
Plugins(p) == IF p = "ss" THEN DOMAIN PluginOpts ELSE {"none"}

(* The `when` rules: which parameters the network, security and plugin activate. *)
Active(n, f) ==
  /\ f \in Transports(DOMAIN Opts) => f \in OptsOf(n.network)
  /\ f \in AllPluginOpts => f \in PluginOpts[n.plugin]
  /\ f \in {"public-key", "short-id"} /\ n.protocol \in {"vless", "trojan"} => n.security = "reality"
  /\ f = "flow" => n.network = "tcp" /\ n.security # "none"
  /\ f \in TLSFields /\ n.protocol \in {"vmess", "vless"} => n.security # "none"
  /\ f = "skip-cert-verify" /\ n.protocol \in {"vmess", "vless"} => n.security = "tls"
  /\ f \in {"sni", "alpn", "skip-cert-verify"} /\ n.protocol = "trojan" => n.security = "tls"

ProjectActive(n) == [f \in Fields(n.protocol) |-> IF Active(n, f) THEN n.params[f] ELSE Absent]

(***************************************************************************)
(* Rendering.  A query is a function from the keys present; a table of     *)
(* rows gives the parameter a key is written from or read into.            *)
(***************************************************************************)
Same(S) == [k \in S |-> k]
Put(a, rows) == [k \in {x \in DOMAIN rows : a[rows[x]] \notin {Absent, Off}} |-> a[rows[k]]]
Pick(a, S) == [f \in S |-> a[f]]
Escape(v) == IF v >= Special THEN v + 1 ELSE v
Escaped(u, S) == [f \in DOMAIN u |-> IF f \in S THEN Escape(u[f]) ELSE u[f]]
Insecure(key) == key :> "skip-cert-verify"
(* What an absent parameter stands for: udp is on, the hysteria protocol is udp. *)
Defaulted(a) == [f \in DOMAIN a |-> CASE f = "udp" /\ a[f] = Absent -> On
                                      [] f = "protocol" /\ a[f] = Absent -> Plain
                                      [] OTHER -> a[f]]
(* What the writers fill in: these, and an alterId of 0, which is not the   *)
(* same as none (node/registry.go:697).                                     *)
Written(a) == [f \in DOMAIN a |-> IF f = "alterId" /\ a[f] = Absent THEN Zero ELSE Defaulted(a)[f]]

(* (mutant: the host is written as it is stored) *)
punycode_Bug(host) == {host}

(* An international name becomes ASCII, an IPv6 address is refused. *)
punycode(host) == IF host = "ipv6" THEN {} ELSE {"ascii"}

(* Only text headers are found, so a Host given as a list is not. *)
transportValues(n, a) ==
  LET linked(v) == CASE v = OneItem -> Plain [] v = TwoItems -> Joined [] OTHER -> v
      value(f) == IF f = "http-host" /\ a[f] = OneItem THEN Absent ELSE linked(a[f])
      parts == Parts(n.network)
  IN [part \in {x \in DOMAIN parts : value(parts[x]) # Absent} |-> value(parts[part])]

transportQuery(n, a) ==
  LET t == transportValues(n, a)
  IN IF n.network = "grpc" /\ "path" \in DOMAIN t THEN "serviceName" :> t["path"] ELSE t

(* (mutant: the server name is written for TLS only, REALITY loses it) *)
addSRTLSQuery_Bug(n, a) ==
  IF n.security # "tls" THEN (IF n.security = "none" THEN <<>> ELSE "tls" :> On)
  ELSE ("tls" :> On) @@ Put(a, ("peer" :> "servername") @@ ("fp" :> "client-fingerprint") @@ Same({"alpn"}))

addSRTLSQuery(n, a) ==
  IF n.security = "none" THEN <<>>
  ELSE ("tls" :> On) @@ Put(a, ("peer" :> "servername") @@ ("fp" :> "client-fingerprint") @@ Same({"alpn"}))

Reality(a) == Put(a, ("pbk" :> "public-key") @@ ("sid" :> "short-id"))

(* srLink: the userinfo and the query of every protocol but ss. *)
srLink(n, a) ==
  LET part(user, escaped, rows) == [user |-> Escaped(Pick(a, user), escaped), query |-> Put(a, rows)]
      sni == Same({"sni", "alpn"})
      insecure == IF n.security = "tls" THEN Put(a, Insecure("allowInsecure")) ELSE <<>>
  IN CASE n.protocol = "vmess" ->
            [user |-> Pick(a, {"uuid"}),
             query |-> Put(a, Same({"udp", "alterId", "tfo"})) @@ insecure
                       @@ addSRTLSQuery(n, a) @@ transportQuery(n, a)]
       [] n.protocol = "vless" ->
            [user |-> Pick(a, {"uuid"}),
             query |-> Put(a, Same({"udp", "tfo"})) @@ insecure
                       @@ addSRTLSQuery(n, a) @@ transportQuery(n, a)
                       @@ (IF n.security = "none" THEN <<>> ELSE Put(a, Same({"flow"})))
                       @@ (IF n.security = "reality" THEN ("xtls" :> On) @@ Reality(a) ELSE <<>>)]
       [] n.protocol = "trojan" -> part({"password"}, {"password"}, sni @@ Insecure("allowInsecure"))
       [] n.protocol = "anytls" ->
            part({"password"}, {"password"}, sni @@ Same({"client-fingerprint", "udp"}) @@ Insecure("allowInsecure"))
       [] n.protocol = "hysteria2" ->
            part({"password"}, {"password"}, sni @@ Same({"obfs", "obfs-password"}) @@ Insecure("insecure"))
       [] n.protocol = "hysteria" ->
            part({}, {}, sni @@ Same({"protocol", "auth", "obfs"}) @@ Insecure("insecure")
                         @@ ("upmbps" :> "up") @@ ("downmbps" :> "down") @@ ("mport" :> "ports"))
       [] n.protocol = "tuic" -> part({"uuid", "password"}, {"password"}, sni @@ Insecure("allow_insecure"))
       [] n.protocol = "wireguard" ->
            part({"private-key"}, {"private-key"},
                 Same({"public-key", "ip", "ipv6", "allowed-ips", "pre-shared-key", "mtu", "dns", "reserved"}))
       [] n.protocol = "http" -> part({"username", "password"}, {"username", "password"}, Same({"tls", "skip-cert-verify"}))
       [] n.protocol = "socks5" ->
            part({"username", "password"}, {"username", "password"}, Same({"tls", "udp", "skip-cert-verify"}))

(* genericLink: vmess is a JSON object, vless the standard query; the rest is srLink's. *)
genericLink(n, a) ==
  CASE n.protocol = "vmess" ->
         [user |-> Pick(a, {"uuid"}),
          query |-> Put(a, ("aid" :> "alterId") @@ ("sni" :> "servername") @@ ("fp" :> "client-fingerprint") @@ Same({"alpn"}))
                    @@ ("udp" :> a["udp"]) @@ transportValues(n, a)
                    @@ (IF n.security = "none" THEN <<>> ELSE "tls" :> On)]
    [] n.protocol = "vless" ->
         [user |-> Pick(a, {"uuid"}),
          query |-> Put(a, Same({"alpn", "flow"})) @@ transportQuery(n, a)
                    @@ (IF n.security = "none" THEN <<>>
                        ELSE Put(a, ("sni" :> "servername") @@ ("fp" :> "client-fingerprint")))
                    @@ (IF n.security = "tls" THEN ("security=tls" :> On) @@ Put(a, Insecure("allowInsecure")) ELSE <<>>)
                    @@ (IF n.security = "reality" THEN ("security=reality" :> On) @@ Reality(a) ELSE <<>>)]
    [] OTHER -> srLink(n, a)

(* The contract of a plugin: what a link for a target can express. *)
Expressible(g, target) ==
  CASE g = "obfs" -> {"opt-mode", "opt-host"}
    [] g = "v2ray" -> {"opt-mode", "opt-host", "opt-path", "opt-tls"}
    [] g \in {"shadowtls", "restls", "custom"} /\ target = "sr-subs" -> PluginOpts[g]
    [] OTHER -> {}
Supported(g, target) == g \in {"obfs", "v2ray"} \/ target = "sr-subs"

Given(n, a) == {f \in PluginOpts[n.plugin] : a[f] # Absent}

(* (mutant: the check does not look into the items of a list) *)
AssessTarget_Bug(n, a, target) ==
  n.plugin # "none" => Supported(n.plugin, target) /\ Given(n, a) \subseteq Expressible(n.plugin, target)

(* AssessTarget: the node check finds no error in the plugin (a list item   *)
(* with a comma, the special ALPN value, has no expression in a link).      *)
AssessTarget(n, a, target) ==
  n.plugin # "none" => /\ Supported(n.plugin, target)
                       /\ Given(n, a) \subseteq Expressible(n.plugin, target)
                       /\ a["opt-alpn"] = Plain \/ "opt-alpn" \notin Given(n, a)

(* stringPluginOpts, joinPluginList: the texts of the options, none when one has none. *)
stringPluginOpts(n, a, target) ==
  IF Given(n, a) \subseteq Expressible(n.plugin, target) /\ ("opt-alpn" \in Given(n, a) => a["opt-alpn"] = Plain)
    THEN {Pick(a, Given(n, a))} ELSE {}

renderPluginForTarget(n, a, target) ==
  IF ~Supported(n.plugin, target) THEN {}
  ELSE {IF n.plugin = "obfs" /\ a["opt-mode"] = Absent THEN ("opt-mode" :> Plain) @@ o ELSE o :
          o \in stringPluginOpts(n, a, target)}

ssLink(n, a, target) ==
  {[user |-> Pick(a, {"password"}), query |-> o] :
     o \in IF n.plugin = "none" THEN {<<>>} ELSE renderPluginForTarget(n, a, target)}

Body(n, a, target) == IF n.protocol = "ss" THEN ssLink(n, a, target)
                      ELSE IF target = "sr-subs" THEN {srLink(n, a)} ELSE {genericLink(n, a)}
(* The name is in the query of the Shadowrocket forms and in the JSON, else *)
(* it is the escaped fragment.                                              *)
NameInFragment(p, target) == p # "vmess" /\ (p = "vless" => target = "generic-subs")

(* Render: the link of a node, none when it cannot be expressed. *)
Render(n, target) ==
  LET a == Written(ProjectActive(n))
  IN {[target |-> target, protocol |-> n.protocol, host |-> h, type |-> n.network, plugin |-> n.plugin,
       name |-> IF NameInFragment(n.protocol, target) THEN Escape(n.name) ELSE n.name,
       user |-> b.user, query |-> b.query] : h \in punycode(n.host), b \in Body(n, a, target)}

(***************************************************************************)
(* Reading.  Each parser gives the parameters it sets (a later @@ operand  *)
(* is a default), the network and whether TLS or REALITY is on.            *)
(***************************************************************************)
Take(q, rows) == [f \in {rows[k] : k \in DOMAIN rows \cap DOMAIN q} |->
                    q[CHOOSE k \in DOMAIN rows \cap DOMAIN q : rows[k] = f]]
Unescape(v) == IF v > Special THEN v - 1 ELSE v
Unescaped(u, S) == [f \in DOMAIN u |-> IF f \in S THEN Unescape(u[f]) ELSE u[f]]
Read(network, security, params) == [network |-> network, security |-> security, params |-> params]

normalizeNetwork(w) == IF w = "httpupgrade" THEN "ws" ELSE w

(* canonicalizeTransportAliases: a path, host or mode that has no place in  *)
(* the transport stays a parameter of its own, unknown to every protocol.   *)
canonicalizeTransportAliases(q, network) == Pick(q, ({"path", "host", "mode"} \cap DOMAIN q) \ DOMAIN Parts(network))

(* applyVLESSTransport and its like. *)
applyTransport(q, network) ==
  LET parts == Parts(network)
      item(v) == IF network # "http" \/ v = Joined THEN v ELSE OneItem
      placed == Take(q, [k \in DOMAIN parts |-> parts[k]])
  IN [f \in DOMAIN placed |-> item(placed[f])] @@ canonicalizeTransportAliases(q, network)

parseSS(l) == Read("none", "none",
  l.user @@ l.query @@ (IF l.plugin = "v2ray" THEN "opt-mode" :> Plain ELSE <<>>))

parseVMessJSON(l) ==
  Read(l.type, IF "tls" \in DOMAIN l.query THEN "tls" ELSE "none",
       l.user @@ Take(l.query, ("aid" :> "alterId") @@ ("sni" :> "servername") @@ ("fp" :> "client-fingerprint")
                               @@ Same({"alpn", "udp"}))
              @@ Take(l.query, "host" :> "servername") @@ applyTransport(l.query, l.type))

parseVMessSR(l) ==
  Read(normalizeNetwork(l.type), IF "tls" \in DOMAIN l.query THEN "tls" ELSE "none",
       l.user @@ Take(l.query, ("peer" :> "servername") @@ ("fp" :> "client-fingerprint") @@ Same({"alpn", "udp", "alterId"})
                               @@ Insecure("allowInsecure"))
              @@ ("udp" :> On) @@ applyTransport(l.query, normalizeNetwork(l.type)))

(* The service name decides for gRPC and is read as a path. *)
parseVLESS(l) ==
  LET has(k) == k \in DOMAIN l.query
      q == IF has("serviceName") THEN ("path" :> l.query["serviceName"]) @@ l.query ELSE l.query
      network == IF has("serviceName") THEN "grpc" ELSE normalizeNetwork(l.type)
      reality == has("security=reality") \/ has("xtls")
      ids == IF reality THEN Take(q, ("pbk" :> "public-key") @@ ("sid" :> "short-id")) ELSE <<>>
  IN Read(network, IF ids # <<>> THEN "reality" ELSE IF reality \/ has("security=tls") \/ has("tls") THEN "tls" ELSE "none",
          l.user @@ Take(q, ("sni" :> "servername") @@ ("fp" :> "client-fingerprint") @@ Same({"alpn", "flow"})
                            @@ Insecure("allowInsecure"))
                 @@ Take(q, "peer" :> "servername") @@ ids @@ applyTransport(q, network))

parseTrojan(l) == Read("tcp", "tls",
  Unescaped(l.user, {"password"}) @@ Take(l.query, Same({"sni", "alpn"}) @@ Insecure("allowInsecure")))

parseAnyTLS(l) == Read("none", "none",
  l.user @@ Take(l.query, Same({"sni", "alpn", "client-fingerprint", "udp"}) @@ Insecure("allowInsecure")) @@ ("udp" :> On))

parseHysteria2(l) == Read("none", "none",
  Unescaped(l.user, {"password"})
    @@ Take(l.query, Same({"sni", "alpn", "obfs", "obfs-password"}) @@ ("mport" :> "ports") @@ Insecure("insecure")))

parseHysteria(l) == Read("none", "none",
  Take(l.query, Same({"sni", "alpn", "auth", "obfs", "protocol"}) @@ ("mport" :> "ports") @@ ("upmbps" :> "up")
                @@ ("downmbps" :> "down") @@ Insecure("insecure"))
    @@ ("protocol" :> Plain))

parseTUIC(l) == Read("none", "none",
  Unescaped(l.user, {"password"}) @@ Take(l.query, Same({"token", "sni", "alpn"}) @@ Insecure("allow-insecure")))

(* setWireGuardIPs: the mask of an address is cut off. *)
setWireGuardIPs(q) == IF "ip" \notin DOMAIN q THEN <<>> ELSE "ip" :> (IF q["ip"] = Masked THEN Plain ELSE q["ip"])

(* Only `ip` and `address` are read, where an IPv6 address is told by its colons. *)
parseWireGuard(l) == Read("none", "none",
  Unescaped(l.user, {"private-key"}) @@ setWireGuardIPs(l.query)
    @@ Take(l.query, Same({"public-key", "allowed-ips", "pre-shared-key", "mtu", "dns", "reserved"})))

parseHTTP(l) == Read("none", "none",
  Unescaped(l.user, {"username", "password"}) @@ Take(l.query, Same({"tls", "sni", "skip-cert-verify"})))

parseSocks5(l) == Read("none", "none",
  Unescaped(l.user, {"username", "password"}) @@ Take(l.query, Same({"tls", "udp", "skip-cert-verify"})))

Parse(l) == CASE l.protocol = "ss" -> parseSS(l)
              [] l.protocol = "vmess" -> (IF l.target = "sr-subs" THEN parseVMessSR(l) ELSE parseVMessJSON(l))
              [] l.protocol = "vless" -> parseVLESS(l)          [] l.protocol = "trojan" -> parseTrojan(l)
              [] l.protocol = "anytls" -> parseAnyTLS(l)        [] l.protocol = "hysteria2" -> parseHysteria2(l)
              [] l.protocol = "hysteria" -> parseHysteria(l)    [] l.protocol = "tuic" -> parseTUIC(l)
              [] l.protocol = "wireguard" -> parseWireGuard(l)  [] l.protocol = "http" -> parseHTTP(l)
              [] l.protocol = "socks5" -> parseSocks5(l)

(* ImportURIs for one line: the node stored, Refused when a parameter is    *)
(* unknown or a required one is missing.  The fragment of an ss link is     *)
(* taken for the name as it is.                                             *)
Imported(l) ==
  LET r == Parse(l)
      p == l.protocol
      fragment == NameInFragment(p, l.target)
  IN IF DOMAIN r.params \subseteq Fields(p) /\ ManualProtocols[p].required \subseteq DOMAIN r.params
       THEN [protocol |-> p, host |-> l.host, network |-> r.network, security |-> r.security, plugin |-> l.plugin,
             name |-> IF fragment /\ p # "ss" THEN Unescape(l.name) ELSE l.name,
             params |-> [f \in Fields(p) |-> IF f \in DOMAIN r.params THEN r.params[f] ELSE Absent]]
       ELSE Refused

-----------------------------------------------------------------------------
(* The nodes that set out: up to two parameters beyond the required ones    *)
(* (whichever branch they belong to) and at most one oddity, which is a     *)
(* special text, an alterId of 0, an address with its mask, an              *)
(* international name, or an IPv6 host.                                     *)
Value(p, f, given, odd) ==
  IF f \notin given THEN Absent
  ELSE IF f \in Switches(p) THEN (IF f = "udp" THEN Off ELSE On)
  ELSE IF f = "http-path" THEN (IF odd = f THEN TwoItems ELSE OneItem)
  ELSE IF f = "http-host" THEN (IF odd = f THEN OneItem ELSE Plain)
  ELSE IF odd # f THEN Plain
  ELSE CASE f = "alterId" -> Zero [] f = "ip" -> Masked [] OTHER -> Special

(* Parameters an odd value is typed for (identifiers and choices are left plain). *)
Free(p) == Texts(p) \ {"uuid", "public-key", "short-id", "flow", "client-fingerprint", "mtu", "xhttp-mode"}

LinksInit ==
  \E p \in Protocols : \E w \in Networks(p), s \in Securities(p), g \in Plugins(p) :
  \E one \in Fields(p), other \in Fields(p) :
    LET given == {one, other} \cup ManualProtocols[p].required \cup (IF s = "reality" THEN {"public-key"} ELSE {})
    IN /\ p \in {"vless", "trojan"} /\ s # "reality" => given \cap {"public-key", "short-id"} = {}
       /\ \E odd \in {"none", "name", "international", "ipv6"} \cup (given \cap Free(p)) :
            node = [protocol |-> p, network |-> w, security |-> s, plugin |-> g,
                    name |-> IF odd = "name" THEN Special ELSE Plain,
                    host |-> IF odd \in {"international", "ipv6"} THEN odd ELSE "ascii",
                    params |-> [f \in Fields(p) |-> Value(p, f, given, odd)]]
       /\ link = NoLink /\ trips = 0 /\ via = "none"

(* A link is rendered for a subscription (a node it cannot express has none). *)
Export(target) ==
  /\ link = NoLink /\ node # Refused /\ trips < MaxTrips
  /\ link' \in Render(node, target)
  /\ UNCHANGED <<node, trips, via>>

(* ... and imported, here or in another panel. *)
ImportURIs ==
  /\ link # NoLink
  /\ node' = Imported(link)
  /\ via' = link.target
  /\ trips' = trips + 1
  /\ link' = NoLink

LinksNext == ImportURIs \/ \E target \in LinkTargets : Export(target)

LinksSpec == LinksInit /\ [][LinksNext]_linksVars

-----------------------------------------------------------------------------
(* What a parameter of a node means: its active value, defaults filled in, *)
(* a list of one item being the item.                                      *)
Meaning(n, f) ==
  LET v == Defaulted(ProjectActive(n))[f]
  IN CASE v = OneItem -> Plain
       [] f = "opt-mode" /\ n.plugin \in {"obfs", "v2ray"} /\ v = Absent -> Plain
       [] f # "udp" /\ v = Off -> Absent
       [] OTHER -> v
Agree(n, m, f) == CASE f = "network" -> n.network = m.network
                    [] f = "security" -> n.security = m.security
                    [] f = "plugin" -> n.plugin = m.plugin
                    [] f = "name" -> n.name = m.name
                    [] OTHER -> Meaning(n, f) = Meaning(m, f)
Sent(n) == [n EXCEPT !.host = IF @ = "international" THEN "ascii" ELSE @]

(* What the code is known to lose although the link mapping declares it. *)
KnownLosses(n, target) ==
  LET sr == target = "sr-subs"
  IN UNION {
    IF n.protocol = "ss" /\ n.name >= Special THEN {"name"} ELSE {},
    IF n.network = "httpupgrade" /\ (n.protocol = "vless" \/ sr) THEN {"network"} ELSE {},
    IF n.protocol = "vmess" /\ sr THEN {"grpc-service-name"} ELSE {},
    IF n.protocol = "vmess" /\ n.params["alterId"] = Absent THEN {"alterId"} ELSE {},
    IF n.protocol = "vmess" /\ ~sr /\ n.params["servername"] = Absent THEN {"servername"} ELSE {},
    IF n.protocol = "vless" /\ n.params["http-path"] = TwoItems THEN {"http-path"} ELSE {},
    IF n.protocol = "vless" /\ n.params["http-host"] = OneItem THEN {"http-host"} ELSE {},
    IF n.protocol = "trojan" THEN {"network", "public-key", "short-id"} \cup Transports(TrojanNetworks) ELSE {},
    IF n.protocol = "wireguard" /\ n.params["ip"] = Masked THEN {"ip"} ELSE {},
    IF n.protocol = "anytls" /\ n.params["password"] >= Special THEN {"password"} ELSE {},
    CASE n.protocol = "hysteria2" -> {"ports"} [] n.protocol = "tuic" -> {"token"}
      [] n.protocol = "wireguard" -> {"ipv6"}  [] n.protocol = "http" -> {"sni"}
      [] n.protocol = "socks5" -> {"udp"}      [] OTHER -> {}}

(* LinksTypeOK: a stored node has the networks, security and values its protocol
   allows, a pending link has an ASCII host name, and no text drifts by more
   escapes than trips were made. *)
LinksTypeOK ==
  /\ trips \in 0..MaxTrips
  /\ node # Refused =>
       /\ node.protocol \in Protocols /\ node.network \in Networks(node.protocol)
       /\ node.security \in Securities(node.protocol)
       /\ \A f \in Fields(node.protocol) : node.params[f] \in Masked..(Special + trips)
  /\ link # NoLink => link.host = "ascii" /\ link.protocol = node.protocol

(* A second trip for the same target changes nothing the first one has not:
   losses do not compound (but for an AnyTLS password and a Host list). *)
Settled ==
  via = link.target =>
    /\ [node' EXCEPT !.name = node.name, !.params = node.params] = node
    /\ \A f \in Fields(node.protocol) \ {"password", "http-host"} : Agree(node, node', f)

(* LinkReadsBack: every link a subscription hands out is accepted when it is
   imported and gives back each parameter the registry's link mapping
   declares - credentials, transport, TLS or REALITY identity, plugin - with
   the node's name, except for the losses listed; and a second trip loses
   nothing more (writers in assembly/links, readers in uriparse, which share
   no table). *)
LinkReadsBack ==
  [][ImportURIs => /\ node' # Refused
                   /\ \A f \in (ManualProtocols[node.protocol].mapped \cup {"name"}) \ KnownLosses(node, link.target) :
                        Agree(node, node', f)
                   /\ Settled]_linksVars

(* VerdictsAgree: the node check reports an error for a plugin exactly when
   no link can be rendered for it (ssplugin.AssessTarget and the renderer
   decide from the same contract in different code). *)
VerdictsAgree ==
  node # Refused /\ node.protocol = "ss" /\ node.host # "ipv6" =>
    \A target \in LinkTargets : Render(node, target) # {} <=> AssessTarget(node, ProjectActive(node), target)
=============================================================================
