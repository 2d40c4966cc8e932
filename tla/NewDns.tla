--------------------------------- MODULE NewDns ---------------------------------
(* What internal/protocol/newdns.go makes of an HTTPDNS answer: the servers of *)
(* a domain and a protocol, and the order a login or a request tries them in.  *)
(* An address is a number, 0 one that net.ParseIP refuses; addresses sort as   *)
(* their numbers do.                                                           *)
EXTENDS Integers, Sequences, SequencesExt

CONSTANTS
    MaxIp,         \* the highest address an answer names
    MaxTargets,    \* how many servers a login tries: 6 in the code
    DefaultTarget  \* the ShortLink server for when HTTPDNS names none

ASSUME NewDnsAssumption ==
    MaxIp \in Nat /\ MaxTargets \in Nat /\ DefaultTarget \in [ip : 0 .. MaxIp, port : Int]

LonglinkDomain == "longcloud.weixin.com"
ShortlinkDomain == "shortcloud.weixin.com"
ProtoMmtls == "mmtlsovertcp"

(* parseDomainList: the last item of a name stands, and a protocol that is     *)
(* listed twice has the ports of both.  No name, no address: left out.         *)
Readable(answer) == answer.status = 200 /\ answer.retcode = 0

(* The elements at the indices of a set, in their order.                       *)
At(s, kept) == FlattenSeq([i \in DOMAIN s |-> IF i \in kept THEN <<s[i]>> ELSE <<>>])

Ports(protocols, proto) ==
    FlattenSeq([i \in DOMAIN protocols |->
        IF protocols[i].name = proto THEN protocols[i].ports ELSE <<>>])

Parsed(ips) == At(ips, {i \in DOMAIN ips : ips[i] # 0})

ParseDomainList(answer) ==
    LET domains == answer.domains
        last(name) == domains[Max({i \in DOMAIN domains : domains[i].name = name})]
    IN  [name \in {d.name : d \in ToSet(domains)} \ {""} |->
            [ips |-> Parsed(last(name).ips), protocols |-> last(name).protocols]]

(* Every address of the domain with every port of the protocol.                *)
ServersFor(parsed, domain, proto) ==
    IF domain \notin DOMAIN parsed THEN <<>>
    ELSE LET ips == parsed[domain].ips
             ports == Ports(parsed[domain].protocols, proto)
         IN  FlattenSeq([i \in DOMAIN ips |-> [p \in DOMAIN ports |-> [ip |-> ips[i], port |-> ports[p]]]])

(* One target of an address: the first that is met.                            *)
FirstOfIp(targets) ==
    At(targets, {i \in DOMAIN targets : \A j \in 1 .. i - 1 : targets[j].ip # targets[i].ip})

OnPort(targets, port) == At(targets, {i \in DOMAIN targets : targets[i].port = port})

ShortlinkTargets(parsed) ==
    LET out == FirstOfIp(OnPort(ServersFor(parsed, ShortlinkDomain, "http"), 80))
    IN  IF out = <<>> THEN <<DefaultTarget>> ELSE out

PreferredPorts == <<8080, 80, 443, 5000>>

FaultyByPreference(targets) ==
    FirstOfIp(At(targets, {i \in DOMAIN targets : targets[i].port \in ToSet(PreferredPorts)}))

(* The preferred ports in their order; an address counts once.                 *)
ByPreference(targets) ==
    FirstOfIp(FlattenSeq([p \in DOMAIN PreferredPorts |-> OnPort(targets, PreferredPorts[p])]))

(* sort.SliceStable.                                                           *)
OfIp(targets, ip) == At(targets, {i \in DOMAIN targets : targets[i].ip = ip})

SortedByIp(targets) == FlattenSeq([ip \in 1 .. MaxIp |-> OfIp(targets, ip)])

OrderLonglinkTargets(targets) ==
    LET best == ByPreference(targets)
        out == SortedByIp(IF best = <<>> THEN targets ELSE best)
    IN  IF MaxTargets > 0 /\ Len(out) > MaxTargets THEN SubSeq(out, 1, MaxTargets) ELSE out

--------------------------------------------------------------------------------
(* What the order promises, said without the loops that compute it: the lowest *)
(* addresses, one entry each, on the most preferred port they offer; and when  *)
(* no address offers a preferred port, all there is, in the same order.        *)
Rank(port) == CHOOSE p \in DOMAIN PreferredPorts : PreferredPorts[p] = port
Preferred(targets) == {t \in ToSet(targets) : t.port \in ToSet(PreferredPorts)}

WellOrdered(out, targets) ==
    LET pool == IF Preferred(targets) = {} THEN ToSet(targets)
                ELSE {t \in Preferred(targets) :
                        \A u \in Preferred(targets) : u.ip = t.ip => Rank(t.port) <= Rank(u.port)}
    IN  /\ ToSet(out) \subseteq pool
        /\ \A i, j \in DOMAIN out : i < j => out[i].ip <= out[j].ip
        /\ Preferred(targets) # {} => \A i, j \in DOMAIN out : out[i].ip = out[j].ip => i = j
        /\ \A t \in pool \ ToSet(out) :
            Len(out) = MaxTargets /\ \A i \in DOMAIN out : out[i].ip <= t.ip
================================================================================
