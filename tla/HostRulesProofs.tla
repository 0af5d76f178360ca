-------------------------- MODULE HostRulesProofs --------------------------
(***************************************************************************)
(* Proofs about HostRules, for any number of processes: type correctness   *)
(* and the closing of the ports, and the rules that protect the owner of   *)
(* the guard, whatever overlaps and fails.                                 *)
(***************************************************************************)
EXTENDS HostRules, SequenceTheorems, WellFoundedInduction, TLAPS

-----------------------------------------------------------------------------
(* What the manager has opened and not yet tried to close. *)

Pending(p, port) ==
    \E j \in DOMAIN opened[p] :
        opened[p][j].port = port /\ (pc[p] = "closing" => step[p] <= j)

(* A port is opened once, after those before it, and only with a backend. *)
OpenedInOrder(p) ==
    \A i \in DOMAIN opened[p] :
        /\ Manages(p)
        /\ \A j \in DOMAIN opened[p] : opened[p][i].port = opened[p][j].port => i = j
        /\ pc[p] = "opening" =>
              \E k \in DOMAIN Ports : k < step[p] /\ opened[p][i].port = Ports[k]

NothingOpened(p) == ~Alive(p) => opened[p] = <<>>

(* A rule that is pending is there ... *)
PendingThere(p) ==
    \A port \in PortNames : Pending(p, port) => ports[p][port] >= 1

(* ... and the only one beyond those that were there or could not go. *)
PendingOnly(p) ==
    pc[p] # "off" =>
        \A port \in PortNames :
            ports[p][port] <= excused[p][port] + IF Pending(p, port) THEN 1 ELSE 0

PortInvOf(p) == OpenedInOrder(p) /\ NothingOpened(p) /\ PendingThere(p) /\ PendingOnly(p)

PortInv == TypeOK /\ \A p \in Procs : PortInvOf(p)

Rule == [port : PortNames, handle : BOOLEAN]

LEMMA PortList ==
    /\ DOMAIN Ports = {1, 2} /\ Len(Ports) = 2
    /\ \A i \in DOMAIN Ports : Ports[i] \in PortNames
    /\ \A i, j \in DOMAIN Ports : Ports[i] = Ports[j] => i = j
BY DEF Ports, PortNames

LEMMA LeastNumber ==
    ASSUME NEW T, T \subseteq Nat, T # {}
    PROVE  \E x \in T : \A y \in T : x <= y
<1>. DEFINE Less == OpToRel(<, Nat)
<1>1. \A x, y \in T : y < x => <<y, x>> \in Less
  BY DEF OpToRel
<1>2. IsWellFoundedOn(Less, Nat)
  BY NatLessThanWellFounded
<1>. HIDE DEF Less
<1>3. PICK x \in T : \A y \in T : ~ (<<y, x>> \in Less)
  BY <1>2, WFMin
<1>4. \A y \in T : ~ (y < x)
  BY <1>1, <1>3
<1>. QED  BY <1>4

(* The list without one of its rules. *)
LEMMA WithoutFirstTyped ==
    ASSUME NEW S, NEW rules \in Seq(S), NEW rule
    PROVE  WithoutFirst(rules, rule) \in Seq(S)
<1>. DEFINE At == {i \in DOMAIN rules : rules[i] = rule}
            First == CHOOSE i \in At : \A j \in At : i <= j
<1>1. CASE At = {}
  BY <1>1 DEF WithoutFirst
<1>2. CASE At # {}
  <2>1. At \subseteq 1 .. Len(rules) /\ At \subseteq Nat
    OBVIOUS
  <2>. HIDE DEF At
  <2>2. First \in At
    <3>1. \E i \in At : \A j \in At : i <= j
      BY <1>2, <2>1, LeastNumber
    <3>. QED  BY <3>1
  <2>. HIDE DEF First
  <2>3. First \in 1 .. Len(rules) /\ Len(rules) \in Nat
    BY <2>1, <2>2
  <2>4. SubSeq(rules, 1, First - 1) \in Seq(S)
    BY <2>3, SubSeqProperties, ElementOfSeq
  <2>5. SubSeq(rules, First + 1, Len(rules)) \in Seq(S)
    BY <2>3, SubSeqProperties, ElementOfSeq
  <2>6. SubSeq(rules, 1, First - 1) \o SubSeq(rules, First + 1, Len(rules)) \in Seq(S)
    BY <2>4, <2>5, ConcatProperties
  <2>. QED  BY <1>2, <2>6 DEF WithoutFirst, First, At
<1>. QED  BY <1>1, <1>2

(* What the four kinds of steps do to the types. *)
LEMMA MovedTyped ==
    ASSUME TypeOK, NEW p \in Procs, NEW phase \in Phases, MoveTo(p, phase)
    PROVE  /\ pc' \in [Procs -> Phases] /\ step' \in [Procs -> Nat \ {0}]
           /\ pc'[p] = phase /\ step'[p] = 1
           /\ \A q \in Procs \ {p} : pc'[q] = pc[q] /\ step'[q] = step[q]
BY DEF TypeOK, MoveTo

LEMMA NextStepTyped ==
    ASSUME TypeOK, NEW p \in Procs, NextStep(p)
    PROVE  /\ pc' = pc /\ step' \in [Procs -> Nat \ {0}]
           /\ step'[p] = step[p] + 1
           /\ \A q \in Procs \ {p} : step'[q] = step[q]
BY DEF TypeOK, NextStep

LEMMA GoneTyped ==
    ASSUME TypeOK, NEW p \in Procs, NEW phase \in Phases, Gone(p, phase)
    PROVE  /\ opened' \in [Procs -> Seq(Rule)] /\ guard' \in [Procs -> BOOLEAN]
           /\ opened'[p] = <<>>
           /\ \A q \in Procs \ {p} : opened'[q] = opened[q]
BY EmptySeq DEF TypeOK, Gone, Rule

LEMMA LockLeftTyped ==
    ASSUME TypeOK, NEW p, LockLeft(p)
    PROVE  lock' \in Procs \cup {NoFile, Stale}
BY DEF TypeOK, LockLeft

(* The firewall of a host stays what it is. *)
LEMMA SameTools ==
    ASSUME UNCHANGED tools
    PROVE  /\ FirewallBackend' = FirewallBackend /\ GuardBackend' = GuardBackend
           /\ \A p : Manages(p)' = Manages(p)
BY DEF FirewallBackend, GuardBackend, Manages, Preferred

(* A process of which nothing changes. *)
LEMMA Bystander ==
    ASSUME NEW p \in Procs, PortInvOf(p), UNCHANGED tools,
           UNCHANGED <<pc[p], step[p], opened[p], ports[p], excused[p]>>
    PROVE  PortInvOf(p)'
BY SameTools DEF PortInvOf, OpenedInOrder, NothingOpened, PendingThere, PendingOnly,
       Pending, Alive

(* A process that goes on, and neither opens nor closes ports. *)
LEMMA PhasePorts ==
    ASSUME PortInv, NEW p \in Procs,
           Alive(p), pc[p] # "closing", pc'[p] \notin {"off", "stopped", "opening"},
           pc'[p] = "closing" => step'[p] = 1,
           UNCHANGED <<tools, opened, ports, excused>>
    PROVE  PortInvOf(p)'
<1>1. DOMAIN opened[p] \subseteq Nat \ {0}
  <2>1. opened[p] \in Seq(Rule)
    BY DEF PortInv, TypeOK, Rule
  <2>. QED  BY <2>1
<1>2. \A port : Pending(p, port)' <=> Pending(p, port)
  BY <1>1 DEF Pending
<1>. QED  BY <1>2, SameTools DEF PortInv, PortInvOf, OpenedInOrder, NothingOpened,
          PendingThere, PendingOnly, Alive

(* A process that ends with nothing left to close, or of a crash. *)
LEMMA GonePorts ==
    ASSUME PortInv, NEW p \in Procs, opened'[p] = <<>>, UNCHANGED <<ports, excused>>,
           \/ pc'[p] = "off"
           \/ /\ pc'[p] = "stopped" /\ pc[p] = "closing"
              /\ step[p] > Len(opened[p])
    PROVE  PortInvOf(p)'
<1>1. DOMAIN opened'[p] = {}
  OBVIOUS
<1>2. \A port : ~Pending(p, port)'
  BY <1>1 DEF Pending
<1>3. pc'[p] = "stopped" => \A port \in PortNames : ~Pending(p, port)
  <2>1. DOMAIN opened[p] = 1 .. Len(opened[p]) /\ step[p] \in Nat
    BY DEF PortInv, TypeOK
  <2>. QED  BY <2>1 DEF Pending
<1>. QED  BY <1>1, <1>2, <1>3 DEF PortInv, PortInvOf, OpenedInOrder, NothingOpened,
          PendingThere, PendingOnly, Alive

(* An entry of the manager, and the phase of its process. *)
LEMMA OpenedTyped ==
    ASSUME TypeOK, NEW p \in Procs
    PROVE  /\ opened[p] \in Seq(Rule) /\ step[p] \in Nat \ {0}
           /\ Len(opened[p]) \in Nat /\ DOMAIN opened[p] = 1 .. Len(opened[p])
           /\ \A i \in DOMAIN opened[p] :
                 opened[p][i].port \in PortNames /\ opened[p][i].handle \in BOOLEAN
<1>1. opened[p] \in Seq(Rule) /\ step[p] \in Nat \ {0}
  BY DEF TypeOK, Rule
<1>2. /\ Len(opened[p]) \in Nat /\ DOMAIN opened[p] = 1 .. Len(opened[p])
      /\ \A i \in DOMAIN opened[p] : opened[p][i] \in Rule
  BY <1>1, LenProperties, ElementOfSeq
<1>. QED  BY <1>1, <1>2 DEF Rule

LEMMA PortsTyped ==
    ASSUME TypeOK, NEW p \in Procs, NEW port \in PortNames
    PROVE  ports[p][port] \in Nat /\ excused[p][port] \in Nat
BY DEF TypeOK

(* Another number of rules for a port of a process. *)
LEMMA NumberChanged ==
    ASSUME NEW book \in [Procs -> [PortNames -> Nat]], NEW p \in Procs,
           NEW port \in PortNames, NEW k \in Nat
    PROVE  /\ [book EXCEPT ![p][port] = k] \in [Procs -> [PortNames -> Nat]]
           /\ [book EXCEPT ![p][port] = k][p][port] = k
           /\ \A name \in PortNames \ {port} :
                 [book EXCEPT ![p][port] = k][p][name] = book[p][name]
           /\ \A q \in Procs \ {p} : [book EXCEPT ![p][port] = k][q] = book[q]
OBVIOUS

LEMMA StartPorts ==
    ASSUME PortInv, NEW p \in Procs, Start(p)
    PROVE  PortInvOf(p)' /\ excused' \in [Procs -> [PortNames -> Nat]]
<1>1. opened[p] = <<>> /\ opened' = opened /\ ports' = ports
  BY DEF Start, PortInv, PortInvOf, NothingOpened
<1>2. excused'[p] = ports[p] /\ excused' \in [Procs -> [PortNames -> Nat]]
  BY DEF Start, PortInv, TypeOK
<1>3. \A port : ~Pending(p, port)'
  BY <1>1 DEF Pending
<1>. QED  BY <1>1, <1>2, <1>3, PortsTyped
          DEF PortInv, PortInvOf, OpenedInOrder, NothingOpened, PendingThere, PendingOnly

LEMMA OpenPortPorts ==
    ASSUME PortInv, NEW p \in Procs, OpenPort(p)
    PROVE  /\ PortInvOf(p)'
           /\ opened' \in [Procs -> Seq(Rule)] /\ ports' \in [Procs -> [PortNames -> Nat]]
           /\ \A q \in Procs \ {p} : opened'[q] = opened[q] /\ ports'[q] = ports[q]
<1>1. TypeOK /\ PortInvOf(p) /\ Manages(p) /\ pc[p] = "opening" /\ pc' = pc
  BY DEF OpenPort, NextStep, PortInv
<1>2. step[p] \in DOMAIN Ports /\ step'[p] = step[p] + 1
  BY <1>1, OpenedTyped, NextStepTyped, PortList DEF OpenPort
<1>. DEFINE port == Ports[step[p]]
<1>3. port \in PortNames
  BY <1>2, PortList
<1>4. PICK handle \in BOOLEAN :
         opened' = [opened EXCEPT ![p] = Append(@, [port |-> port, handle |-> handle])]
  BY DEF OpenPort
<1>. DEFINE rule == [port |-> port, handle |-> handle]
<1>5. rule \in Rule /\ rule.port = port
  BY <1>3 DEF Rule
<1>6. ports' = [ports EXCEPT ![p][port] = RulesWithOneMore(@)]
  BY DEF OpenPort
<1>. HIDE DEF port
<1>. HIDE DEF rule
<1>7. /\ opened'[p] = Append(opened[p], rule)
      /\ \A q \in Procs \ {p} : opened'[q] = opened[q]
      /\ opened' \in [Procs -> Seq(Rule)]
  <2>1. Append(opened[p], rule) \in Seq(Rule)
    BY <1>1, <1>5, OpenedTyped, AppendProperties
  <2>2. opened' = [opened EXCEPT ![p] = Append(opened[p], rule)]
    BY <1>4 DEF rule
  <2>. QED  BY <1>1, <2>1, <2>2 DEF TypeOK, Rule
<1>8. /\ DOMAIN opened'[p] = 1 .. Len(opened[p]) + 1
      /\ \A i \in DOMAIN opened[p] : opened'[p][i] = opened[p][i]
      /\ opened'[p][Len(opened[p]) + 1] = rule
  BY <1>1, <1>5, <1>7, OpenedTyped, AppendProperties
<1>9. \A i \in DOMAIN opened[p] : opened[p][i].port # port
  BY <1>1, <1>2, PortList, OpenedTyped DEF PortInvOf, OpenedInOrder, port
<1>10. \A name : Pending(p, name)' <=> Pending(p, name) \/ name = port
  BY <1>1, <1>5, <1>8, OpenedTyped DEF Pending
<1>11. ~Pending(p, port)
  BY <1>9 DEF Pending
<1>12. /\ ports' \in [Procs -> [PortNames -> Nat]]
       /\ ports'[p][port] = RulesWithOneMore(ports[p][port])
       /\ \A name \in PortNames \ {port} : ports'[p][name] = ports[p][name]
       /\ \A q \in Procs \ {p} : ports'[q] = ports[q]
  <2>1. RulesWithOneMore(ports[p][port]) \in Nat
    BY <1>1, <1>3, PortsTyped DEF RulesWithOneMore
  <2>2. ports' = [ports EXCEPT ![p][port] = RulesWithOneMore(ports[p][port])]
    BY <1>6
  <2>3. ports \in [Procs -> [PortNames -> Nat]]
    BY <1>1 DEF TypeOK
  <2>. QED  BY <1>3, <2>1, <2>2, <2>3, NumberChanged
<1>13. excused' = excused /\ tools' = tools
  BY DEF OpenPort
<1>14. OpenedInOrder(p)'
  <2>1. \A i, j \in DOMAIN opened'[p] :
           opened'[p][i].port = opened'[p][j].port => i = j
    <3>1. \A i, j \in DOMAIN opened[p] :
             opened[p][i].port = opened[p][j].port => i = j
      BY <1>1 DEF PortInvOf, OpenedInOrder
    <3>2. \A i \in DOMAIN opened'[p] : i \in DOMAIN opened[p] \/ i = Len(opened[p]) + 1
      BY <1>1, <1>8, OpenedTyped
    <3>. QED  BY <1>5, <1>8, <1>9, <3>1, <3>2
  <2>2. \A i \in DOMAIN opened'[p] :
           \E k \in DOMAIN Ports : k < step'[p] /\ opened'[p][i].port = Ports[k]
    <3>1. ASSUME NEW i \in DOMAIN opened[p]
          PROVE  \E k \in DOMAIN Ports : k < step'[p] /\ opened'[p][i].port = Ports[k]
      <4>1. PICK k \in DOMAIN Ports : k < step[p] /\ opened[p][i].port = Ports[k]
        BY <1>1 DEF PortInvOf, OpenedInOrder
      <4>. QED  BY <1>1, <1>2, <1>8, <4>1, OpenedTyped, PortList
    <3>2. step[p] < step'[p] /\ opened'[p][Len(opened[p]) + 1].port = Ports[step[p]]
      BY <1>1, <1>2, <1>5, <1>8, OpenedTyped DEF port
    <3>. QED  BY <1>1, <1>2, <1>8, <3>1, <3>2, OpenedTyped
  <2>3. Manages(p)'
    BY <1>1, <1>13, SameTools
  <2>. QED  BY <2>1, <2>2, <2>3 DEF OpenedInOrder
<1>15. PendingThere(p)'
  BY <1>1, <1>3, <1>10, <1>12, PortsTyped DEF PendingThere, PortInvOf, RulesWithOneMore
<1>16. PendingOnly(p)'
  BY <1>1, <1>3, <1>10, <1>11, <1>12, <1>13, PortsTyped
     DEF PendingOnly, PortInvOf, RulesWithOneMore
<1>. QED  BY <1>1, <1>7, <1>12, <1>14, <1>15, <1>16 DEF PortInvOf, NothingOpened, Alive

(* The backend is one of three where a port was opened. *)
LEMMA Backends == FirewallBackend \in {"ufw", "nftables", "iptables", "none"}
<1>. DEFINE order == <<"ufw", "nftables", "iptables">>
            Found == {i \in DOMAIN order : order[i] \in tools}
<1>1. Found \subseteq {1, 2, 3} /\ Found \subseteq Nat
  OBVIOUS
<1>2. ASSUME Found # {}
      PROVE  (CHOOSE i \in Found : \A j \in Found : i <= j) \in Found
  <2>. HIDE DEF Found
  <2>1. \E i \in Found : \A j \in Found : i <= j
    BY <1>1, <1>2, LeastNumber
  <2>. QED  BY <2>1
<1>3. \A i \in {1, 2, 3} : order[i] \in {"ufw", "nftables", "iptables"}
  OBVIOUS
<1>4. FirewallBackend = IF Found = {} THEN "none"
                        ELSE order[CHOOSE i \in Found : \A j \in Found : i <= j]
  BY DEF FirewallBackend, Preferred
<1>. HIDE DEF Found, order
<1>. QED  BY <1>1, <1>2, <1>3, <1>4

(* A step that closes the rule it has come to, or gives it up. *)
LEMMA ClosingPorts ==
    ASSUME PortInv, NEW p \in Procs, pc[p] = "closing", step[p] <= Len(opened[p]),
           NEW port, port = opened[p][step[p]].port,
           UNCHANGED <<tools, opened, pc>>, step'[p] = step[p] + 1,
           NEW k \in Nat, NEW x \in Nat,
           ports' = [ports EXCEPT ![p][port] = k],
           excused' = [excused EXCEPT ![p][port] = x],
           k <= x
    PROVE  /\ PortInvOf(p)'
           /\ ports' \in [Procs -> [PortNames -> Nat]]
           /\ excused' \in [Procs -> [PortNames -> Nat]]
           /\ \A q \in Procs \ {p} : ports'[q] = ports[q] /\ excused'[q] = excused[q]
<1>1. TypeOK /\ PortInvOf(p)
  BY DEF PortInv
<1>2. step[p] \in DOMAIN opened[p] /\ port \in PortNames
  BY <1>1, OpenedTyped
<1>3. /\ ports' \in [Procs -> [PortNames -> Nat]]
      /\ ports'[p][port] = k
      /\ \A name \in PortNames \ {port} : ports'[p][name] = ports[p][name]
      /\ \A q \in Procs \ {p} : ports'[q] = ports[q]
  <2>1. ports \in [Procs -> [PortNames -> Nat]]
    BY <1>1 DEF TypeOK
  <2>. QED  BY <1>2, <2>1, NumberChanged
<1>4. /\ excused' \in [Procs -> [PortNames -> Nat]]
      /\ excused'[p][port] = x
      /\ \A name \in PortNames \ {port} : excused'[p][name] = excused[p][name]
      /\ \A q \in Procs \ {p} : excused'[q] = excused[q]
  <2>1. excused \in [Procs -> [PortNames -> Nat]]
    BY <1>1 DEF TypeOK
  <2>. QED  BY <1>2, <2>1, NumberChanged
<1>5. \A i \in DOMAIN opened[p] : opened[p][i].port = port => i = step[p]
  BY <1>1, <1>2 DEF PortInvOf, OpenedInOrder
<1>6. ~Pending(p, port)'
  BY <1>1, <1>5, OpenedTyped DEF Pending
<1>7. \A name \in PortNames \ {port} : Pending(p, name)' <=> Pending(p, name)
  <2>1. SUFFICES ASSUME NEW name \in PortNames \ {port}, NEW i \in DOMAIN opened[p],
                        opened[p][i].port = name
                 PROVE  step'[p] <= i <=> step[p] <= i
    BY DEF Pending
  <2>2. i # step[p] /\ i \in Nat /\ step[p] \in Nat
    BY <1>1, <2>1, OpenedTyped
  <2>. QED  BY <2>2
<1>8. OpenedInOrder(p)' /\ NothingOpened(p)'
  BY <1>1, SameTools DEF PortInvOf, OpenedInOrder, NothingOpened, Alive
<1>9. PendingThere(p)' /\ PendingOnly(p)'
  BY <1>1, <1>3, <1>4, <1>6, <1>7 DEF PortInvOf, PendingThere, PendingOnly
<1>. QED  BY <1>3, <1>4, <1>8, <1>9 DEF PortInvOf

LEMMA ClosePortPorts ==
    ASSUME PortInv, NEW p \in Procs, ClosePort(p) \/ ClosePortFails(p)
    PROVE  /\ PortInvOf(p)'
           /\ ports' \in [Procs -> [PortNames -> Nat]]
           /\ excused' \in [Procs -> [PortNames -> Nat]]
           /\ \A q \in Procs \ {p} : ports'[q] = ports[q] /\ excused'[q] = excused[q]
<1>. DEFINE rule == opened[p][step[p]]
            port == rule.port
<1>1. TypeOK /\ PortInvOf(p) /\ pc[p] = "closing" /\ step[p] <= Len(opened[p])
      /\ UNCHANGED <<tools, opened>>
  BY DEF PortInv, ClosePort, ClosePortFails
<1>2. pc' = pc /\ step'[p] = step[p] + 1
  BY <1>1, NextStepTyped DEF ClosePort, ClosePortFails
<1>3. step[p] \in DOMAIN opened[p] /\ port \in PortNames /\ rule.handle \in BOOLEAN
  BY <1>1, OpenedTyped
<1>4. Pending(p, port)
  BY <1>1, <1>3, OpenedTyped DEF Pending
<1>5. ports[p][port] \in Nat /\ excused[p][port] \in Nat
  BY <1>1, <1>3, PortsTyped
<1>6. ports[p][port] >= 1 /\ ports[p][port] <= excused[p][port] + 1
  BY <1>1, <1>3, <1>4 DEF PortInvOf, PendingThere, PendingOnly
<1>7. FirewallBackend \in {"ufw", "nftables", "iptables"}
  BY <1>1, <1>3, Backends DEF PortInvOf, OpenedInOrder, Manages
<1>8. ports \in [Procs -> [PortNames -> Nat]] /\ excused \in [Procs -> [PortNames -> Nat]]
  BY <1>1 DEF TypeOK
<1>9. /\ [ports EXCEPT ![p][port] = ports[p][port]] = ports
      /\ [excused EXCEPT ![p][port] = excused[p][port]] = excused
  BY <1>3, <1>8
<1>10. PICK k \in Nat, x \in Nat :
          /\ ports' = [ports EXCEPT ![p][port] = k]
          /\ excused' = [excused EXCEPT ![p][port] = x]
          /\ k <= x
  <2>1. CASE ClosePortFails(p)
    <3>1. ports' = [ports EXCEPT ![p][port] = ports[p][port]]
      BY <1>9, <2>1 DEF ClosePortFails
    <3>2. excused' = [excused EXCEPT ![p][port] = ports[p][port]]
      BY <2>1 DEF ClosePortFails, Excuse
    <3>3. ports[p][port] <= ports[p][port]
      BY <1>5
    <3>. USE <1>5
    <3>. WITNESS ports[p][port] \in Nat, ports[p][port] \in Nat
    <3>. QED  BY <3>1, <3>2, <3>3
  <2>2. CASE ClosePort(p)
    <3>1. ports' = [ports EXCEPT ![p][port] = Deleted(rule, ports[p][port])]
      BY <2>2 DEF ClosePort
    <3>2. CASE FirewallBackend = "nftables" /\ ~rule.handle
      <4>1. excused' = [excused EXCEPT ![p][port] = ports[p][port]]
        BY <2>2, <3>2 DEF ClosePort, Excuse
      <4>2. Deleted(rule, ports[p][port]) = ports[p][port]
        BY <3>2 DEF Deleted
      <4>3. ports[p][port] <= ports[p][port]
        BY <1>5
      <4>. USE <1>5
      <4>. WITNESS ports[p][port] \in Nat, ports[p][port] \in Nat
      <4>. QED  BY <3>1, <4>1, <4>2, <4>3
    <3>3. CASE ~(FirewallBackend = "nftables" /\ ~rule.handle)
      <4>1. excused' = [excused EXCEPT ![p][port] = excused[p][port]]
        BY <1>9, <2>2, <3>3 DEF ClosePort
      <4>2. Deleted(rule, ports[p][port]) \in {0, ports[p][port] - 1}
        BY <1>3, <1>7, <3>3 DEF Deleted
      <4>3. /\ Deleted(rule, ports[p][port]) \in Nat
            /\ Deleted(rule, ports[p][port]) <= excused[p][port]
        BY <1>5, <1>6, <4>2
      <4>. USE <1>5, <4>3
      <4>. WITNESS Deleted(rule, ports[p][port]) \in Nat, excused[p][port] \in Nat
      <4>. QED  BY <3>1, <4>1, <4>3
    <3>. QED  BY <3>2, <3>3
  <2>. QED  BY <2>1, <2>2
<1>. HIDE DEF port
<1>11. port = opened[p][step[p]].port
  BY DEF port
<1>. QED  BY <1>1, <1>2, <1>10, <1>11, ClosingPorts

(* A step of one process. *)
LEMMA OneProcess ==
    ASSUME PortInv, NEW p \in Procs, TypeOK', UNCHANGED tools, PortInvOf(p)',
           \A q \in Procs \ {p} : /\ pc'[q] = pc[q] /\ step'[q] = step[q]
                                 /\ opened'[q] = opened[q] /\ ports'[q] = ports[q]
                                 /\ excused'[q] = excused[q]
    PROVE  PortInv'
<1>1. \A q \in Procs \ {p} : PortInvOf(q)'
  BY Bystander DEF PortInv
<1>. QED  BY <1>1 DEF PortInv

LEMMA ChainTyped ==
    ASSUME NEW rules \in Seq({"accept", "drop"}), NEW i \in DOMAIN GuardRules
    PROVE  /\ RulesWith(rules, GuardRules[i]) \in Seq({"accept", "drop"})
           /\ WithoutFirst(rules, GuardRules[i]) \in Seq({"accept", "drop"})
           /\ <<>> \in Seq({"accept", "drop"})
<1>1. GuardRules[i] \in {"accept", "drop"}
  BY DEF GuardRules
<1>2. <<GuardRules[i]>> \in Seq({"accept", "drop"})
  BY <1>1
<1>3. <<GuardRules[i]>> \o rules \in Seq({"accept", "drop"})
  BY <1>2, ConcatProperties
<1>. QED  BY <1>1, <1>3, AppendProperties, WithoutFirstTyped, EmptySeq DEF RulesWith

(* The process goes on to another phase or command, or changes the echo    *)
(* rules or the lock, as main and the guard do between open and close.     *)
LEMMA GoingOn ==
    ASSUME PortInv, NEW p \in Procs,
           Alive(p), pc[p] # "closing",
           \/ \E phase \in Phases \ {"off", "stopped", "opening"} : MoveTo(p, phase)
           \/ NextStep(p) /\ pc[p] # "opening",
           UNCHANGED <<tools, opened, ports, excused>>,
           guard' \in [Procs -> BOOLEAN], lock' \in Procs \cup {NoFile, Stale},
           chain' \in Seq({"accept", "drop"}), disputed' \in BOOLEAN
    PROVE  PortInv'
<1>1. TypeOK
  BY DEF PortInv
<1>2. /\ pc' \in [Procs -> Phases] /\ step' \in [Procs -> Nat \ {0}]
      /\ pc'[p] \notin {"off", "stopped", "opening"}
      /\ pc'[p] = "closing" => step'[p] = 1
      /\ \A q \in Procs \ {p} : pc'[q] = pc[q] /\ step'[q] = step[q]
  <2>1. CASE \E phase \in Phases \ {"off", "stopped", "opening"} : MoveTo(p, phase)
    BY <1>1, <2>1, MovedTyped
  <2>2. CASE NextStep(p) /\ pc[p] # "opening"
    <3>1. pc' = pc
      BY <2>2 DEF NextStep
    <3>. QED  BY <1>1, <2>2, <3>1, NextStepTyped DEF TypeOK, Alive
  <2>. QED  BY <2>1, <2>2
<1>3. TypeOK'
  BY <1>1, <1>2 DEF TypeOK
<1>4. PortInvOf(p)'
  BY <1>2, PhasePorts
<1>. QED  BY <1>2, <1>3, <1>4, OneProcess

(* The process ends: at a signal, in a crash, or when it cannot listen.    *)
LEMMA Ended ==
    ASSUME PortInv, NEW p \in Procs,
           \/ Gone(p, "off")
           \/ Gone(p, "stopped") /\ pc[p] = "closing" /\ step[p] > Len(opened[p]),
           UNCHANGED <<tools, ports, chain, excused, disputed>>,
           lock' \in Procs \cup {NoFile, Stale}
    PROVE  PortInv'
<1>1. TypeOK
  BY DEF PortInv
<1>2. PICK phase \in {"off", "stopped"} :
         /\ Gone(p, phase)
         /\ phase = "stopped" => pc[p] = "closing" /\ step[p] > Len(opened[p])
  OBVIOUS
<1>3. phase \in Phases
  BY DEF Phases
<1>4. /\ pc' \in [Procs -> Phases] /\ step' \in [Procs -> Nat \ {0}]
      /\ pc'[p] = phase
      /\ \A q \in Procs \ {p} : pc'[q] = pc[q] /\ step'[q] = step[q]
  BY <1>1, <1>2, <1>3, MovedTyped DEF Gone
<1>5. /\ opened' \in [Procs -> Seq(Rule)] /\ guard' \in [Procs -> BOOLEAN]
      /\ opened'[p] = <<>>
      /\ \A q \in Procs \ {p} : opened'[q] = opened[q]
  BY <1>1, <1>2, <1>3, GoneTyped
<1>6. TypeOK'
  BY <1>1, <1>4, <1>5 DEF TypeOK, Rule
<1>7. PortInvOf(p)'
  BY <1>2, <1>4, <1>5, GonePorts
<1>. QED  BY <1>4, <1>5, <1>6, <1>7, OneProcess

LEMMA PortsStep ==
    ASSUME PortInv, NEW p \in Procs,
           \/ Start(p) \/ OpenPort(p) \/ OpenPortFails(p)
           \/ ClosePort(p) \/ ClosePortFails(p)
    PROVE  PortInv'
<1>1. TypeOK
  BY DEF PortInv
<1>2. CASE Start(p)
  <2>1. /\ pc' \in [Procs -> Phases] /\ step' \in [Procs -> Nat \ {0}]
        /\ \A q \in Procs \ {p} : pc'[q] = pc[q] /\ step'[q] = step[q]
    BY <1>1, <1>2, MovedTyped DEF Start, Phases
  <2>2. PortInvOf(p)' /\ excused' \in [Procs -> [PortNames -> Nat]]
    BY <1>2, StartPorts
  <2>3. \A q \in Procs \ {p} : excused'[q] = excused[q]
    BY <1>1, <1>2 DEF Start, TypeOK
  <2>4. UNCHANGED <<tools, opened, guard, lock, ports, chain, disputed>>
    BY <1>2 DEF Start
  <2>5. TypeOK'
    BY <1>1, <2>1, <2>2, <2>4 DEF TypeOK
  <2>. QED  BY <2>1, <2>2, <2>3, <2>4, <2>5, OneProcess
<1>3. CASE OpenPort(p)
  <2>1. /\ pc' = pc /\ step' \in [Procs -> Nat \ {0}]
        /\ \A q \in Procs \ {p} : step'[q] = step[q]
    BY <1>1, <1>3, NextStepTyped DEF OpenPort
  <2>2. /\ PortInvOf(p)'
        /\ opened' \in [Procs -> Seq(Rule)] /\ ports' \in [Procs -> [PortNames -> Nat]]
        /\ \A q \in Procs \ {p} : opened'[q] = opened[q] /\ ports'[q] = ports[q]
    BY <1>3, OpenPortPorts
  <2>3. UNCHANGED <<tools, guard, lock, chain, excused, disputed>>
    BY <1>3 DEF OpenPort
  <2>4. TypeOK'
    BY <1>1, <2>1, <2>2, <2>3 DEF TypeOK, Rule
  <2>. QED  BY <2>1, <2>2, <2>3, <2>4, OneProcess
<1>4. CASE OpenPortFails(p)
  <2>1. /\ pc' = pc /\ step' \in [Procs -> Nat \ {0}] /\ step'[p] = step[p] + 1
        /\ \A q \in Procs \ {p} : step'[q] = step[q]
    BY <1>1, <1>4, NextStepTyped DEF OpenPortFails
  <2>2. UNCHANGED <<tools, opened, guard, lock, ports, chain, excused, disputed>>
        /\ pc[p] = "opening"
    BY <1>4 DEF OpenPortFails
  <2>3. TypeOK'
    BY <1>1, <2>1, <2>2 DEF TypeOK
  <2>4. PortInvOf(p)'
    <3>1. PortInvOf(p) /\ step[p] \in Nat
      BY OpenedTyped DEF PortInv
    <3>2. OpenedInOrder(p)'
      BY <2>1, <2>2, <3>1, SameTools, PortList DEF PortInvOf, OpenedInOrder
    <3>. QED  BY <2>1, <2>2, <3>1, <3>2
              DEF PortInvOf, NothingOpened, PendingThere, PendingOnly, Pending, Alive
  <2>. QED  BY <2>1, <2>2, <2>3, <2>4, OneProcess
<1>5. CASE ClosePort(p) \/ ClosePortFails(p)
  <2>1. /\ pc' = pc /\ step' \in [Procs -> Nat \ {0}]
        /\ \A q \in Procs \ {p} : step'[q] = step[q]
    BY <1>1, <1>5, NextStepTyped DEF ClosePort, ClosePortFails
  <2>2. /\ PortInvOf(p)'
        /\ ports' \in [Procs -> [PortNames -> Nat]]
        /\ excused' \in [Procs -> [PortNames -> Nat]]
        /\ \A q \in Procs \ {p} : ports'[q] = ports[q] /\ excused'[q] = excused[q]
    BY <1>5, ClosePortPorts
  <2>3. UNCHANGED <<tools, opened, guard, lock, chain, disputed>>
    BY <1>5 DEF ClosePort, ClosePortFails
  <2>4. TypeOK'
    BY <1>1, <2>1, <2>2, <2>3 DEF TypeOK
  <2>. QED  BY <2>1, <2>2, <2>3, <2>4, OneProcess
<1>. QED  BY <1>2, <1>3, <1>4, <1>5

LEMMA NextPortInv ==
    ASSUME PortInv, [Next]_vars
    PROVE  PortInv'
<1>1. TypeOK
  BY DEF PortInv
<1>2. CASE UNCHANGED vars
  <2>1. TypeOK'
    BY <1>1, <1>2 DEF vars, TypeOK
  <2>2. \A p \in Procs : PortInvOf(p)'
    BY <1>2, Bystander DEF vars, PortInv
  <2>. QED  BY <2>1, <2>2 DEF PortInv
<1>3. ASSUME NEW p \in Procs,
             \/ Start(p) \/ OpenPort(p) \/ OpenPortFails(p)
             \/ ClosePort(p) \/ ClosePortFails(p)
      PROVE  PortInv'
  BY <1>3, PortsStep
<1>4. ASSUME NEW p \in Procs,
             \/ PortsOpened(p) \/ SkipSetup(p) \/ AddRuleFails(p)
             \/ RulesAdded(p) \/ Bind(p) \/ Signal(p) \/ RemoveRuleFails(p)
             \/ RulesRemoved(p)
      PROVE  PortInv'
  BY <1>1, <1>4, GoingOn
     DEF PortsOpened, SkipSetup, AddRuleFails, RulesAdded, Bind, Signal,
         RemoveRuleFails, RulesRemoved, Alive, Phases, TypeOK
<1>5. ASSUME NEW p \in Procs, AddRule(p) \/ RemoveRules(p)
      PROVE  PortInv'
  <2>1. GuardRules = <<"accept", "drop">> /\ DOMAIN GuardRules = {1, 2}
        /\ Len(GuardRules) = 2
    BY DEF GuardRules
  <2>2. step[p] \in Nat \ {0} /\ chain \in Seq({"accept", "drop"})
    BY <1>1 DEF TypeOK
  <2>3. step[p] <= Len(GuardRules) => step[p] \in DOMAIN GuardRules
    BY <2>1, <2>2
  <2>4. chain' \in Seq({"accept", "drop"})
    BY <1>5, <2>2, <2>3, ChainTyped, EmptySeq DEF AddRule, RemoveRules
  <2>5. \/ \E phase \in Phases \ {"off", "stopped", "opening"} : MoveTo(p, phase)
        \/ NextStep(p)
    BY <1>5 DEF AddRule, RemoveRules, Phases
  <2>6. /\ pc[p] \in {"applying", "removing"}
        /\ UNCHANGED <<tools, opened, guard, lock, ports, excused, disputed>>
    BY <1>5 DEF AddRule, RemoveRules
  <2>. QED  BY <1>1, <2>4, <2>5, <2>6, GoingOn DEF Alive, TypeOK
<1>6. ASSUME NEW p \in Procs, BeginSetup(p) \/ WriteLock(p)
      PROVE  PortInv'
  <2>1. disputed' \in BOOLEAN
    BY <1>6 DEF BeginSetup, WriteLock
  <2>2. guard' \in [Procs -> BOOLEAN] /\ lock' \in Procs \cup {NoFile, Stale}
    BY <1>1, <1>6 DEF BeginSetup, WriteLock, TypeOK
  <2>3. /\ \E phase \in Phases \ {"off", "stopped", "opening"} : MoveTo(p, phase)
        /\ pc[p] \in {"checking", "locking"}
        /\ UNCHANGED <<tools, opened, ports, chain, excused>>
    BY <1>6 DEF BeginSetup, WriteLock, Phases
  <2>. QED  BY <1>1, <2>1, <2>2, <2>3, GoingOn DEF Alive, TypeOK
<1>7. ASSUME NEW p \in Procs, BindFails(p)
      PROVE  PortInv'
  <2>1. CASE guard[p]
    BY <1>1, <1>7, <2>1, GoingOn DEF BindFails, Alive, Phases, TypeOK
  <2>2. CASE ~guard[p]
    BY <1>1, <1>7, <2>2, Ended DEF BindFails, TypeOK
  <2>. QED  BY <2>1, <2>2
<1>8. ASSUME NEW p \in Procs, Unlock(p) \/ Exit(p) \/ Crash(p)
      PROVE  PortInv'
  BY <1>1, <1>8, Ended, LockLeftTyped DEF Unlock, Exit, Crash
<1>. QED  BY <1>2, <1>3, <1>4, <1>5, <1>6, <1>7, <1>8 DEF Next

LEMMA InitPortInv == Init => PortInv
<1>. SUFFICES ASSUME Init PROVE PortInv
  OBVIOUS
<1>0. disputed \in BOOLEAN
  BY DEF Init
<1>1. TypeOK
  BY <1>0, EmptySeq DEF Init, TypeOK, Phases
<1>2. \A p \in Procs : opened[p] = <<>> /\ DOMAIN opened[p] = {} /\ pc[p] = "off"
  BY DEF Init
<1>. QED  BY <1>1, <1>2 DEF PortInv, PortInvOf, OpenedInOrder, NothingOpened,
          PendingThere, PendingOnly, Pending

LEMMA PortInvariant == Spec => []PortInv
<1>1. PortInv /\ [Next]_vars => PortInv'
  BY NextPortInv
<1>. QED  BY <1>1, InitPortInv, PTL DEF Spec

(* The manager's list, the counts of rules and the chain of echo rules     *)
(* keep their types: in particular, close never deletes a rule that is not *)
(* there, whatever failed, crashed or was started twice.                   *)
THEOREM TypeCorrect == Spec => []TypeOK
<1>1. PortInv => TypeOK
  BY DEF PortInv
<1>. QED  BY <1>1, PortInvariant, PTL

(* FirewallManager::close at a signal: every port that open opened is      *)
(* closed, but for the rules it found there, those whose deletion failed   *)
(* and, for nftables, those whose handle was not read.                     *)
THEOREM PortsAreClosed == Spec => []PortsClosed
<1>1. PortInv => PortsClosed
  <2>1. SUFFICES ASSUME PortInv, NEW p \in Procs, pc[p] = "stopped", NEW port \in PortNames
                 PROVE  ports[p][port] <= excused[p][port]
    BY DEF PortsClosed
  <2>2. opened[p] = <<>>
    BY <2>1 DEF PortInv, PortInvOf, NothingOpened, Alive
  <2>3. ~Pending(p, port)
    BY <2>2 DEF Pending
  <2>4. ports[p][port] \in Nat /\ excused[p][port] \in Nat
    BY <2>1, PortsTyped DEF PortInv
  <2>. QED  BY <2>1, <2>3, <2>4 DEF PortInv, PortInvOf, PendingOnly
<1>. QED  BY <1>1, PortInvariant, PTL

-----------------------------------------------------------------------------
(* The owner of the guard. *)

OwnerHoldsLock == \A p \in Procs : guard[p] => lock = p

SetupUnlocked == \A p \in Procs : SettingUp(p) => lock \notin Procs

OneSetup == \A p, q \in Procs : SettingUp(p) /\ SettingUp(q) => p = q

TeardownOwned ==
    \A p \in Procs : pc[p] \in {"removing", "unlocking"} => guard[p]

Shape == pc \in [Procs -> Phases] /\ guard \in [Procs -> BOOLEAN]

Orderly == OwnerHoldsLock /\ SetupUnlocked /\ OneSetup

LockInv ==
    /\ Shape /\ disputed \in BOOLEAN
    /\ TeardownOwned
    /\ ~disputed => Orderly

LEMMA InitLockInv == Init => LockInv
BY DEF Init, LockInv, Shape, Orderly, OwnerHoldsLock, SetupUnlocked, OneSetup,
       TeardownOwned, SettingUp, Phases

(* A process that neither enters nor leaves the setup or the teardown, nor *)
(* touches the lock, preserves the invariant.                              *)
LEMMA PhaseChange ==
    ASSUME LockInv, NEW p \in Procs, NEW phase \in Phases,
           pc' = [pc EXCEPT ![p] = phase], UNCHANGED <<guard, lock, disputed>>,
           phase \in {"applying", "locking"} => SettingUp(p),
           phase \in {"removing", "unlocking"} => guard[p]
    PROVE  LockInv'
BY DEF LockInv, Shape, Orderly, OwnerHoldsLock, SetupUnlocked, OneSetup,
       TeardownOwned, SettingUp

(* The end of a process whose lock, if it had it, is left stale.           *)
LEMMA Ending ==
    ASSUME LockInv, NEW p \in Procs, NEW phase \in {"off", "stopped"},
           Gone(p, phase), UNCHANGED disputed,
           \/ LockLeft(p)
           \/ UNCHANGED lock /\ ~guard[p]
           \/ lock' = NoFile /\ guard[p]
    PROVE  LockInv'
BY LockAssumption
   DEF LockInv, Shape, Orderly, OwnerHoldsLock, SetupUnlocked, OneSetup,
       TeardownOwned, SettingUp, Gone, MoveTo, LockLeft, Phases

LEMMA NextLockInv ==
    ASSUME LockInv, [Next]_vars
    PROVE  LockInv'
<1>1. CASE UNCHANGED vars
  BY <1>1 DEF vars, LockInv, Shape, Orderly, OwnerHoldsLock, SetupUnlocked, OneSetup,
              TeardownOwned, SettingUp
<1>2. ASSUME NEW p \in Procs, Start(p)
      PROVE  LockInv'
  BY <1>2, PhaseChange DEF Start, MoveTo, Phases
<1>3. ASSUME NEW p \in Procs,
             OpenPort(p) \/ OpenPortFails(p) \/ ClosePort(p) \/ ClosePortFails(p)
      PROVE  LockInv'
  BY <1>3 DEF OpenPort, OpenPortFails, ClosePort, ClosePortFails, NextStep,
              LockInv, Shape, Orderly, OwnerHoldsLock, SetupUnlocked, OneSetup,
              TeardownOwned, SettingUp
<1>4. ASSUME NEW p \in Procs, PortsOpened(p) \/ SkipSetup(p)
      PROVE  LockInv'
  BY <1>4, PhaseChange DEF PortsOpened, SkipSetup, MoveTo, Phases
<1>5. ASSUME NEW p \in Procs, BeginSetup(p)
      PROVE  LockInv'
  <2>1. /\ pc' = [pc EXCEPT ![p] = "applying"] /\ UNCHANGED <<guard, lock>>
        /\ lock \notin Procs /\ pc[p] = "checking" /\ "applying" \in Phases
    BY <1>5 DEF BeginSetup, LockIsHeld, MoveTo, Phases
  <2>2. Shape' /\ TeardownOwned'
    BY <2>1 DEF LockInv, Shape, TeardownOwned
  <2>3. disputed' <=> \/ \E q \in Procs : SettingUp(q)
                      \/ disputed /\ \E q \in Procs : guard[q]
    BY <1>5 DEF BeginSetup
  <2>4. disputed' \in BOOLEAN
    BY <1>5 DEF BeginSetup
  <2>5. ASSUME ~disputed'
        PROVE  Orderly'
    <3>1. \A q \in Procs : ~SettingUp(q)
      BY <2>3, <2>5
    <3>2. \A q \in Procs : guard[q] => lock = q
      BY <2>3, <2>5 DEF LockInv, Orderly, OwnerHoldsLock
    <3>3. \A q \in Procs : SettingUp(q)' => q = p
      BY <2>1, <3>1 DEF LockInv, Shape, SettingUp
    <3>. QED  BY <2>1, <3>2, <3>3 DEF Orderly, OwnerHoldsLock, SetupUnlocked, OneSetup
  <2>. QED  BY <2>2, <2>4, <2>5 DEF LockInv
<1>6. ASSUME NEW p \in Procs, AddRule(p)
      PROVE  LockInv'
  BY <1>6 DEF AddRule, NextStep, LockInv, Shape, Orderly, OwnerHoldsLock,
              SetupUnlocked, OneSetup, TeardownOwned, SettingUp
<1>7. ASSUME NEW p \in Procs, AddRuleFails(p) \/ RulesAdded(p)
      PROVE  LockInv'
  BY <1>7, PhaseChange DEF AddRuleFails, RulesAdded, MoveTo, SettingUp, Phases
<1>8. ASSUME NEW p \in Procs, WriteLock(p)
      PROVE  LockInv'
  <2>1. /\ pc' = [pc EXCEPT ![p] = "binding"] /\ guard' = [guard EXCEPT ![p] = TRUE]
        /\ pc[p] = "locking" /\ "binding" \in Phases
    BY <1>8 DEF WriteLock, MoveTo, Phases
  <2>2. Shape' /\ TeardownOwned'
    BY <2>1 DEF LockInv, Shape, TeardownOwned
  <2>3. (disputed' <=> disputed \/ lock' # p) /\ disputed' \in BOOLEAN
    BY <1>8 DEF WriteLock
  <2>4. ASSUME ~disputed'
        PROVE  Orderly'
    <3>1. Orderly /\ lock' = p
      BY <2>3, <2>4 DEF LockInv
    <3>2. \A q \in Procs : ~guard[q]
      BY <2>1, <3>1 DEF Orderly, OwnerHoldsLock, SetupUnlocked, SettingUp
    <3>3. \A q \in Procs : ~SettingUp(q)'
      BY <2>1, <3>1 DEF LockInv, Shape, Orderly, OneSetup, SettingUp
    <3>. QED  BY <2>1, <3>1, <3>2, <3>3
              DEF LockInv, Shape, Orderly, OwnerHoldsLock, SetupUnlocked, OneSetup
  <2>. QED  BY <2>2, <2>3, <2>4 DEF LockInv
<1>9. ASSUME NEW p \in Procs, Bind(p) \/ Signal(p) \/ RulesRemoved(p)
      PROVE  LockInv'
  BY <1>9, PhaseChange
     DEF Bind, Signal, RulesRemoved, MoveTo, Phases, LockInv, TeardownOwned
<1>10. ASSUME NEW p \in Procs, BindFails(p)
       PROVE  LockInv'
  <2>1. CASE guard[p]
    BY <1>10, <2>1, PhaseChange DEF BindFails, MoveTo, Phases
  <2>2. CASE ~guard[p]
    BY <1>10, <2>2, Ending DEF BindFails
  <2> QED
    BY <2>1, <2>2
<1>11. ASSUME NEW p \in Procs, RemoveRules(p) \/ RemoveRuleFails(p)
       PROVE  LockInv'
  <2>1. guard[p] /\ UNCHANGED <<guard, lock, disputed>>
    BY <1>11 DEF RemoveRules, RemoveRuleFails, LockInv, TeardownOwned
  <2>2. CASE UNCHANGED pc
    BY <2>1, <2>2 DEF LockInv, Shape, Orderly, OwnerHoldsLock, SetupUnlocked, OneSetup,
                      TeardownOwned, SettingUp
  <2>3. CASE MoveTo(p, "unlocking")
    BY <2>1, <2>3, PhaseChange DEF MoveTo, Phases
  <2> QED
    BY <1>11, <2>2, <2>3 DEF RemoveRules, RemoveRuleFails, NextStep
<1>12. ASSUME NEW p \in Procs, Unlock(p)
       PROVE  LockInv'
  BY <1>12, Ending DEF Unlock, LockInv, TeardownOwned
<1>13. ASSUME NEW p \in Procs, Exit(p) \/ Crash(p)
       PROVE  LockInv'
  BY <1>13, Ending DEF Exit, Crash
<1> QED
  BY <1>1, <1>2, <1>3, <1>4, <1>5, <1>6, <1>7, <1>8, <1>9, <1>10, <1>11,
     <1>12, <1>13 DEF Next

-----------------------------------------------------------------------------
(* The rules of the owner. *)

InChain(rule) == \E i \in DOMAIN chain : chain[i] = rule

Protecting(p) ==
    \/ pc[p] = "locking"
    \/ guard[p] /\ pc[p] \in {"binding", "serving", "closing"}

GuardPhases(p) ==
    guard[p] => pc[p] \in {"binding", "serving", "closing", "removing", "unlocking"}

(* A setup adds one rule after the other, and an owner keeps both. *)
RulesInPlace(p) ==
    /\ pc[p] = "applying" =>
          \A i \in DOMAIN GuardRules : i < step[p] => InChain(GuardRules[i])
    /\ Protecting(p) => InChain("accept") /\ InChain("drop")

ProtectionInv ==
    \A p \in Procs : GuardPhases(p) /\ (~disputed => RulesInPlace(p))

GuardInv == PortInv /\ LockInv /\ ProtectionInv

LEMMA RuleList ==
    /\ DOMAIN GuardRules = {1, 2} /\ Len(GuardRules) = 2
    /\ GuardRules[1] = "accept" /\ GuardRules[2] = "drop"
BY DEF GuardRules

LEMMA RulesWithHas ==
    ASSUME NEW S, NEW rules \in Seq(S), NEW rule \in S
    PROVE  /\ \A i \in DOMAIN rules :
                 \E j \in DOMAIN RulesWith(rules, rule) : RulesWith(rules, rule)[j] = rules[i]
           /\ \E j \in DOMAIN RulesWith(rules, rule) : RulesWith(rules, rule)[j] = rule
<1>1. CASE GuardBackend = "iptables"
  <2>1. <<rule>> \in Seq(S) /\ Len(<<rule>>) = 1 /\ <<rule>>[1] = rule
    OBVIOUS
  <2>. DEFINE after == <<rule>> \o rules
  <2>2. /\ after \in Seq(S) /\ Len(after) = 1 + Len(rules) /\ Len(rules) \in Nat
        /\ \A i \in 1 .. 1 + Len(rules) :
              after[i] = IF i <= 1 THEN <<rule>>[i] ELSE rules[i - 1]
    BY <2>1, ConcatProperties
  <2>3. RulesWith(rules, rule) = after
    BY <1>1 DEF RulesWith
  <2>. HIDE DEF after
  <2>4. after[1] = rule /\ 1 \in DOMAIN after
    BY <2>1, <2>2
  <2>5. \A i \in DOMAIN rules : i + 1 \in DOMAIN after /\ after[i + 1] = rules[i]
    BY <2>2
  <2>. QED  BY <2>3, <2>4, <2>5
<1>2. CASE GuardBackend # "iptables"
  <2>. DEFINE after == Append(rules, rule)
  <2>1. /\ after \in Seq(S) /\ Len(after) = Len(rules) + 1 /\ Len(rules) \in Nat
        /\ \A i \in 1 .. Len(rules) : after[i] = rules[i]
        /\ after[Len(rules) + 1] = rule
    BY AppendProperties
  <2>2. RulesWith(rules, rule) = after
    BY <1>2 DEF RulesWith
  <2>. HIDE DEF after
  <2>3. Len(rules) + 1 \in DOMAIN after /\ \A i \in DOMAIN rules : i \in DOMAIN after
    BY <2>1
  <2>. QED  BY <2>1, <2>2, <2>3
<1>. QED  BY <1>1, <1>2

(* A step of one process that takes no echo rule away. *)
LEMMA RulesKept ==
    ASSUME GuardInv, NEW p \in Procs,
           \A rule : InChain(rule) => InChain(rule)',
           \A q \in Procs \ {p} : /\ pc'[q] = pc[q] /\ step'[q] = step[q]
                                 /\ guard'[q] = guard[q],
           ~disputed' => ~disputed, GuardPhases(p)', ~disputed' => RulesInPlace(p)'
    PROVE  ProtectionInv'
BY DEF GuardInv, ProtectionInv, GuardPhases, RulesInPlace, Protecting

(* A process that goes on to a phase in which it keeps what it protects.   *)
LEMMA ProtectionMoves ==
    ASSUME GuardInv, NEW p \in Procs, NEW phase \in Phases, MoveTo(p, phase),
           ~disputed' => ~disputed, UNCHANGED chain, guard' \in [Procs -> BOOLEAN],
           \A q \in Procs \ {p} : guard'[q] = guard[q],
           guard'[p] => phase \in {"binding", "serving", "closing", "removing", "unlocking"},
           ~disputed /\ phase = "locking" => InChain("accept") /\ InChain("drop"),
           guard'[p] /\ phase \in {"binding", "serving", "closing"} => Protecting(p)
    PROVE  ProtectionInv'
<1>1. /\ pc'[p] = phase /\ step'[p] = 1
      /\ \A q \in Procs \ {p} : pc'[q] = pc[q] /\ step'[q] = step[q]
  BY MovedTyped DEF GuardInv, PortInv
<1>2. \A rule : InChain(rule)' <=> InChain(rule)
  BY DEF InChain
<1>3. GuardPhases(p)'
  BY <1>1 DEF GuardPhases
<1>4. ~disputed' => RulesInPlace(p)'
  BY <1>1, <1>2, RuleList DEF RulesInPlace, Protecting, GuardInv, ProtectionInv
<1>. QED  BY <1>1, <1>2, <1>3, <1>4, RulesKept

LEMMA NextProtection ==
    ASSUME GuardInv, [Next]_vars
    PROVE  ProtectionInv'
<1>. USE DEF GuardInv
<1>1. TypeOK /\ ProtectionInv
  BY DEF PortInv
<1>2. CASE UNCHANGED vars
  BY <1>1, <1>2 DEF vars, ProtectionInv, GuardPhases, RulesInPlace, Protecting, InChain
<1>3. ASSUME NEW p \in Procs,
             Start(p) \/ PortsOpened(p) \/ SkipSetup(p) \/ AddRuleFails(p)
      PROVE  ProtectionInv'
  <2>1. ~guard[p]
    BY <1>1, <1>3 DEF Start, PortsOpened, SkipSetup, AddRuleFails, Alive,
                      ProtectionInv, GuardPhases
  <2>2. PICK phase \in Phases \ {"locking"} : MoveTo(p, phase)
    BY <1>3 DEF Start, PortsOpened, SkipSetup, AddRuleFails, Phases
  <2>3. UNCHANGED <<guard, chain, disputed>>
    BY <1>3 DEF Start, PortsOpened, SkipSetup, AddRuleFails
  <2>. QED  BY <1>1, <2>1, <2>2, <2>3, ProtectionMoves DEF TypeOK
<1>4. ASSUME NEW p \in Procs,
             OpenPort(p) \/ OpenPortFails(p) \/ ClosePort(p) \/ ClosePortFails(p)
      PROVE  ProtectionInv'
  <2>1. /\ UNCHANGED <<pc, guard, chain, disputed>> /\ pc[p] # "applying"
        /\ \A q \in Procs \ {p} : step'[q] = step[q]
    BY <1>1, <1>4, NextStepTyped
       DEF OpenPort, OpenPortFails, ClosePort, ClosePortFails
  <2>. QED  BY <1>1, <2>1
            DEF ProtectionInv, GuardPhases, RulesInPlace, Protecting, InChain
<1>5. ASSUME NEW p \in Procs, AddRule(p)
      PROVE  ProtectionInv'
  <2>1. /\ pc' = pc /\ guard' = guard /\ pc[p] = "applying" /\ step'[p] = step[p] + 1
        /\ disputed' = disputed
        /\ \A q \in Procs \ {p} : step'[q] = step[q]
    BY <1>1, <1>5, NextStepTyped DEF AddRule
  <2>2. PICK k \in DOMAIN GuardRules : step[p] = k /\ chain' = RulesWith(chain, GuardRules[k])
    <3>1. step[p] \in Nat \ {0} /\ step[p] <= 2
      BY <1>1, <1>5, RuleList DEF AddRule, TypeOK
    <3>2. step[p] \in {1, 2}
      BY <3>1
    <3>. QED  BY <1>5, <3>2, RuleList DEF AddRule
  <2>3. GuardRules[k] \in {"accept", "drop"} /\ chain \in Seq({"accept", "drop"})
    BY <1>1, RuleList DEF TypeOK
  <2>4. \A rule : InChain(rule) => InChain(rule)'
    BY <2>2, <2>3, RulesWithHas DEF InChain
  <2>5. InChain(GuardRules[k])'
    BY <2>2, <2>3, RulesWithHas DEF InChain
  <2>6. GuardPhases(p)'
    BY <1>1, <2>1 DEF ProtectionInv, GuardPhases
  <2>7. ASSUME ~disputed'
        PROVE  RulesInPlace(p)'
    <3>1. \A i \in DOMAIN GuardRules : i < k => InChain(GuardRules[i])'
      BY <1>1, <2>7, <2>1, <2>2, <2>4 DEF ProtectionInv, RulesInPlace
    <3>2. \A i \in DOMAIN GuardRules : i < k + 1 => i < k \/ i = k
      BY <2>2, RuleList
    <3>3. ~Protecting(p)'
      BY <1>1, <2>1 DEF Protecting, ProtectionInv, GuardPhases
    <3>. QED  BY <2>1, <2>2, <2>5, <3>1, <3>2, <3>3 DEF RulesInPlace
  <2>. QED  BY <2>1, <2>4, <2>6, <2>7, RulesKept
<1>6. ASSUME NEW p \in Procs, RulesAdded(p)
      PROVE  ProtectionInv'
  <2>1. ~guard[p] /\ UNCHANGED <<guard, chain, disputed>> /\ MoveTo(p, "locking")
    BY <1>1, <1>6 DEF RulesAdded, ProtectionInv, GuardPhases
  <2>2. ~disputed => InChain("accept") /\ InChain("drop")
    BY <1>1, <1>6, RuleList DEF RulesAdded, ProtectionInv, RulesInPlace, TypeOK
  <2>. QED  BY <1>1, <2>1, <2>2, ProtectionMoves DEF Phases, TypeOK
<1>7. ASSUME NEW p \in Procs, WriteLock(p)
      PROVE  ProtectionInv'
  <2>1. Protecting(p) /\ MoveTo(p, "binding") /\ guard' = [guard EXCEPT ![p] = TRUE]
        /\ UNCHANGED chain /\ (~disputed' => ~disputed)
    BY <1>7 DEF WriteLock, Protecting
  <2>. QED  BY <1>1, <2>1, ProtectionMoves DEF Phases, TypeOK
<1>8. ASSUME NEW p \in Procs, Bind(p) \/ Signal(p) \/ RulesRemoved(p)
      PROVE  ProtectionInv'
  <2>1. PICK phase \in {"serving", "closing", "unlocking"} :
           /\ MoveTo(p, phase)
           /\ phase # "unlocking" => pc[p] \in {"binding", "serving"}
    BY <1>8 DEF Bind, Signal, RulesRemoved
  <2>2. UNCHANGED <<guard, chain, disputed>>
    BY <1>8 DEF Bind, Signal, RulesRemoved
  <2>. QED  BY <1>1, <2>1, <2>2, ProtectionMoves DEF Phases, TypeOK, Protecting
<1>9. ASSUME NEW p \in Procs, NEW phase \in {"off", "stopped"}, Gone(p, phase), UNCHANGED <<chain, disputed>>
      PROVE  ProtectionInv'
  <2>1. MoveTo(p, phase) /\ guard' = [guard EXCEPT ![p] = FALSE]
    BY <1>9 DEF Gone
  <2>. QED  BY <1>1, <1>9, <2>1, ProtectionMoves DEF Phases, TypeOK
<1>10. ASSUME NEW p \in Procs, BindFails(p)
       PROVE  ProtectionInv'
  <2>1. CASE guard[p]
    BY <1>1, <1>10, <2>1, ProtectionMoves DEF BindFails, Phases, TypeOK
  <2>2. CASE ~guard[p]
    BY <1>9, <1>10, <2>2 DEF BindFails
  <2>. QED  BY <2>1, <2>2
<1>11. ASSUME NEW p \in Procs, Unlock(p) \/ Exit(p) \/ Crash(p)
       PROVE  ProtectionInv'
  BY <1>9, <1>11 DEF Unlock, Exit, Crash
(* Only an owner takes rules away; when nothing is disputed, nobody else   *)
(* owns the guard or sets it up.                                           *)
<1>12. ASSUME NEW p \in Procs, RemoveRules(p) \/ RemoveRuleFails(p)
       PROVE  ProtectionInv'
  <2>1. guard[p] /\ guard' = guard /\ disputed' = disputed
    BY <1>12 DEF RemoveRules, RemoveRuleFails, LockInv, TeardownOwned
  <2>2. ~disputed => \A q \in Procs \ {p} : ~guard[q] /\ ~SettingUp(q)
    BY <2>1 DEF LockInv, Orderly, OwnerHoldsLock, SetupUnlocked
  <2>3. /\ pc'[p] \in {"removing", "unlocking"}
        /\ \A q \in Procs \ {p} : pc'[q] = pc[q]
    BY <1>1, <1>12 DEF RemoveRules, RemoveRuleFails, MoveTo, NextStep, TypeOK
  <2>. QED  BY <1>1, <2>1, <2>2, <2>3
            DEF ProtectionInv, GuardPhases, RulesInPlace, Protecting, SettingUp
(* Without owners and other setups, there is nothing yet to protect.       *)
<1>13. ASSUME NEW p \in Procs, BeginSetup(p)
       PROVE  ProtectionInv'
  <2>1. /\ UNCHANGED <<guard, chain>> /\ pc'[p] = "applying" /\ step'[p] = 1
        /\ \A q \in Procs \ {p} : pc'[q] = pc[q] /\ step'[q] = step[q]
    BY <1>1, <1>13, MovedTyped DEF BeginSetup, Phases
  <2>2. ~guard[p]
    BY <1>1, <1>13 DEF BeginSetup, ProtectionInv, GuardPhases
  <2>3. \A q \in Procs : GuardPhases(q)'
    BY <1>1, <2>1, <2>2 DEF ProtectionInv, GuardPhases
  <2>4. ASSUME ~disputed'
        PROVE  /\ \A q \in Procs : ~SettingUp(q)
               /\ ~disputed \/ \A q \in Procs : ~guard[q]
    BY <1>13, <2>4 DEF BeginSetup
  <2>5. RulesInPlace(p)'
    BY <2>1, <2>2, RuleList DEF RulesInPlace, Protecting
  <2>6. ASSUME ~disputed', NEW q \in Procs \ {p}
        PROVE  RulesInPlace(q)'
    <3>1. ~SettingUp(q) /\ (~disputed \/ ~guard[q])
      BY <2>4, <2>6
    <3>. QED  BY <1>1, <2>1, <3>1
              DEF ProtectionInv, RulesInPlace, Protecting, InChain, SettingUp
  <2>. QED  BY <2>3, <2>5, <2>6 DEF ProtectionInv
<1>. QED  BY <1>2, <1>3, <1>4, <1>5, <1>6, <1>7, <1>8, <1>10, <1>11, <1>12,
          <1>13 DEF Next

(* Nothing else than its own teardown takes the rules of the guard away    *)
(* from the process that serves as its owner: the processes that leave,    *)
(* crash or start again do not.  Nothing is claimed from a setup that      *)
(* overlaps another, or a lock file that was not written, until the owners *)
(* of then are gone.                                                       *)
THEOREM OwnerIsProtected == Spec => []OwnerProtected
<1>1. Init => GuardInv
  <2>1. Init => ProtectionInv
    BY DEF Init, ProtectionInv, GuardPhases, RulesInPlace, Protecting
  <2>. QED  BY <2>1, InitPortInv, InitLockInv DEF GuardInv
<1>2. GuardInv /\ [Next]_vars => GuardInv'
  BY NextPortInv, NextLockInv, NextProtection DEF GuardInv
<1>3. GuardInv => OwnerProtected
  BY DEF GuardInv, ProtectionInv, RulesInPlace, Protecting, InChain, OwnerProtected
<1>. QED  BY <1>1, <1>2, <1>3, PTL DEF Spec
=============================================================================
