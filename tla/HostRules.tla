----------------------------- MODULE HostRules -----------------------------
(***************************************************************************)
(* The packet filter of the host, as the processes on it change it: the    *)
(* FirewallManager (src/src/firewall/backend.rs) opens the ports of a      *)
(* process, the IcmpGuard (src/src/icmp_guard/mod.rs) limits echo requests *)
(* for all of them, and src/src/main.rs calls both when it starts and one  *)
(* of them when it is told to stop.                                        *)
(*                                                                         *)
(* Processes listen on ports of their own.  A process that starts again    *)
(* has a new process id, so a lock left by its earlier life is stale.      *)
(***************************************************************************)
EXTENDS Integers, Sequences

CONSTANTS
    Hosts,          \* the firewalls hosts have (ufw: installed and active)
    Procs,          \* the processes that share the guard
    Unprotected,    \* those configured with icmp_protection = false
    Unmanaged,      \* those configured with firewall_manage = false
    NoFile, Stale,  \* the lock file is absent, or names a process that ended
    MaxRules,       \* bounds on the rules for a port, and on those for echo
    MaxEchoRules    \* requests, when a process starts

ASSUME HostAssumption == Hosts \subseteq SUBSET {"ufw", "nftables", "iptables"}

ASSUME ConfigAssumption == Unprotected \cup Unmanaged \subseteq Procs

ASSUME LockAssumption == NoFile \notin Procs /\ Stale \notin Procs

ASSUME BoundAssumption == MaxRules \in Nat /\ MaxEchoRules \in Nat

VARIABLES
    tools,    \* the firewalls of this host
    pc,       \* what each process is doing
    step,     \* the command it issues next
    opened,   \* FirewallManager.opened
    guard,    \* IcmpGuard.is_owner
    lock,     \* /var/run/icmp_guard.pid
    ports,    \* process -> port -> rules that open it
    chain,    \* the rules for echo requests, in their order
    excused,  \* history: the rules for its ports that a process found when
              \* it started, or could not delete
    disputed  \* history: two processes set the guard up at the same time, or
              \* an owner could not write the lock, and not all of them are
              \* gone

vars == <<tools, pc, step, opened, guard, lock, ports, chain, excused, disputed>>

(* main.rs asks for the two ports in this order. *)
Ports == <<"mysql_port", "webui_port">>

PortNames == {"mysql_port", "webui_port"}

Phases == {"off", "opening", "checking", "applying", "locking", "binding",
           "serving", "closing", "removing", "unlocking", "stopped"}

TypeOK ==
    /\ tools \in Hosts
    /\ pc \in [Procs -> Phases]
    /\ step \in [Procs -> Nat \ {0}]
    /\ opened \in [Procs -> Seq([port : PortNames, handle : BOOLEAN])]
    /\ guard \in [Procs -> BOOLEAN]
    /\ lock \in Procs \cup {NoFile, Stale}
    /\ ports \in [Procs -> [PortNames -> Nat]]
    /\ chain \in Seq({"accept", "drop"})
    /\ excused \in [Procs -> [PortNames -> Nat]]
    /\ disputed \in BOOLEAN

-----------------------------------------------------------------------------
(* The first of them that the host has. *)
Preferred(order) ==
    LET Found == {i \in DOMAIN order : order[i] \in tools}
    IN  IF Found = {} THEN "none"
        ELSE order[CHOOSE i \in Found : \A j \in Found : i <= j]

(* Backend::detect of the firewall, and detect_backend of the guard. *)
FirewallBackend == Preferred(<<"ufw", "nftables", "iptables">>)

GuardBackend == Preferred(<<"nftables", "iptables">>)

(* FirewallManager::new without firewall_manage has no backend, either.    *)
Manages(p) == p \notin Unmanaged /\ FirewallBackend # "none"

Alive(p) == pc[p] \notin {"off", "stopped"}

MoveTo(p, phase) ==
    /\ pc' = [pc EXCEPT ![p] = phase]
    /\ step' = [step EXCEPT ![p] = 1]

NextStep(p) ==
    /\ step' = [step EXCEPT ![p] = @ + 1]
    /\ UNCHANGED pc

(* What the process remembers is lost. *)
Gone(p, phase) ==
    /\ MoveTo(p, phase)
    /\ opened' = [opened EXCEPT ![p] = <<>>]
    /\ guard' = [guard EXCEPT ![p] = FALSE]

(* A lock file it leaves names a process id that is no process any more.   *)
LockLeft(p) == lock' = IF lock = p THEN Stale ELSE lock

Start(p) ==
    /\ ~Alive(p)
    /\ \A port \in PortNames : ports[p][port] <= MaxRules
    /\ Len(chain) <= MaxEchoRules
    /\ MoveTo(p, "opening")
    /\ excused' = [excused EXCEPT ![p] = ports[p]]
    /\ UNCHANGED <<tools, opened, guard, lock, ports, chain, disputed>>

-----------------------------------------------------------------------------
(* FirewallManager::open: a port that cannot be opened is passed over. *)

(* `ufw allow' of what is allowed changes nothing, the others add a rule. *)
RulesWithOneMore(k) == IF FirewallBackend = "ufw" THEN 1 ELSE k + 1

OpenPort(p) ==
    /\ pc[p] = "opening"
    /\ Manages(p)
    /\ step[p] <= Len(Ports)
    /\ \E handle \in BOOLEAN :
          /\ handle => FirewallBackend = "nftables"
          /\ opened' = [opened EXCEPT ![p] =
                          Append(@, [port |-> Ports[step[p]], handle |-> handle])]
    /\ ports' = [ports EXCEPT ![p][Ports[step[p]]] = RulesWithOneMore(@)]
    /\ NextStep(p)
    /\ UNCHANGED <<tools, guard, lock, chain, excused, disputed>>

(* Mutant: a rule is remembered before the command is known to have worked. *)
OpenPortFailsTracked(p) ==
    /\ pc[p] = "opening"
    /\ Manages(p)
    /\ step[p] <= Len(Ports)
    /\ opened' = [opened EXCEPT ![p] =
                    Append(@, [port |-> Ports[step[p]], handle |-> FALSE])]
    /\ NextStep(p)
    /\ UNCHANGED <<tools, guard, lock, ports, chain, excused, disputed>>

OpenPortFails(p) ==
    /\ pc[p] = "opening"
    /\ Manages(p)
    /\ step[p] <= Len(Ports)
    /\ NextStep(p)
    /\ UNCHANGED <<tools, opened, guard, lock, ports, chain, excused, disputed>>

PortsOpened(p) ==
    /\ pc[p] = "opening"
    /\ ~Manages(p) \/ step[p] > Len(Ports)
    /\ MoveTo(p, "checking")
    /\ UNCHANGED <<tools, opened, guard, lock, ports, chain, excused, disputed>>

-----------------------------------------------------------------------------
(* IcmpGuard::setup. *)

(* Mutant: the process id is looked for where the file does not have it.   *)
LockUnparsed == FALSE

(* lock_is_held: the process id in the file is that of a process. *)
LockIsHeld == lock \in Procs

SettingUp(p) == pc[p] \in {"applying", "locking"}

SkipSetup(p) ==
    /\ pc[p] = "checking"
    /\ p \in Unprotected \/ LockIsHeld \/ GuardBackend = "none"
    /\ MoveTo(p, "binding")
    /\ UNCHANGED <<tools, opened, guard, lock, ports, chain, excused, disputed>>

(* Between this check and write_lock, others find no lock, either. *)
BeginSetup(p) ==
    /\ pc[p] = "checking"
    /\ p \notin Unprotected /\ ~LockIsHeld /\ GuardBackend # "none"
    /\ MoveTo(p, "applying")
    /\ disputed' = \/ \E q \in Procs : SettingUp(q)
                   \/ disputed /\ \E q \in Procs : guard[q]
    /\ UNCHANGED <<tools, opened, guard, lock, ports, chain, excused>>

(* The rules apply_rules adds and remove_rules deletes, in their order: the *)
(* one accepts what is within the rate, the other drops the rest.          *)
GuardRules == <<"accept", "drop">>

(* `iptables -I' puts a rule before the others, `nft add rule' after them. *)
RulesWith(rules, rule) ==
    IF GuardBackend = "iptables" THEN <<rule>> \o rules
    ELSE Append(rules, rule)

AddRule(p) ==
    /\ pc[p] = "applying"
    /\ step[p] <= Len(GuardRules)
    /\ chain' = RulesWith(chain, GuardRules[step[p]])
    /\ NextStep(p)
    /\ UNCHANGED <<tools, opened, guard, lock, ports, excused, disputed>>

(* The setup is given up, the rule added before the failure stays. *)
AddRuleFails(p) ==
    /\ pc[p] = "applying"
    /\ step[p] <= Len(GuardRules)
    /\ MoveTo(p, "binding")
    /\ UNCHANGED <<tools, opened, guard, lock, ports, chain, excused, disputed>>

RulesAdded(p) ==
    /\ pc[p] = "applying"
    /\ step[p] > Len(GuardRules)
    /\ MoveTo(p, "locking")
    /\ UNCHANGED <<tools, opened, guard, lock, ports, chain, excused, disputed>>

(* The process owns the guard whether or not write_lock could write. *)
WriteLock(p) ==
    /\ pc[p] = "locking"
    /\ lock' \in {p, lock}
    /\ disputed' = (disputed \/ lock' # p)
    /\ guard' = [guard EXCEPT ![p] = TRUE]
    /\ MoveTo(p, "binding")
    /\ UNCHANGED <<tools, opened, ports, chain, excused>>

-----------------------------------------------------------------------------
(* async_main, once the guard is set up. *)

Bind(p) ==
    /\ pc[p] = "binding"
    /\ MoveTo(p, "serving")
    /\ UNCHANGED <<tools, opened, guard, lock, ports, chain, excused, disputed>>

(* A listener's port is taken: async_main returns and drops the guard, not *)
(* the manager's rules.                                                    *)
BindFails(p) ==
    /\ pc[p] = "binding"
    /\ IF guard[p]
       THEN MoveTo(p, "removing") /\ UNCHANGED <<opened, guard>>
       ELSE Gone(p, "off")
    /\ UNCHANGED <<tools, lock, ports, chain, excused, disputed>>

(* Termination signal.  The task that waits for it is spawned before the   *)
(* listeners are bound.                                                    *)
Signal(p) ==
    /\ pc[p] \in {"binding", "serving"}
    /\ MoveTo(p, "closing")
    /\ UNCHANGED <<tools, opened, guard, lock, ports, chain, excused, disputed>>

(* FirewallManager::close: a rule of nftables goes by its handle. *)
Deleted(rule, k) ==
    CASE FirewallBackend = "ufw"      -> 0
      [] FirewallBackend = "nftables" -> IF rule.handle THEN k - 1 ELSE k
      [] FirewallBackend = "iptables" -> k - 1

Excuse(p, port) == excused' = [excused EXCEPT ![p][port] = ports[p][port]]

ClosePort(p) ==
    /\ pc[p] = "closing"
    /\ step[p] <= Len(opened[p])
    /\ LET rule == opened[p][step[p]] IN
          /\ ports' = [ports EXCEPT ![p][rule.port] = Deleted(rule, @)]
          /\ IF FirewallBackend = "nftables" /\ ~rule.handle
             THEN Excuse(p, rule.port)
             ELSE UNCHANGED excused
    /\ NextStep(p)
    /\ UNCHANGED <<tools, opened, guard, lock, chain, disputed>>

ClosePortFails(p) ==
    /\ pc[p] = "closing"
    /\ step[p] <= Len(opened[p])
    /\ Excuse(p, opened[p][step[p]].port)
    /\ NextStep(p)
    /\ UNCHANGED <<tools, opened, guard, lock, ports, chain, disputed>>

(* Mutant: the exit does not wait for the last rule. *)
ExitBeforeLast(p) ==
    /\ pc[p] = "closing"
    /\ step[p] >= Len(opened[p])
    /\ Gone(p, "stopped")
    /\ LockLeft(p)
    /\ UNCHANGED <<tools, ports, chain, excused, disputed>>

(* std::process::exit runs no destructor: the guard's rules and its lock   *)
(* file stay.                                                              *)
Exit(p) ==
    /\ pc[p] = "closing"
    /\ step[p] > Len(opened[p])
    /\ Gone(p, "stopped")
    /\ LockLeft(p)
    /\ UNCHANGED <<tools, ports, chain, excused, disputed>>

Crash(p) ==
    /\ Alive(p)
    /\ Gone(p, "off")
    /\ LockLeft(p)
    /\ UNCHANGED <<tools, ports, chain, excused, disputed>>

-----------------------------------------------------------------------------
(* IcmpGuard::teardown of the owner. *)

WithoutFirst(rules, rule) ==
    LET At == {i \in DOMAIN rules : rules[i] = rule}
        First == CHOOSE i \in At : \A j \in At : i <= j
    IN  IF At = {} THEN rules
        ELSE SubSeq(rules, 1, First - 1) \o SubSeq(rules, First + 1, Len(rules))

(* `iptables -D' deletes the first rule of its form, for nftables all rules *)
(* with the comment are listed and deleted.                                *)
RemoveRules(p) ==
    /\ pc[p] = "removing"
    /\ IF GuardBackend = "iptables"
       THEN /\ step[p] <= Len(GuardRules)
            /\ chain' = WithoutFirst(chain, GuardRules[step[p]])
            /\ NextStep(p)
       ELSE /\ chain' = <<>>
            /\ MoveTo(p, "unlocking")
    /\ UNCHANGED <<tools, opened, guard, lock, ports, excused, disputed>>

RemoveRuleFails(p) ==
    /\ pc[p] = "removing"
    /\ IF GuardBackend = "iptables"
       THEN step[p] <= Len(GuardRules) /\ NextStep(p)
       ELSE MoveTo(p, "unlocking")
    /\ UNCHANGED <<tools, opened, guard, lock, ports, chain, excused, disputed>>

RulesRemoved(p) ==
    /\ pc[p] = "removing"
    /\ GuardBackend = "iptables"
    /\ step[p] > Len(GuardRules)
    /\ MoveTo(p, "unlocking")
    /\ UNCHANGED <<tools, opened, guard, lock, ports, chain, excused, disputed>>

(* The file is removed, whoever wrote it, and the process ends. *)
Unlock(p) ==
    /\ pc[p] = "unlocking"
    /\ lock' = NoFile
    /\ Gone(p, "off")
    /\ UNCHANGED <<tools, ports, chain, excused, disputed>>

-----------------------------------------------------------------------------
Init ==
    /\ tools \in Hosts
    /\ pc = [p \in Procs |-> "off"]
    /\ step = [p \in Procs |-> 1]
    /\ opened = [p \in Procs |-> <<>>]
    /\ guard = [p \in Procs |-> FALSE]
    /\ lock = NoFile
    /\ ports = [p \in Procs |-> [port \in PortNames |-> 0]]
    /\ chain = <<>>
    /\ excused = [p \in Procs |-> [port \in PortNames |-> 0]]
    /\ disputed = FALSE

Next ==
    \E p \in Procs :
        \/ Start(p)
        \/ OpenPort(p) \/ OpenPortFails(p) \/ PortsOpened(p)
        \/ SkipSetup(p) \/ BeginSetup(p)
        \/ AddRule(p) \/ AddRuleFails(p) \/ RulesAdded(p) \/ WriteLock(p)
        \/ Bind(p) \/ BindFails(p)
        \/ RemoveRules(p) \/ RemoveRuleFails(p) \/ RulesRemoved(p) \/ Unlock(p)
        \/ Signal(p) \/ ClosePort(p) \/ ClosePortFails(p) \/ Exit(p)
        \/ Crash(p)

Spec == Init /\ [][Next]_vars

-----------------------------------------------------------------------------
(* Properties. *)

(* Only one program at a time sets up the rules for echo requests.  It     *)
(* need not be: of processes that set up at the same time, each becomes an *)
(* owner.                                                                  *)
OneOwner == \A p, q \in Procs : guard[p] /\ guard[q] => p = q

(* As long as the owner of the guard serves, its rules are in place: no    *)
(* process that fails to start, crashes, leaves or starts again takes them *)
(* with it.  Owners that set up at the same time do that to each other;    *)
(* when they are gone, the next owner is protected again.                  *)
OwnerProtected ==
    \A p \in Procs :
        ~disputed /\ guard[p] /\ pc[p] = "serving" =>
            {"accept", "drop"} \subseteq {chain[i] : i \in DOMAIN chain}

(* The ports a process opened are closed when it has stopped at a signal,  *)
(* but for the rules whose deletion failed and those without a handle.     *)
PortsClosed ==
    \A p \in Procs :
        pc[p] = "stopped" =>
            \A port \in PortNames : ports[p][port] <= excused[p][port]

(* The owner's rules let echo requests through up to the rate: the rule    *)
(* that accepts comes before the one that drops.                           *)
EchoRateLimited ==
    \A p \in Procs :
        guard[p] /\ pc[p] = "serving" /\ chain # <<>> => Head(chain) = "accept"
=============================================================================
