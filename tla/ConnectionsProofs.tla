------------------------- MODULE ConnectionsProofs -------------------------
(***************************************************************************)
(* Proofs about Connections, for any number of clients, permits and worker *)
(* threads and any conduct of the clients: type correctness with the bound *)
(* of what is read by what was sent, the bound on the permits in use, and  *)
(* that no handshake whose packets come whole holds a worker thread.       *)
(***************************************************************************)
EXTENDS Connections, FiniteSetTheorems, TLAPS

-----------------------------------------------------------------------------
(* Type correctness. *)

(* One client's part of the state. *)
LEMMA ClientTyped ==
    ASSUME TypeOK, NEW c \in Clients
    PROVE  /\ phase[c] \in Phases /\ open[c] \in BOOLEAN /\ conduct[c] \in Kinds
           /\ sent[c] \in Nat /\ net[c] \in Nat /\ buf[c] \in Nat
           /\ out[c] \in 0 .. Room /\ MaxPackets[c] \in Nat
           /\ net[c] + buf[c] <= sent[c] /\ sent[c] <= 2 * MaxPackets[c]
           /\ ~InLoop(c) => out[c] = 0
BY ConnectionAssumption DEF TypeOK

(* The functions of the state, and the bounds that hold client by client.  *)
Functions ==
    /\ phase \in [Clients -> Phases] /\ open \in [Clients -> BOOLEAN]
    /\ conduct \in [Clients -> Kinds] /\ sent \in [Clients -> Nat]
    /\ net \in [Clients -> Nat] /\ buf \in [Clients -> Nat]
    /\ out \in [Clients -> 0 .. Room]

Bounds(c) ==
    /\ sent[c] <= 2 * MaxPackets[c]
    /\ net[c] + buf[c] <= sent[c]
    /\ ~InLoop(c) => out[c] = 0

(* A client of which nothing changes. *)
Untouched(d) ==
    UNCHANGED <<phase[d], open[d], conduct[d], sent[d], net[d], buf[d], out[d]>>

LEMMA OneClient ==
    ASSUME TypeOK, Functions', NEW c \in Clients, Bounds(c)',
           \A d \in Clients \ {c} : Untouched(d)
    PROVE  TypeOK'
<1>1. \A d \in Clients : Bounds(d)'
  BY DEF TypeOK, Bounds, Untouched, InLoop
<1>. QED  BY <1>1 DEF TypeOK, Functions, Bounds

LEMMA ReadTyped ==
    ASSUME TypeOK, NEW c \in Clients, NEW halves \in 1 .. net[c], Read(c, halves)
    PROVE  /\ buf' \in [Clients -> Nat] /\ net' \in [Clients -> Nat]
           /\ net'[c] = net[c] - halves /\ buf'[c] = buf[c] + halves
           /\ \A d \in Clients \ {c} : net'[d] = net[d] /\ buf'[d] = buf[d]
<1>1. /\ halves \in Nat /\ net[c] \in Nat /\ buf[c] \in Nat
      /\ buf[c] + halves \in Nat /\ net[c] - halves \in Nat
  BY ClientTyped
<1>. QED  BY <1>1 DEF Read, TypeOK

LEMMA TakeTyped ==
    ASSUME TypeOK, NEW c \in Clients, Take(c), Complete(c)
    PROVE  /\ buf' \in [Clients -> Nat] /\ buf'[c] = buf[c] - 2
           /\ \A d \in Clients \ {c} : buf'[d] = buf[d]
<1>1. buf[c] - 2 \in Nat
  BY ClientTyped DEF Complete
<1>. QED  BY <1>1 DEF Take, TypeOK

LEMMA EnterTyped ==
    ASSUME TypeOK, NEW c \in Clients, NEW p \in Phases, Enter(c, p)
    PROVE  /\ phase' \in [Clients -> Phases] /\ phase'[c] = p
           /\ \A d \in Clients \ {c} : phase'[d] = phase[d]
BY DEF Enter, TypeOK

(* One more answer in the socket. *)
LEMMA OutTyped ==
    ASSUME TypeOK, NEW c \in Clients, out[c] < Room,
           out' = [out EXCEPT ![c] = @ + 1]
    PROVE  /\ out' \in [Clients -> 0 .. Room]
           /\ \A d \in Clients \ {c} : out'[d] = out[d]
<1>1. out[c] + 1 \in 0 .. Room
  BY ClientTyped, ConnectionAssumption
<1>. QED  BY <1>1 DEF TypeOK

LEMMA CloseTyped ==
    ASSUME TypeOK, NEW c \in Clients, Close(c)
    PROVE  TypeOK' /\ \A d \in Clients \ {c} : Untouched(d)
<1>1. phase' \in [Clients -> Phases] /\ phase'[c] = "closed"
  BY EnterTyped DEF Close, Phases
<1>2. Functions'
  <2>1. "whole" \in Kinds /\ 0 \in 0 .. Room /\ FALSE \in BOOLEAN
    BY ConnectionAssumption DEF Kinds
  <2>. QED  BY <1>1, <2>1 DEF Close, TypeOK, Functions
<1>3. Bounds(c)'
  BY ClientTyped DEF Close, TypeOK, Bounds
<1>4. \A d \in Clients \ {c} : Untouched(d)
  BY DEF Close, Enter, TypeOK, Untouched
<1>. QED  BY <1>2, <1>3, <1>4, OneClient

(* The steps, by what they do. *)

Closing(c) ==
    \/ Reject(c) \/ UpgradeFails(c) \/ Deny(c) \/ WriteFails(c) \/ Quit(c)
    \/ IdleTimeout(c) \/ ReadEnd(c)

Reading(c) == ReadFirst(c) \/ ReadHandshake(c) \/ ReadCommands(c)

Beginning(c) == Connect(c) \/ Accept(c)

Upgrading(c) == ReadSslRequest(c) \/ Upgrade(c)

Taking(c) == Admit(c) \/ BreakOff(c) \/ Answer(c) \/ CloseStatement(c)

LEMMA ClosingCloses ==
    ASSUME NEW c \in Clients, Closing(c)
    PROVE  Close(c)
BY DEF Closing, Reject, UpgradeFails, Deny, WriteFails, Quit, IdleTimeout, ReadEnd

LEMMA ReadingReads ==
    ASSUME TypeOK, NEW c \in Clients, Reading(c)
    PROVE  /\ \E halves \in 1 .. net[c] : Read(c, halves)
           /\ UNCHANGED <<open, conduct, sent, out>>
           /\ phase[c] \in {"greeted", "handshake", "commands"}
           /\ Enter(c, "handshake") \/ UNCHANGED phase
<1>1. net[c] \in Nat
  BY ClientTyped
<1>2. Fitting(c) \subseteq 1 .. net[c]
  BY DEF Fitting
<1>3. CASE ReadFirst(c)
  BY <1>1, <1>3 DEF ReadFirst
<1>4. CASE ReadHandshake(c)
  BY <1>2, <1>4 DEF ReadHandshake
<1>5. CASE ReadCommands(c)
  BY <1>5 DEF ReadCommands
<1>. QED  BY <1>3, <1>4, <1>5 DEF Reading

LEMMA BeginningTyped ==
    ASSUME TypeOK, NEW c \in Clients, Beginning(c)
    PROVE  TypeOK' /\ \A d \in Clients \ {c} : Untouched(d)
<1>1. /\ phase' \in [Clients -> Phases]
      /\ \A d \in Clients \ {c} : phase'[d] = phase[d]
      /\ phase[c] \in {"closed", "backlog"}
  BY EnterTyped DEF Beginning, Connect, Accept, Phases
<1>2. /\ open' \in [Clients -> BOOLEAN] /\ conduct' \in [Clients -> Kinds]
      /\ UNCHANGED <<sent, net, buf, out>>
      /\ \A d \in Clients \ {c} : UNCHANGED <<open[d], conduct[d]>>
  BY ConductAssumption DEF Beginning, Connect, Accept, TypeOK
<1>3. out[c] = 0
  BY <1>1, ClientTyped DEF InLoop
<1>4. Functions'
  BY <1>1, <1>2 DEF TypeOK, Functions
<1>5. Bounds(c)'
  BY <1>2, <1>3, ClientTyped DEF Bounds
<1>6. \A d \in Clients \ {c} : Untouched(d)
  BY <1>1, <1>2 DEF Untouched
<1>. QED  BY <1>4, <1>5, <1>6, OneClient

LEMMA SendTyped ==
    ASSUME TypeOK, NEW c \in Clients, NEW halves \in 1 .. 2, Send(c, halves)
    PROVE  TypeOK' /\ \A d \in Clients \ {c} : Untouched(d)
<1>1. sent[c] + halves \in Nat /\ net[c] + halves \in Nat
  BY ClientTyped
<1>2. Functions'
  BY <1>1 DEF Send, TypeOK, Functions
<1>3. Bounds(c)'
  BY ClientTyped DEF Send, TypeOK, Bounds, InLoop
<1>4. \A d \in Clients \ {c} : Untouched(d)
  BY DEF Send, TypeOK, Untouched
<1>. QED  BY <1>2, <1>3, <1>4, OneClient

LEMMA ReadAnswerTyped ==
    ASSUME TypeOK, NEW c \in Clients, ReadAnswer(c)
    PROVE  TypeOK' /\ \A d \in Clients \ {c} : Untouched(d)
<1>1. out[c] - 1 \in 0 .. Room /\ InLoop(c)
  BY ClientTyped, ConnectionAssumption DEF ReadAnswer
<1>2. Functions'
  BY <1>1 DEF ReadAnswer, TypeOK, Functions
<1>3. Bounds(c)'
  BY <1>1, ClientTyped DEF ReadAnswer, Bounds, InLoop
<1>4. \A d \in Clients \ {c} : Untouched(d)
  BY DEF ReadAnswer, TypeOK, Untouched
<1>. QED  BY <1>2, <1>3, <1>4, OneClient

LEMMA HangUpTyped ==
    ASSUME TypeOK, NEW c \in Clients, HangUp(c)
    PROVE  TypeOK' /\ \A d \in Clients \ {c} : Untouched(d)
<1>1. Functions'
  BY DEF HangUp, TypeOK, Functions
<1>2. Bounds(c)'
  BY ClientTyped DEF HangUp, Bounds, InLoop
<1>3. \A d \in Clients \ {c} : Untouched(d)
  BY DEF HangUp, TypeOK, Untouched
<1>. QED  BY <1>1, <1>2, <1>3, OneClient

LEMMA ReadingTyped ==
    ASSUME TypeOK, NEW c \in Clients, Reading(c)
    PROVE  TypeOK' /\ \A d \in Clients \ {c} : Untouched(d)
<1>1. PICK halves \in 1 .. net[c] : Read(c, halves)
  BY ReadingReads
<1>2. /\ phase' \in [Clients -> Phases]
      /\ \A d \in Clients \ {c} : phase'[d] = phase[d]
      /\ phase'[c] = "handshake" \/ phase'[c] = phase[c]
      /\ phase[c] \in {"greeted", "handshake", "commands"}
  BY ReadingReads, EnterTyped DEF Phases, TypeOK
<1>3. UNCHANGED <<open, conduct, sent, out>>
  BY ReadingReads
<1>4. InLoop(c) => phase'[c] = "commands"
  BY DEF InLoop, Reading, ReadFirst, ReadHandshake, ReadCommands
<1>5. Functions'
  BY <1>1, <1>2, <1>3, ReadTyped DEF TypeOK, Functions
<1>6. Bounds(c)'
  <2>1. net'[c] + buf'[c] = net[c] + buf[c]
    BY <1>1, ReadTyped, ClientTyped
  <2>2. InLoop(c) => InLoop(c)'
    BY <1>4 DEF InLoop
  <2>. QED  BY <1>3, <2>1, <2>2, ClientTyped DEF Bounds
<1>7. \A d \in Clients \ {c} : Untouched(d)
  BY <1>1, <1>2, <1>3, ReadTyped DEF Untouched
<1>. QED  BY <1>5, <1>6, <1>7, OneClient

LEMMA UpgradingTyped ==
    ASSUME TypeOK, NEW c \in Clients, Upgrading(c)
    PROVE  TypeOK' /\ \A d \in Clients \ {c} : Untouched(d)
<1>1. /\ phase' \in [Clients -> Phases]
      /\ \A d \in Clients \ {c} : phase'[d] = phase[d]
      /\ phase[c] \in {"greeted", "tls"}
  BY EnterTyped DEF Upgrading, ReadSslRequest, Upgrade, Phases
<1>2. PICK left \in Nat : net' = [net EXCEPT ![c] = left] /\ left <= net[c]
  <2>1. net[c] >= 2 => net[c] - 2 \in Nat /\ net[c] - 2 <= net[c]
    BY ClientTyped
  <2>2. 0 \in Nat /\ 0 <= net[c]
    BY ClientTyped
  <2>. QED  BY <2>1, <2>2 DEF Upgrading, ReadSslRequest, Upgrade
<1>3. UNCHANGED <<open, conduct, sent, buf, out>>
  BY DEF Upgrading, ReadSslRequest, Upgrade
<1>4. Functions'
  BY <1>1, <1>2, <1>3 DEF TypeOK, Functions
<1>5. Bounds(c)'
  <2>1. net'[c] = left
    BY <1>2 DEF TypeOK
  <2>2. out[c] = 0
    BY <1>1, ClientTyped DEF InLoop
  <2>. QED  BY <1>2, <1>3, <2>1, <2>2, ClientTyped DEF Bounds
<1>6. \A d \in Clients \ {c} : Untouched(d)
  BY <1>1, <1>2, <1>3 DEF Untouched, TypeOK
<1>. QED  BY <1>4, <1>5, <1>6, OneClient

LEMMA TakingTyped ==
    ASSUME TypeOK, NEW c \in Clients, Taking(c)
    PROVE  TypeOK' /\ \A d \in Clients \ {c} : Untouched(d)
<1>1. Take(c) /\ Complete(c) /\ UNCHANGED <<open, conduct, sent, net>>
  BY DEF Taking, Admit, BreakOff, Answer, CloseStatement
<1>2. /\ phase' \in [Clients -> Phases] /\ InLoop(c)'
      /\ \A d \in Clients \ {c} : phase'[d] = phase[d]
  BY EnterTyped DEF Taking, Admit, BreakOff, Answer, CloseStatement, Phases, InLoop, TypeOK
<1>3. /\ out' \in [Clients -> 0 .. Room]
      /\ \A d \in Clients \ {c} : out'[d] = out[d]
  <2>1. phase[c] = "handshake" => out[c] < Room
    BY ClientTyped, ConnectionAssumption DEF InLoop
  <2>2. \/ phase[c] = "handshake" /\ out' = [out EXCEPT ![c] = @ + 1]
        \/ out' = out
    BY DEF Taking, Admit, BreakOff, Answer, CloseStatement
  <2>. QED  BY <2>1, <2>2, OutTyped DEF TypeOK
<1>4. Functions'
  BY <1>1, <1>2, <1>3, TakeTyped DEF TypeOK, Functions
<1>5. Bounds(c)'
  BY <1>1, <1>2, TakeTyped, ClientTyped DEF Bounds, Complete
<1>6. \A d \in Clients \ {c} : Untouched(d)
  BY <1>1, <1>2, <1>3, TakeTyped DEF Untouched
<1>. QED  BY <1>4, <1>5, <1>6, OneClient

LEMMA WriteTyped ==
    ASSUME TypeOK, NEW c \in Clients, Write(c)
    PROVE  TypeOK' /\ \A d \in Clients \ {c} : Untouched(d)
<1>1. /\ phase' \in [Clients -> Phases] /\ phase'[c] = "commands"
      /\ \A d \in Clients \ {c} : phase'[d] = phase[d]
  BY EnterTyped DEF Write, Phases
<1>2. UNCHANGED <<open, conduct, sent, net, buf>>
  BY DEF Write
<1>3. /\ out' \in [Clients -> 0 .. Room]
      /\ \A d \in Clients \ {c} : out'[d] = out[d]
  BY OutTyped DEF Write
<1>4. Functions'
  BY <1>1, <1>2, <1>3 DEF TypeOK, Functions
<1>5. Bounds(c)'
  BY <1>1, <1>2, ClientTyped DEF Bounds, InLoop
<1>6. \A d \in Clients \ {c} : Untouched(d)
  BY <1>1, <1>2, <1>3 DEF Untouched
<1>. QED  BY <1>4, <1>5, <1>6, OneClient

(* Every step is one of these. *)
LEMMA NextSteps ==
    ASSUME [Next]_vars
    PROVE  \/ UNCHANGED vars
           \/ \E c \in Clients :
                 \/ Beginning(c) \/ HangUp(c) \/ ReadAnswer(c) \/ Closing(c)
                 \/ \E halves \in 1 .. 2 : Send(c, halves)
                 \/ Reading(c) \/ Upgrading(c) \/ Taking(c) \/ Write(c)
BY DEF Next, Serve, Session, Handshake, Commands, Beginning, Closing, Reading,
       Upgrading, Taking

LEMMA StepTyped ==
    ASSUME TypeOK, NEW c \in Clients,
           \/ Beginning(c) \/ HangUp(c) \/ ReadAnswer(c) \/ Closing(c)
           \/ \E halves \in 1 .. 2 : Send(c, halves)
           \/ Reading(c) \/ Upgrading(c) \/ Taking(c) \/ Write(c)
    PROVE  TypeOK' /\ \A d \in Clients \ {c} : Untouched(d)
BY BeginningTyped, HangUpTyped, ReadAnswerTyped, ClosingCloses, CloseTyped, SendTyped,
   ReadingTyped, UpgradingTyped, TakingTyped, WriteTyped

LEMMA NextTyped ==
    ASSUME TypeOK, [Next]_vars
    PROVE  TypeOK'
<1>1. CASE UNCHANGED vars
  BY <1>1 DEF vars, TypeOK, InLoop
<1>. QED  BY <1>1, NextSteps, StepTyped

LEMMA InitTyped == Init => TypeOK
BY ConnectionAssumption DEF Init, TypeOK, Phases, Kinds, InLoop

(* Whatever the order in which packets arrive, are read and are taken from *)
(* the buffer, the server has never more of a client than the client sent, *)
(* and only a session past its handshake has answers on their way.         *)
THEOREM TypeCorrect == Spec => []TypeOK
<1>1. TypeOK /\ [Next]_vars => TypeOK'
  BY NextTyped
<1>. QED  BY <1>1, InitTyped, PTL DEF Spec

-----------------------------------------------------------------------------
(* Handshakes that come whole. *)

Fresh(c) == sent[c] = 0 /\ net[c] = 0 /\ buf[c] = 0

(* Up to the handshake response, the client sends whole packets. *)
WholeSoFar(c) == sent[c] < Preamble(c) => sent[c] \in {0, 2, 4}

(* What of it is where, phase by phase.  In a TLS session the hello is     *)
(* either consumed by the acceptor, or it was dropped with the SSLRequest  *)
(* and the client waits for an answer to it.                               *)
WholeInv(c) ==
    /\ WholeSoFar(c)
    /\ phase[c] = "greeted" =>
          net[c] = sent[c] /\ buf[c] = 0 /\ (c \in TlsClients => sent[c] <= 4)
    /\ phase[c] = "tls" =>
          /\ c \in TlsClients /\ buf[c] = 0
          /\ sent[c] \in {2, 4} /\ net[c] \in {0, sent[c] - 2}
    /\ phase[c] = "handshake" =>
          /\ buf[c] = 0 \/ buf[c] >= 2
          /\ IF c \in TlsClients THEN net[c] + buf[c] = sent[c] - 4
             ELSE net[c] + buf[c] = sent[c] /\ buf[c] >= 2

HandshakeInv(c) ==
    /\ phase[c] \in {"closed", "backlog"} => Fresh(c)
    /\ ~InPieces(c) => WholeInv(c)

HandshakesInv == TypeOK /\ \A c \in Clients : HandshakeInv(c)

LEMMA InitHandshakes == Init => HandshakesInv
BY InitTyped DEF Init, HandshakesInv, HandshakeInv, WholeInv, WholeSoFar, Fresh

LEMMA Bystander ==
    ASSUME NEW d \in Clients, HandshakeInv(d), Untouched(d)
    PROVE  HandshakeInv(d)'
BY DEF HandshakeInv, WholeInv, WholeSoFar, Preamble, Fresh, InPieces, Untouched

LEMMA BeginningInv ==
    ASSUME HandshakesInv, NEW c \in Clients, Beginning(c)
    PROVE  HandshakeInv(c)'
<1>1. phase[c] \in {"closed", "backlog"} /\ UNCHANGED <<sent, net, buf>>
  BY DEF Beginning, Connect, Accept
<1>2. Fresh(c)'
  BY <1>1 DEF HandshakesInv, HandshakeInv, Fresh
<1>3. phase'[c] \in {"backlog", "greeted"}
  BY EnterTyped DEF Beginning, Connect, Accept, HandshakesInv, Phases
<1>. QED  BY <1>2, <1>3 DEF HandshakeInv, WholeInv, WholeSoFar, Fresh

LEMMA SendInv ==
    ASSUME HandshakesInv, NEW c \in Clients, NEW halves \in 1 .. 2, Send(c, halves)
    PROVE  HandshakeInv(c)'
<1>1. /\ sent[c] \in Nat /\ net[c] \in Nat /\ buf[c] \in Nat /\ HandshakeInv(c)
      /\ net[c] + buf[c] <= sent[c]
  BY ClientTyped DEF HandshakesInv
<1>2. /\ phase'[c] = phase[c] /\ buf'[c] = buf[c] /\ conduct'[c] = conduct[c]
      /\ sent'[c] = sent[c] + halves /\ net'[c] = net[c] + halves
      /\ phase[c] \notin {"closed", "backlog"}
  BY DEF Send, HandshakesInv, TypeOK
<1>3. SUFFICES ASSUME ~InPieces(c)
               PROVE  WholeInv(c)'
  BY <1>2 DEF HandshakeInv, InPieces
<1>4. /\ WholeInv(c)
      /\ sent[c] < Preamble(c) => halves = 2
      /\ c \in TlsClients /\ sent[c] + halves > 4 => phase[c] = "handshake" \/ InLoop(c)
  BY <1>1, <1>3 DEF HandshakeInv, Send, MaySend, InPieces
<1>5. Preamble(c) = IF c \in TlsClients THEN 6 ELSE 2
  BY DEF Preamble
<1>6. WholeSoFar(c)'
  BY <1>1, <1>2, <1>4, <1>5 DEF WholeInv, WholeSoFar, Preamble
<1>7. phase[c] = "greeted" => /\ net[c] + halves = sent[c] + halves
                              /\ c \in TlsClients => sent[c] + halves <= 4
  BY <1>1, <1>4 DEF WholeInv, InLoop
<1>8. phase[c] = "tls" => sent[c] + halves = 4 /\ net[c] + halves \in {0, 2}
  BY <1>1, <1>4, <1>5 DEF WholeInv, InLoop
<1>. QED  BY <1>1, <1>2, <1>4, <1>6, <1>7, <1>8 DEF WholeInv

LEMMA ReadingInv ==
    ASSUME HandshakesInv, NEW c \in Clients, Reading(c)
    PROVE  HandshakeInv(c)'
<1>1. /\ sent[c] \in Nat /\ net[c] \in Nat /\ buf[c] \in Nat /\ HandshakeInv(c)
      /\ TypeOK /\ conduct[c] \in Kinds
  BY ClientTyped DEF HandshakesInv
<1>2. UNCHANGED <<sent, conduct>> /\ phase'[c] \in {"handshake", "commands"}
  BY <1>1, ReadingReads, EnterTyped
     DEF Reading, ReadFirst, ReadHandshake, ReadCommands, Phases
<1>3. SUFFICES ASSUME ~InPieces(c)
               PROVE  WholeInv(c)'
  BY <1>2 DEF HandshakeInv, InPieces
<1>4. WholeInv(c) /\ WholeSoFar(c) /\ WholeSoFar(c)'
  BY <1>1, <1>2, <1>3 DEF HandshakeInv, WholeInv, WholeSoFar, Preamble
<1>5. CASE ReadFirst(c)
  <2>1. net[c] > 0 /\ phase[c] = "greeted" /\ ~(c \in TlsClients /\ net[c] >= 2)
    BY <1>5 DEF ReadFirst
  <2>2. net[c] \in 1 .. net[c] /\ Read(c, net[c])
    BY <1>1, <1>5, <2>1 DEF ReadFirst
  <2>3. net'[c] = 0 /\ buf'[c] = buf[c] + net[c]
    BY <1>1, <2>2, ReadTyped
  <2>4. net[c] = sent[c] /\ buf[c] = 0
    BY <1>4, <2>1 DEF WholeInv
  <2>5. net[c] >= 2 /\ c \notin TlsClients
    BY <1>1, <1>4, <2>1, <2>4 DEF WholeSoFar, Preamble
  <2>6. phase'[c] = "handshake"
    BY <1>1, <1>5, EnterTyped DEF ReadFirst, Phases
  <2>. QED  BY <1>1, <1>2, <1>4, <2>3, <2>4, <2>5, <2>6 DEF WholeInv
<1>6. CASE ReadHandshake(c)
  <2>1. phase[c] = "handshake" /\ buf[c] = 0 /\ phase' = phase
    BY <1>6 DEF ReadHandshake
  <2>2. PICK halves \in Fitting(c) : Read(c, halves)
    BY <1>6 DEF ReadHandshake
  <2>3. halves \in 1 .. net[c]
    BY DEF Fitting
  <2>4. c \in TlsClients /\ net[c] = sent[c] - 4
    BY <1>1, <1>4, <2>1 DEF WholeInv
  <2>5. net[c] >= 2
    BY <1>1, <1>4, <2>3, <2>4 DEF WholeSoFar, Preamble
  <2>6. conduct[c] # "long"
    BY <1>3, <2>4 DEF InPieces
  <2>7. halves >= 2
    BY <2>5, <2>6 DEF Fitting
  <2>8. net'[c] = net[c] - halves /\ buf'[c] = buf[c] + halves
    BY <1>1, <2>2, <2>3, ReadTyped
  <2>. QED  BY <1>1, <1>2, <1>4, <2>1, <2>3, <2>4, <2>7, <2>8 DEF WholeInv
<1>7. CASE ReadCommands(c)
  <2>1. phase'[c] = "commands"
    BY <1>7 DEF ReadCommands
  <2>. QED  BY <1>4, <2>1 DEF WholeInv
<1>. QED  BY <1>5, <1>6, <1>7 DEF Reading

LEMMA UpgradingInv ==
    ASSUME HandshakesInv, NEW c \in Clients, Upgrading(c)
    PROVE  HandshakeInv(c)'
<1>1. /\ sent[c] \in Nat /\ net[c] \in Nat /\ buf[c] \in Nat /\ HandshakeInv(c)
      /\ TypeOK
  BY ClientTyped DEF HandshakesInv
<1>2. UNCHANGED <<sent, conduct, buf>> /\ phase'[c] \in {"tls", "handshake"}
  BY <1>1, EnterTyped DEF Upgrading, ReadSslRequest, Upgrade, Phases
<1>3. SUFFICES ASSUME ~InPieces(c)
               PROVE  WholeInv(c)'
  BY <1>2 DEF HandshakeInv, InPieces
<1>4. WholeInv(c) /\ WholeSoFar(c) /\ WholeSoFar(c)'
  BY <1>1, <1>2, <1>3 DEF HandshakeInv, WholeInv, WholeSoFar, Preamble
<1>5. CASE ReadSslRequest(c)
  <2>1. /\ phase'[c] = "tls" /\ net'[c] = 0
        /\ phase[c] = "greeted" /\ c \in TlsClients /\ net[c] >= 2
    BY <1>1, <1>5, EnterTyped DEF ReadSslRequest, Phases, TypeOK
  <2>2. sent[c] \in {2, 4} /\ buf[c] = 0
    BY <1>1, <1>4, <2>1 DEF WholeInv, WholeSoFar, Preamble
  <2>. QED  BY <1>1, <1>2, <1>4, <2>1, <2>2 DEF WholeInv
<1>6. CASE Upgrade(c)
  <2>1. /\ phase'[c] = "handshake" /\ net'[c] = net[c] - 2
        /\ phase[c] = "tls" /\ net[c] >= 2
    BY <1>1, <1>6, EnterTyped DEF Upgrade, Phases, TypeOK
  <2>2. c \in TlsClients /\ buf[c] = 0 /\ sent[c] = 4 /\ net[c] = 2
    BY <1>1, <1>4, <2>1 DEF WholeInv
  <2>. QED  BY <1>1, <1>2, <1>4, <2>1, <2>2 DEF WholeInv
<1>. QED  BY <1>5, <1>6 DEF Upgrading

(* In the command loop, nothing is left to show. *)
LEMMA LoopInv ==
    ASSUME HandshakesInv, NEW c \in Clients, UNCHANGED <<sent, conduct>>, InLoop(c)',
           phase[c] = "handshake" \/ InLoop(c)
    PROVE  HandshakeInv(c)'
BY DEF HandshakesInv, HandshakeInv, WholeInv, WholeSoFar, Preamble, InPieces, InLoop

LEMMA CloseInv ==
    ASSUME HandshakesInv, NEW c \in Clients, Close(c)
    PROVE  HandshakeInv(c)'
<1>1. /\ phase'[c] = "closed" /\ sent'[c] = 0 /\ net'[c] = 0 /\ buf'[c] = 0
  BY DEF Close, Enter, HandshakesInv, TypeOK
<1>. QED  BY <1>1 DEF HandshakeInv, WholeInv, WholeSoFar, Fresh

LEMMA StepInv ==
    ASSUME HandshakesInv, NEW c \in Clients,
           \/ Beginning(c) \/ HangUp(c) \/ ReadAnswer(c) \/ Closing(c)
           \/ \E halves \in 1 .. 2 : Send(c, halves)
           \/ Reading(c) \/ Upgrading(c) \/ Taking(c) \/ Write(c)
    PROVE  HandshakeInv(c)'
<1>1. CASE HangUp(c) \/ ReadAnswer(c)
  BY <1>1 DEF HangUp, ReadAnswer, HandshakesInv, HandshakeInv, WholeInv, WholeSoFar,
              Preamble, Fresh, InPieces
<1>2. CASE Taking(c) \/ Write(c)
  <2>1. UNCHANGED <<sent, conduct>> /\ (phase[c] = "handshake" \/ InLoop(c))
    BY <1>2 DEF Taking, Admit, BreakOff, Answer, CloseStatement, Write, InLoop
  <2>2. InLoop(c)'
    BY <1>2, EnterTyped DEF Taking, Admit, BreakOff, Answer, CloseStatement, Write,
                            InLoop, Phases, HandshakesInv
  <2>. QED  BY <2>1, <2>2, LoopInv
<1>. QED  BY <1>1, <1>2, BeginningInv, SendInv, ReadingInv, UpgradingInv,
             ClosingCloses, CloseInv

LEMMA NextHandshakes ==
    ASSUME HandshakesInv, [Next]_vars
    PROVE  HandshakesInv'
<1>1. TypeOK' /\ TypeOK
  BY NextTyped DEF HandshakesInv
<1>2. CASE UNCHANGED vars
  BY <1>1, <1>2, Bystander DEF HandshakesInv, vars, Untouched
<1>3. CASE ~UNCHANGED vars
  <2>1. PICK c \in Clients :
           \/ Beginning(c) \/ HangUp(c) \/ ReadAnswer(c) \/ Closing(c)
           \/ \E halves \in 1 .. 2 : Send(c, halves)
           \/ Reading(c) \/ Upgrading(c) \/ Taking(c) \/ Write(c)
    BY <1>3, NextSteps
  <2>2. HandshakeInv(c)'
    BY <2>1, StepInv
  <2>3. \A d \in Clients \ {c} : Untouched(d)
    BY <1>1, <2>1, StepTyped
  <2>. QED  BY <1>1, <2>2, <2>3, Bystander DEF HandshakesInv
<1>. QED  BY <1>2, <1>3

(* A handshake loop that goes round without reading, and so holds a worker *)
(* thread, has been sent its packets in pieces or, over TLS, a response of *)
(* more than 64 bytes.  Whole ones never spin, however many commands come  *)
(* behind them, wherever the reads of a TLS session cut these, and whether *)
(* or not the hello was dropped.                                           *)
THEOREM OthersDoNotSpin == Spec => []OnlyPiecesSpin
<1>1. HandshakesInv => OnlyPiecesSpin
  BY ClientTyped DEF HandshakesInv, HandshakeInv, WholeInv, OnlyPiecesSpin, Spinning
<1>2. HandshakesInv /\ [Next]_vars => HandshakesInv'
  BY NextHandshakes
<1>. QED  BY InitHandshakes, <1>1, <1>2, PTL DEF Spec

-----------------------------------------------------------------------------
(* The permits. *)

PermitsRespected == IsFiniteSet(Holding) /\ Cardinality(Holding) <= MaxConnections

LEMMA FewerPermits ==
    ASSUME PermitsRespected, Holding' \subseteq Holding
    PROVE  PermitsRespected'
<1>1. IsFiniteSet(Holding') /\ Cardinality(Holding') <= Cardinality(Holding)
  BY FS_Subset DEF PermitsRespected
<1>2. Cardinality(Holding) \in Nat /\ Cardinality(Holding') \in Nat
  BY <1>1, FS_CardinalityType DEF PermitsRespected
<1>. QED  BY <1>1, <1>2, ConnectionAssumption DEF PermitsRespected

LEMMA NextPermits ==
    ASSUME TypeOK, PermitsRespected, [Next]_vars
    PROVE  PermitsRespected'
<1>1. ASSUME NEW c \in Clients, Accept(c)
      PROVE  PermitsRespected'
  <2>1. Holding' = Holding \cup {c} /\ c \notin Holding
    BY <1>1 DEF Accept, Enter, TypeOK, Holding
  <2>2. Cardinality(Holding) < MaxConnections
    BY <1>1 DEF Accept
  <2>3. /\ IsFiniteSet(Holding \cup {c})
        /\ Cardinality(Holding \cup {c}) = Cardinality(Holding) + 1
    BY <2>1, FS_AddElement DEF PermitsRespected
  <2>4. Cardinality(Holding) \in Nat
    BY FS_CardinalityType DEF PermitsRespected
  <2>. QED  BY <2>1, <2>2, <2>3, <2>4, ConnectionAssumption DEF PermitsRespected
<1>2. CASE UNCHANGED phase
  BY <1>2, FewerPermits DEF Holding
<1>3. ASSUME NEW c \in Clients, NEW p \in Phases, Enter(c, p),
             p \in {"closed", "backlog"} \/ c \in Holding
      PROVE  PermitsRespected'
  <2>1. Holding' \subseteq Holding
    BY <1>3, EnterTyped DEF Holding
  <2>. QED  BY <2>1, FewerPermits
<1>4. ASSUME NEW c \in Clients, Connect(c) \/ Closing(c)
      PROVE  PermitsRespected'
  BY <1>3, <1>4, ClosingCloses DEF Connect, Close, Phases
<1>5. ASSUME NEW c \in Clients, Reading(c) \/ Upgrading(c) \/ Taking(c) \/ Write(c)
      PROVE  PermitsRespected'
  <2>1. c \in Holding
    BY <1>5 DEF Reading, Upgrading, Taking, ReadFirst, ReadHandshake, ReadCommands,
                ReadSslRequest, Upgrade, Admit, BreakOff, Answer, CloseStatement, Write,
                Holding
  <2>2. (\E p \in Phases : Enter(c, p)) \/ UNCHANGED phase
    BY <1>5 DEF Reading, Upgrading, Taking, ReadFirst, ReadHandshake, ReadCommands,
                ReadSslRequest, Upgrade, Admit, BreakOff, Answer, CloseStatement, Write,
                Phases
  <2>. QED  BY <1>2, <1>3, <2>1, <2>2
<1>6. ASSUME NEW c \in Clients,
             HangUp(c) \/ ReadAnswer(c) \/ \E halves \in 1 .. 2 : Send(c, halves)
      PROVE  PermitsRespected'
  BY <1>2, <1>6 DEF HangUp, ReadAnswer, Send
<1>. QED  BY <1>1, <1>2, <1>4, <1>5, <1>6, NextSteps DEF Beginning, vars

(* The accept loop never lets more clients past it than the semaphore has  *)
(* permits, however connections end, time out and come again.              *)
THEOREM PermitBound == Spec => []PermitsRespected
<1>1. Init => PermitsRespected
  <2>1. ASSUME Init PROVE Holding = {}
    BY <2>1 DEF Init, Holding
  <2>. QED  BY <2>1, FS_EmptySet, ConnectionAssumption DEF PermitsRespected
<1>2. TypeOK /\ PermitsRespected /\ [Next]_vars => PermitsRespected'
  BY NextPermits
<1>. QED  BY <1>1, <1>2, TypeCorrect, PTL DEF Spec
=============================================================================
