---------------------------- MODULE Connections ----------------------------
(***************************************************************************)
(* The life of a client connection (src/src/server.rs): the accept loop    *)
(* with its semaphore, the greeting and the handshake loop, the command    *)
(* loop with its idle timeout, and the worker threads the tasks share.     *)
(*                                                                         *)
(* Packets are counted in halves, as a packet may arrive in two pieces:    *)
(* decode_packet yields one when the buffer holds two halves.  A session   *)
(* writes its answers to a socket that takes so many until the client      *)
(* reads some.                                                             *)
(***************************************************************************)
EXTENDS Integers, FiniteSets

CONSTANTS
    Clients,
    TlsClients,       \* the clients that ask for TLS
    Conducts,         \* how the handshakes of each client may arrive
    MaxConnections,   \* permits of the semaphore
    Workers,          \* worker threads of the runtime
    MaxPackets,       \* bound on the packets of each client's connection
    Room              \* answers that a socket takes from a session

(***************************************************************************)
(*   whole   each packet of the handshake arrives in one piece             *)
(*   split   a packet of the handshake may arrive in two pieces            *)
(*   long    like whole, but the handshake response, with its password,    *)
(*           database or plugin name, has more than 64 bytes               *)
(***************************************************************************)
Kinds == {"whole", "split", "long"}

ASSUME ConductAssumption == Conducts \in [Clients -> SUBSET Kinds]

ASSUME ConnectionAssumption ==
    /\ TlsClients \subseteq Clients
    /\ MaxConnections \in Nat \ {0}
    /\ Workers \in Nat \ {0}
    /\ MaxPackets \in [Clients -> Nat]
    /\ Room \in Nat \ {0}

VARIABLES
    phase,    \* where the connection is
    open,     \* the client has not hung up
    conduct,  \* how the client's handshake arrives
    sent,     \* halves the client has sent on this connection
    net,      \* halves in the socket
    buf,      \* halves in the session's buffer
    out       \* answers in the socket that the client has yet to read

vars == <<phase, open, conduct, sent, net, buf, out>>

Phases == {"closed", "backlog", "greeted", "tls", "handshake", "commands",
           "answering"}

InLoop(c) == phase[c] \in {"commands", "answering"}

TypeOK ==
    /\ phase \in [Clients -> Phases]
    /\ open \in [Clients -> BOOLEAN]
    /\ conduct \in [Clients -> Kinds]
    /\ sent \in [Clients -> Nat]
    /\ net \in [Clients -> Nat]
    /\ buf \in [Clients -> Nat]
    /\ out \in [Clients -> 0 .. Room]
    /\ \A c \in Clients :
          /\ sent[c] <= 2 * MaxPackets[c]
          /\ net[c] + buf[c] <= sent[c]
          /\ ~InLoop(c) => out[c] = 0

-----------------------------------------------------------------------------
Holding == {c \in Clients : phase[c] \notin {"closed", "backlog"}}

(* Mutant: <= for < in the test of the packet's length. *)
CompleteLate(c) == buf[c] > 2

Complete(c) == buf[c] >= 2

(* The handshake loop reads only into an empty buffer: with a piece of a   *)
(* packet in it, it goes round without reading and without yielding.       *)
Spinning(c) == phase[c] = "handshake" /\ buf[c] = 1

(* A task runs when some worker thread is free to run it. *)
WorkerFree == Cardinality({c \in Clients : Spinning(c)}) < Workers

Enter(c, p) == phase' = [phase EXCEPT ![c] = p]

(* Mutant: what has been read is read again. *)
ReadAgain(c, halves) ==
    /\ buf' = [buf EXCEPT ![c] = @ + halves]
    /\ UNCHANGED net

(* read_buf takes from the socket what the buffer has room for. *)
Read(c, halves) ==
    /\ buf' = [buf EXCEPT ![c] = @ + halves]
    /\ net' = [net EXCEPT ![c] = @ - halves]

(* Mutant: the buffer has room for half of any handshake response. *)
FittingHalf(c) == {1} \cap 1 .. net[c]

(* How much a read into the empty buffer of a TLS session may yield: it    *)
(* has room for 64 bytes, the whole of a short response, a piece of a long *)
(* one.                                                                    *)
Fitting(c) ==
    {halves \in 1 .. net[c] : IF conduct[c] = "long" THEN halves = 1
                              ELSE halves >= 2 \/ halves = net[c]}

EndOfStream(c) == net[c] = 0 /\ ~open[c]

(* The session returns and its permit with it. *)
Close(c) ==
    /\ Enter(c, "closed")
    /\ open' = [open EXCEPT ![c] = FALSE]
    /\ conduct' = [conduct EXCEPT ![c] = "whole"]
    /\ sent' = [sent EXCEPT ![c] = 0]
    /\ net' = [net EXCEPT ![c] = 0]
    /\ buf' = [buf EXCEPT ![c] = 0]
    /\ out' = [out EXCEPT ![c] = 0]

Take(c) == buf' = [buf EXCEPT ![c] = @ - 2]

-----------------------------------------------------------------------------
(* Clients. *)

Connect(c) ==
    /\ phase[c] = "closed"
    /\ Enter(c, "backlog")
    /\ open' = [open EXCEPT ![c] = TRUE]
    /\ \E kind \in Conducts[c] : conduct' = [conduct EXCEPT ![c] = kind]
    /\ UNCHANGED <<sent, net, buf, out>>

(* A client that asks for TLS sends its SSLRequest and its TLS hello, for  *)
(* neither of which it waits, and its handshake response once TLS is up;   *)
(* others send the response first.  Commands follow, whether or not the    *)
(* answers have come.                                                      *)
Preamble(c) == IF c \in TlsClients THEN 6 ELSE 2

MaySend(c, halves) ==
    /\ sent[c] < Preamble(c) => halves = 2 \/ conduct[c] = "split"
    /\ c \in TlsClients /\ sent[c] + halves > 4 =>
          phase[c] = "handshake" \/ InLoop(c)

(* Packets arrive whole or in halves. *)
Send(c, halves) ==
    /\ phase[c] \notin {"closed", "backlog"}
    /\ open[c]
    /\ sent[c] + halves <= 2 * MaxPackets[c]
    /\ MaySend(c, halves)
    /\ sent' = [sent EXCEPT ![c] = @ + halves]
    /\ net' = [net EXCEPT ![c] = @ + halves]
    /\ UNCHANGED <<phase, open, conduct, buf, out>>

(* A client need not read its answers. *)
ReadAnswer(c) ==
    /\ open[c]
    /\ out[c] > 0
    /\ out' = [out EXCEPT ![c] = @ - 1]
    /\ UNCHANGED <<phase, open, conduct, sent, net, buf>>

HangUp(c) ==
    /\ open[c]
    /\ open' = [open EXCEPT ![c] = FALSE]
    /\ UNCHANGED <<phase, conduct, sent, net, buf, out>>

-----------------------------------------------------------------------------
(* The accept loop. *)

Accept(c) ==
    /\ WorkerFree
    /\ phase[c] = "backlog"
    /\ Cardinality(Holding) < MaxConnections
    /\ Enter(c, "greeted")
    /\ UNCHANGED <<open, conduct, sent, net, buf, out>>

Reject(c) ==
    /\ WorkerFree
    /\ phase[c] = "backlog"
    /\ Cardinality(Holding) >= MaxConnections
    /\ Close(c)

(* handle_connection: the first read, into a buffer of 4096 bytes, yields  *)
(* the handshake response, or a piece of it ...                            *)
ReadFirst(c) ==
    /\ WorkerFree
    /\ phase[c] = "greeted"
    /\ net[c] > 0
    /\ ~(c \in TlsClients /\ net[c] >= 2)
    /\ Read(c, net[c])
    /\ Enter(c, "handshake")
    /\ UNCHANGED <<open, conduct, sent, out>>

(* ... or it starts with an SSLRequest.  The TLS session gets a new        *)
(* buffer, so whatever was read behind the SSLRequest is dropped.          *)
ReadSslRequest(c) ==
    /\ WorkerFree
    /\ phase[c] = "greeted"
    /\ c \in TlsClients /\ net[c] >= 2
    /\ net' = [net EXCEPT ![c] = 0]
    /\ Enter(c, "tls")
    /\ UNCHANGED <<open, conduct, sent, buf, out>>

(* The stream goes on where the SSLRequest ended. *)
HelloIntact(c) == sent[c] - net[c] = 2

(* acceptor.accept: TLS is up when the client's hello has been read ...    *)
Upgrade(c) ==
    /\ WorkerFree
    /\ phase[c] = "tls"
    /\ net[c] >= 2 /\ HelloIntact(c)
    /\ net' = [net EXCEPT ![c] = @ - 2]
    /\ Enter(c, "handshake")
    /\ UNCHANGED <<open, conduct, sent, buf, out>>

(* ... unless the acceptor refuses it, or what it reads is not the start   *)
(* of a hello or ends within it: then the session ends.                    *)
UpgradeFails(c) ==
    /\ WorkerFree
    /\ phase[c] = "tls"
    /\ net[c] > 0
    /\ net[c] >= 2 \/ ~HelloIntact(c) \/ ~open[c]
    /\ Close(c)

(* The handshake loop.  Only a TLS session comes to it with nothing read.  *)
ReadHandshake(c) ==
    /\ WorkerFree
    /\ phase[c] = "handshake"
    /\ buf[c] = 0
    /\ \E halves \in Fitting(c) : Read(c, halves)
    /\ UNCHANGED <<phase, open, conduct, sent, out>>

(* The OK is the first answer in the socket. *)
Admit(c) ==
    /\ WorkerFree
    /\ phase[c] = "handshake"
    /\ Complete(c)
    /\ Take(c)
    /\ Enter(c, "commands")
    /\ out' = [out EXCEPT ![c] = @ + 1]
    /\ UNCHANGED <<open, conduct, sent, net>>

(* A payload of less than 33 bytes breaks the loop: commands follow, with  *)
(* neither a check nor an answer.                                          *)
BreakOff(c) ==
    /\ WorkerFree
    /\ phase[c] = "handshake"
    /\ Complete(c)
    /\ Take(c)
    /\ Enter(c, "commands")
    /\ UNCHANGED <<open, conduct, sent, net, out>>

Deny(c) ==
    /\ WorkerFree
    /\ phase[c] = "handshake"
    /\ Complete(c)
    /\ Close(c)

(* Mutant: the command loop, too, reads only into an empty buffer. *)
ReadCommandsEmpty(c) ==
    /\ WorkerFree
    /\ phase[c] = "commands"
    /\ buf[c] = 0
    /\ \E halves \in 1 .. net[c] : Read(c, halves)
    /\ UNCHANGED <<phase, open, conduct, sent, out>>

(* The command loop.  Its buffer grows by as little as 64 bytes. *)
ReadCommands(c) ==
    /\ WorkerFree
    /\ phase[c] = "commands"
    /\ ~Complete(c)
    /\ \E halves \in 1 .. net[c] : Read(c, halves)
    /\ UNCHANGED <<phase, open, conduct, sent, out>>

(* A command is executed and its answer is to be written. *)
Answer(c) ==
    /\ WorkerFree
    /\ phase[c] = "commands"
    /\ Complete(c)
    /\ Take(c)
    /\ Enter(c, "answering")
    /\ UNCHANGED <<open, conduct, sent, net, out>>

(* write_all goes on when the socket takes the answer.  It has no timeout. *)
Write(c) ==
    /\ WorkerFree
    /\ phase[c] = "answering"
    /\ out[c] < Room
    /\ out' = [out EXCEPT ![c] = @ + 1]
    /\ Enter(c, "commands")
    /\ UNCHANGED <<open, conduct, sent, net, buf>>

(* The client has closed its end. *)
WriteFails(c) ==
    /\ WorkerFree
    /\ phase[c] = "answering"
    /\ ~open[c]
    /\ Close(c)

(* COM_STMT_CLOSE has no answer. *)
CloseStatement(c) ==
    /\ WorkerFree
    /\ phase[c] = "commands"
    /\ Complete(c)
    /\ Take(c)
    /\ UNCHANGED <<phase, open, conduct, sent, net, out>>

Quit(c) ==
    /\ WorkerFree
    /\ phase[c] = "commands"
    /\ Complete(c)
    /\ Close(c)

(* Mutant: no timeout once a piece of a command has been read. *)
IdleTimeoutEmpty(c) ==
    /\ WorkerFree
    /\ phase[c] = "commands"
    /\ buf[c] = 0 /\ net[c] = 0
    /\ Close(c)

(* The timeout is on the reads. *)
IdleTimeout(c) ==
    /\ WorkerFree
    /\ phase[c] = "commands"
    /\ ~Complete(c)
    /\ net[c] = 0
    /\ Close(c)

(* Mutant: the handshake loop does not look for the end of the stream. *)
ReadEndAdmitted(c) ==
    /\ WorkerFree
    /\ EndOfStream(c)
    /\ \/ phase[c] \in {"greeted", "tls"}
       \/ phase[c] = "commands" /\ ~Complete(c)
    /\ Close(c)

(* End of stream wherever a read waits for more. *)
ReadEnd(c) ==
    /\ WorkerFree
    /\ EndOfStream(c)
    /\ \/ phase[c] \in {"greeted", "tls"}
       \/ phase[c] = "handshake" /\ buf[c] = 0
       \/ phase[c] = "commands" /\ ~Complete(c)
    /\ Close(c)

-----------------------------------------------------------------------------
Init ==
    /\ phase = [c \in Clients |-> "closed"]
    /\ open = [c \in Clients |-> FALSE]
    /\ conduct = [c \in Clients |-> "whole"]
    /\ sent = [c \in Clients |-> 0]
    /\ net = [c \in Clients |-> 0]
    /\ buf = [c \in Clients |-> 0]
    /\ out = [c \in Clients |-> 0]

Handshake(c) ==
    \/ ReadFirst(c) \/ ReadSslRequest(c) \/ Upgrade(c) \/ UpgradeFails(c)
    \/ ReadHandshake(c) \/ Admit(c) \/ BreakOff(c) \/ Deny(c)

Commands(c) ==
    \/ ReadCommands(c) \/ Answer(c) \/ Write(c) \/ WriteFails(c)
    \/ CloseStatement(c) \/ Quit(c)

Session(c) == Handshake(c) \/ Commands(c) \/ ReadEnd(c)

(* The server's steps for a connection. *)
Serve(c) == Accept(c) \/ Reject(c) \/ Session(c) \/ IdleTimeout(c)

Next ==
    \E c \in Clients :
        \/ Connect(c)
        \/ \E halves \in 1 .. 2 : Send(c, halves)
        \/ ReadAnswer(c)
        \/ HangUp(c)
        \/ Serve(c)

(* The runtime polls every task that can go on, and its timers fire.       *)
Fairness == \A c \in Clients : WF_vars(Serve(c))

Spec == Init /\ [][Next]_vars /\ Fairness

-----------------------------------------------------------------------------
(* Properties. *)

(* A packet of the client's handshake reaches the session in pieces: sent  *)
(* in pieces, or cut by the 64 bytes that a TLS session reads.             *)
InPieces(c) ==
    \/ conduct[c] = "split"
    \/ conduct[c] = "long" /\ c \in TlsClients

(* Only handshakes in pieces make run_authenticated_session go round       *)
(* without reading and hold a worker thread.  Those that come whole never  *)
(* do, whatever commands are pipelined behind them, wherever the reads of  *)
(* the TLS session cut these, and however the hello was read.              *)
OnlyPiecesSpin == \A c \in Clients : Spinning(c) => InPieces(c)

(* Sessions that spin hold every worker thread, for ever. *)
Stalled == ~WorkerFree

(* A client whose whole handshake response has reached the server leaves   *)
(* the handshake loop of run_authenticated_session, though sessions of     *)
(* other clients spin, as long as they leave a worker thread.              *)
WholeHandshakesAnswered ==
    \A c \in Clients :
        phase[c] = "handshake" /\ ~InPieces(c) /\ net[c] + buf[c] >= 2
            ~> phase[c] \in {"commands", "closed"} \/ Stalled

(* The same of any handshake, in whatever pieces it came.                  *)
HandshakeAnswered ==
    \A c \in Clients :
        phase[c] = "handshake" /\ net[c] + buf[c] >= 2
            ~> phase[c] \in {"commands", "closed"}

(* A client that asked for TLS and sent its hello gets its TLS session or  *)
(* an error.  It need not: a hello that handle_connection reads together   *)
(* with the SSLRequest is dropped with the buffer it is in.                *)
TlsUpgraded ==
    \A c \in Clients :
        phase[c] = "tls" /\ sent[c] >= 4 ~> phase[c] # "tls"

(* A connection that is not admitted ends, though its client goes silent,  *)
(* as the configuration's handshake_timeout_secs has it.  It need not: no  *)
(* code uses that value, and the permit is never given back.               *)
HandshakesEnd ==
    \A c \in Clients :
        phase[c] \in {"greeted", "tls", "handshake"}
            ~> phase[c] \in {"commands", "closed"}

(* The session waits for a client that neither reads nor hangs up. *)
Unread(c) == phase[c] = "answering" /\ out[c] = Room /\ open[c]

(* A command that has arrived whole, or whose answer is on its way. *)
Due(c) ==
    \/ phase[c] = "commands" /\ net[c] + buf[c] >= 2
    \/ phase[c] = "answering"

(* Every command the command loop has been sent whole is answered or its   *)
(* connection ends, however many are in flight and however they are cut by *)
(* the reads, unless the client stops reading answers for good.            *)
CommandsAnswered ==
    \A c \in Clients : <>[]Unread(c) \/ (Due(c) ~> ~Due(c) \/ Stalled)

(* A session in the command loop whose client stops sending ends, by its   *)
(* idle timeout if not otherwise, so that its permit can go to a client    *)
(* that run would have to reject.  What the timeout does not cover is the  *)
(* write to a client that has stopped reading, too.                        *)
SilentSessionsEnd ==
    \A c \in Clients :
        <>[]Unread(c) \/ (InLoop(c) ~> phase[c] = "closed" \/ Stalled)

(* Clients that hang up free their permit wherever they left off, in the   *)
(* backlog, the greeting, the TLS upgrade, the handshake or the command    *)
(* loop, with or without answers unread, but for the handshakes that spin. *)
HungUpSessionsEnd ==
    \A c \in Clients :
        phase[c] # "closed" /\ ~open[c]
            ~> phase[c] = "closed" \/ Spinning(c) \/ Stalled
=============================================================================
