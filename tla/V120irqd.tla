------------------------------- MODULE V120irqd -------------------------------
(***************************************************************************)
(* v120irqd/v120irqd.c: the interrupt dispatch daemon, its clients (which  *)
(* use libV120irqd) and the sockets between them.                          *)
(*                                                                         *)
(* The daemon has one thread.  mainloop waits in ppoll for the interrupt   *)
(* devices, the listening socket and the client sockets, then walks        *)
(* list_pollfds and handles what ppoll reported; pc names the place it has *)
(* reached.  Between two of its steps boards and clients move freely.  It  *)
(* blocks in three places: ppoll ("poll"), the read of process_client      *)
(* ("client"), and the read of v120irqd_interrupt that waits for a client  *)
(* to acknowledge ("await" below process_vme, "fake" below                 *)
(* process_client).                                                        *)
(*                                                                         *)
(* The interrupt vector table appears as the list of claims of             *)
(* InterruptClaims, which IrqVectorTable implements.                       *)
(***************************************************************************)
EXTENDS VmeInterrupts, LibV120irqd, Ascending, Sequences, SequencesExt, FiniteSetsExt

CONSTANTS
    Clients,        \* client connections, as the daemon's socket numbers
    Asks,           \* Asks[c]: the <<call, selector>> pairs client c may make
    Persistent,     \* clients that never hang up
    Refusing,       \* clients that may answer an interrupt with NAK
    Signals,        \* the signals that may be sent: SIGTERM, SIGUSR1
    AllowFakeIrq,   \* settings.allowFakeIrq
    MaxQueue        \* bound: messages one socket direction holds

ASSUME DaemonAssumption ==
    /\ Clients \subseteq Nat \ {0}
    /\ Asks \in [Clients -> SUBSET (Calls \X v120irqd_selector)]
    /\ Persistent \subseteq Clients
    /\ Refusing \subseteq Clients
    /\ Signals \subseteq {"SIGTERM", "SIGUSR1"}
    /\ AllowFakeIrq \in BOOLEAN
    /\ MaxQueue \in Nat /\ MaxQueue > 2

VARIABLES
    \* sockets and clients
    conn,          \* "none", "up" or "hungup": the client's end
    backlog,       \* connections waiting in accept(), at most one: listen(sock, 0)
    c2s, s2c,      \* messages in flight, to and from the daemon
    sockerr,       \* the client closed with unread messages: ECONNRESET pending
    asked,         \* bound: the asks a connection has made, each once
    call,          \* the library call a client is blocked in, or "none"
    inhand,        \* the interrupt a client has received and not yet answered
    \* daemon
    list_pollfds, idx, nevents, pc,
    irq,           \* process_vme: the line being dispatched
    peer,          \* the socket v120irqd_interrupt waits for
    claims,        \* the interrupt vector table
    sigpending,    \* signals blocked until the next ppoll
    sigsent        \* bound: the signals sent so far, each once

sockets == <<conn, backlog, c2s, s2c, sockerr>>
clients == <<asked, call, inhand>>
loop == <<list_pollfds, idx, nevents, pc, irq, peer>>
signals == <<sigpending, sigsent>>
vars == <<hardware, sockets, clients, loop, claims, signals>>

Table == INSTANCE InterruptClaims WITH Requests <- v120irqd_selector

-------------------------------------------------------------------------------
(***************************************************************************)
(* list_pollfds: the interrupt devices, the listening socket, the clients. *)
(* Client sockets are their positive numbers; the listening socket is 0    *)
(* and the interrupt device of crate c is -(c + 1).                        *)
(***************************************************************************)
ServerFd == 0
VmeFd(c) == -(c + 1)
CrateOf(fd) == -fd - 1

len_crates == Cardinality(OpenCrates)

Pollfd(fd, revents) == [fd |-> fd, revents |-> revents]

\* configureVmeEndpoints and configureServerSocket, in the order of the crates.
InitialPollfds ==
    Append([i \in 1..len_crates |-> Pollfd(VmeFd(Ascending(OpenCrates)[i]), FALSE)],
           Pollfd(ServerFd, FALSE))

\* append_fd leaves revents of the new element as realloc found it.
append_fd(fd) ==
    \E garbage \in BOOLEAN : list_pollfds' = Append(list_pollfds, Pollfd(fd, garbage))

\* Mutated form of remove_fd: the entry in front of the client's goes.
remove_fd_before(i) == list_pollfds' = RemoveAt(list_pollfds, i - 1)

remove_fd(i) == list_pollfds' = RemoveAt(list_pollfds, i)

\* A read on client socket s returns at once.
Readable(s) == sockerr[s] \/ c2s[s] # <<>> \/ conn[s] = "hungup"

Ready(fd) ==
    IF fd = ServerFd THEN backlog # {}
    ELSE IF fd < 0 THEN flag[CrateOf(fd)]
    ELSE Readable(fd)

crate == CrateOf(list_pollfds[idx].fd)
sock == list_pollfds[idx].fd

-------------------------------------------------------------------------------
(***************************************************************************)
(* Sockets as the daemon sees them (Unix SOCK_SEQPACKET): after the client *)
(* closed, a write fails; a read returns the error left by unread          *)
(* messages once, then what the client still sent, then end of file.       *)
(***************************************************************************)
CanSend(s) == conn[s] = "up" /\ ~sockerr[s]

\* write: success, or an error that also consumes a pending ECONNRESET.
\* The daemon would block on a full socket.
Send(s, m) ==
    /\ CanSend(s) => Len(s2c[s]) < MaxQueue
    /\ s2c' = IF CanSend(s) THEN [s2c EXCEPT ![s] = Append(@, m)] ELSE s2c
    /\ sockerr' = [sockerr EXCEPT ![s] = FALSE]

Consume(s) ==
    /\ sockerr' = [sockerr EXCEPT ![s] = FALSE]
    /\ c2s' = IF sockerr[s] \/ c2s[s] = <<>> THEN c2s
              ELSE [c2s EXCEPT ![s] = Tail(@)]

\* The read of v120irqd_interrupt returned an ACK.
Acknowledged(s) == ~sockerr[s] /\ c2s[s] # <<>> /\ Answer(Head(c2s[s])) = "OK"

-------------------------------------------------------------------------------
(***************************************************************************)
(* Clients.  Each blocks in one library call at a time; a client with no   *)
(* call to make waits in v120irqd_getinterrupt.                            *)
(***************************************************************************)
Running == pc # "exited"

\* v120irqd_client
Connect(c) ==
    /\ Running /\ conn[c] = "none" /\ backlog = {}
    /\ conn' = [conn EXCEPT ![c] = "up"]
    /\ backlog' = {c}
    /\ asked' = [asked EXCEPT ![c] = {}]
    /\ UNCHANGED <<hardware, c2s, s2c, sockerr, call, inhand, loop, claims, signals>>

\* The sending half of v120irqd_request, _release, _interrupt and _status.
Ask(c, ask) ==
    /\ Running /\ conn[c] = "up" /\ call[c] = "none" /\ inhand[c] = <<>>
    /\ ask \notin asked[c]
    /\ Len(c2s[c]) < MaxQueue
    /\ c2s' = [c2s EXCEPT ![c] = Append(@, MessageOf(ask[1], ask[2]))]
    /\ call' = [call EXCEPT ![c] = ask[1]]
    /\ asked' = [asked EXCEPT ![c] = @ \cup {ask}]
    /\ UNCHANGED <<hardware, conn, backlog, s2c, sockerr, inhand, loop, claims, signals>>

\* The receiving half: the call returns, whatever the message is.  (End of file
\* would return too; CallsReturn shows that no call is left waiting for that.)
Return(c) ==
    /\ call[c] # "none" /\ s2c[c] # <<>>
    /\ s2c' = [s2c EXCEPT ![c] = Tail(@)]
    /\ call' = [call EXCEPT ![c] = "none"]
    /\ UNCHANGED <<hardware, conn, backlog, c2s, sockerr, asked, inhand, loop, claims, signals>>

\* v120irqd_getinterrupt: a message that is not an IRQ_SIGNAL is dropped.
GetInterrupt(c) ==
    /\ conn[c] = "up" /\ call[c] = "none" /\ inhand[c] = <<>> /\ s2c[c] # <<>>
    /\ s2c' = [s2c EXCEPT ![c] = Tail(@)]
    /\ inhand' = IF Wanted("IRQ_SIGNAL", Head(s2c[c])) = "OK"
                 THEN [inhand EXCEPT ![c] = <<Head(s2c[c]).selector>>]
                 ELSE inhand
    /\ UNCHANGED <<hardware, conn, backlog, c2s, sockerr, asked, call, loop, claims, signals>>

\* The client serves the board, then calls v120irqd_ack; or it calls
\* v120irqd_nak.
Respond(c) ==
    /\ Running /\ inhand[c] # <<>> /\ Len(c2s[c]) < MaxQueue
    /\ \/ /\ Service(inhand[c][1])
          /\ c2s' = [c2s EXCEPT ![c] = Append(@, Plain("ACK"))]
       \/ /\ c \in Refusing
          /\ c2s' = [c2s EXCEPT ![c] = Append(@, Plain("NAK"))]
          /\ UNCHANGED hardware
    /\ inhand' = [inhand EXCEPT ![c] = <<>>]
    /\ UNCHANGED <<conn, backlog, s2c, sockerr, asked, call, loop, claims, signals>>

\* The client closes its socket or dies, at any moment.
Hangup(c) ==
    /\ Running /\ conn[c] = "up" /\ c \notin Persistent
    /\ conn' = [conn EXCEPT ![c] = "hungup"]
    /\ sockerr' = [sockerr EXCEPT ![c] = s2c[c] # <<>>]
    /\ s2c' = [s2c EXCEPT ![c] = <<>>]
    /\ call' = [call EXCEPT ![c] = "none"]
    /\ inhand' = [inhand EXCEPT ![c] = <<>>]
    /\ UNCHANGED <<hardware, backlog, c2s, asked, loop, claims, signals>>

\* kill: the signal stays blocked until the daemon is in ppoll.
Kill(sig) ==
    /\ Running /\ sig \notin sigsent
    /\ sigpending' = sigpending \cup {sig}
    /\ sigsent' = sigsent \cup {sig}
    /\ UNCHANGED <<hardware, sockets, clients, loop, claims>>

Raise(b) ==
    /\ Running /\ AssertLine(b)
    /\ UNCHANGED <<sockets, clients, loop, claims, signals>>

-------------------------------------------------------------------------------
(***************************************************************************)
(* mainloop.                                                               *)
(***************************************************************************)
AnyReady == \E i \in DOMAIN list_pollfds : Ready(list_pollfds[i].fd)

\* ppoll returns the number of ready descriptors and fills in revents.
Ppoll ==
    /\ pc = "poll" /\ AnyReady
    /\ list_pollfds' = [i \in DOMAIN list_pollfds |->
                           Pollfd(list_pollfds[i].fd, Ready(list_pollfds[i].fd))]
    /\ nevents' = Cardinality({i \in DOMAIN list_pollfds : Ready(list_pollfds[i].fd)})
    /\ idx' = 1
    /\ pc' = "dispatch"
    /\ UNCHANGED <<hardware, sockets, clients, irq, peer, claims, signals>>

(***************************************************************************)
(* ppoll returns EINTR when a signal is pending and nothing is ready.  The *)
(* handler runs with both signals blocked, so one is taken at a time, the  *)
(* lower numbered SIGUSR1 first; SIGUSR1 only logs a status report.        *)
(***************************************************************************)
\* Mutated form of TakeUsr1: the handlers run nested (sa_mask empty) and the one
\* caughtsignal forgets SIGTERM.
TakeUsr1Nested ==
    /\ pc = "poll" /\ ~AnyReady /\ "SIGUSR1" \in sigpending
    /\ sigpending' = {}
    /\ UNCHANGED <<hardware, sockets, clients, loop, claims, sigsent>>

TakeUsr1 ==
    /\ pc = "poll" /\ ~AnyReady /\ "SIGUSR1" \in sigpending
    /\ sigpending' = sigpending \ {"SIGUSR1"}
    /\ UNCHANGED <<hardware, sockets, clients, loop, claims, sigsent>>

TakeTerm ==
    /\ pc = "poll" /\ ~AnyReady /\ sigpending = {"SIGTERM"}
    /\ sigpending' = {}
    /\ pc' = "exited"
    /\ UNCHANGED <<hardware, sockets, clients, list_pollfds, idx, nevents, irq, peer, claims, sigsent>>

NextEvents == {i \in idx..Len(list_pollfds) : list_pollfds[i].revents}

\* The for loop advances to the next element whose revents is set.
Dispatch ==
    /\ pc = "dispatch" /\ nevents > 0 /\ NextEvents # {}
    /\ idx' = Min(NextEvents)
    /\ pc' = IF idx' <= len_crates THEN "vme"
             ELSE IF idx' = len_crates + 1 THEN "accept"
             ELSE "client"
    /\ UNCHANGED <<hardware, sockets, clients, list_pollfds, nevents, irq, peer, claims, signals>>

\* The loop ends; what is left in idx, nevents and revents is never read again.
EndPass ==
    /\ pc = "dispatch" /\ (nevents = 0 \/ NextEvents = {})
    /\ pc' = "poll"
    /\ idx' = 1 /\ nevents' = 0
    /\ list_pollfds' = [i \in DOMAIN list_pollfds |-> Pollfd(list_pollfds[i].fd, FALSE)]
    /\ UNCHANGED <<hardware, sockets, clients, irq, peer, claims, signals>>

\* Mutated form of Handled: the index advances in the body and in the for.
HandledTwice ==
    /\ idx' = idx + 2
    /\ nevents' = nevents - 1
    /\ pc' = "dispatch"
    /\ irq' = 0 /\ peer' = 0

\* "No matter what we did, we handled one event."
Handled ==
    /\ idx' = idx + 1
    /\ nevents' = nevents - 1
    /\ pc' = "dispatch"
    /\ irq' = 0 /\ peer' = 0

-------------------------------------------------------------------------------
(***************************************************************************)
(* notify_irq and v120irqd_interrupt.                                      *)
(***************************************************************************)

\* find_interrupt puts the payload of the matching entry in the selector.
Delivered(sel) ==
    [sel EXCEPT !.payload = claims[Min(Table!Matching(sel))].selector.payload]

\* Mutated form of Signal: resp.msg is not assigned.
SignalUnset(sel) == WithSelector("NAK", Delivered(sel))

\* The message v120irqd_interrupt writes to the recipient of sel.
Signal(sel) == WithSelector("IRQ_SIGNAL", Delivered(sel))

(***************************************************************************)
(* process_vme.  irqen is cached while it runs; only the daemon writes it, *)
(* so the model reads the register itself.                                 *)
(***************************************************************************)
Pending(c) == irqstatus(c) \cap irqen[c]

VmeRead ==
    /\ pc = "vme"
    /\ ReadFlag(crate)
    /\ pc' = "search"
    /\ UNCHANGED <<sockets, clients, list_pollfds, idx, nevents, irq, peer, claims, signals>>

VmeDone ==
    /\ pc = "search" /\ Pending(crate) = {}
    /\ Handled
    /\ UNCHANGED <<hardware, sockets, clients, list_pollfds, claims, signals>>

\* The highest line first.
VmeSearch ==
    /\ pc = "search" /\ Pending(crate) # {}
    /\ irq' = Max(Pending(crate))
    /\ pc' = "iack"
    /\ UNCHANGED <<hardware, sockets, clients, list_pollfds, idx, nevents, peer, claims, signals>>

\* Mutated form of VmeNotify: it does not wait for the answer.
VmeNotifyAsync(vector) ==
    LET sel == Concrete(crate, irq, vector)
        r   == Table!Recipient(sel)
    IN  /\ pc = "iack" /\ r # 0
        /\ Iack(crate, irq, vector)
        /\ Send(r, Signal(sel))
        /\ pc' = "recheck" /\ peer' = 0
        /\ UNCHANGED <<conn, backlog, c2s, clients, list_pollfds, idx, nevents, irq, claims, signals>>

\* The vector is read; the client it belongs to is sent the interrupt.
VmeNotify(vector) ==
    LET sel == Concrete(crate, irq, vector)
        r   == Table!Recipient(sel)
    IN  /\ pc = "iack" /\ r # 0
        /\ Iack(crate, irq, vector)
        /\ Send(r, Signal(sel))
        /\ IF CanSend(r) THEN pc' = "await" /\ peer' = r
                         ELSE pc' = "recheck" /\ peer' = 0
        /\ UNCHANGED <<conn, backlog, c2s, clients, list_pollfds, idx, nevents, irq, claims, signals>>

\* Nobody registered for it.
VmeTargetless(vector) ==
    /\ pc = "iack" /\ Table!Recipient(Concrete(crate, irq, vector)) = 0
    /\ Iack(crate, irq, vector)
    /\ pc' = "recheck"
    /\ UNCHANGED <<sockets, clients, list_pollfds, idx, nevents, irq, peer, claims, signals>>

\* Mutated form of VmeAcked: one interrupt per notification.
VmeAckedOnce ==
    /\ pc = "await" /\ Acknowledged(peer)
    /\ Consume(peer)
    /\ Handled
    /\ UNCHANGED <<hardware, conn, backlog, s2c, clients, list_pollfds, claims, signals>>

VmeAcked ==
    /\ pc = "await" /\ Acknowledged(peer)
    /\ Consume(peer)
    /\ pc' = "search" /\ irq' = 0 /\ peer' = 0
    /\ UNCHANGED <<hardware, conn, backlog, s2c, clients, list_pollfds, idx, nevents, claims, signals>>

\* A NAK, another message, an error or end of file.
VmeFailed ==
    /\ pc = "await" /\ Readable(peer) /\ ~Acknowledged(peer)
    /\ Consume(peer)
    /\ pc' = "recheck" /\ peer' = 0
    /\ UNCHANGED <<hardware, conn, backlog, s2c, clients, list_pollfds, idx, nevents, irq, claims, signals>>

\* The line is read again: released, or stuck.
VmeRecheck ==
    /\ pc = "recheck"
    /\ IF irq \in irqstatus(crate) THEN pc' = "disable" /\ UNCHANGED irq
                                   ELSE pc' = "search" /\ irq' = 0
    /\ UNCHANGED <<hardware, sockets, clients, list_pollfds, idx, nevents, peer, claims, signals>>

VmeDisable ==
    /\ pc = "disable"
    /\ WriteIrqen([irqen EXCEPT ![crate] = @ \ {irq}])
    /\ pc' = "search" /\ irq' = 0
    /\ UNCHANGED <<sockets, clients, list_pollfds, idx, nevents, peer, claims, signals>>

process_vme ==
    \/ VmeRead \/ VmeDone \/ VmeSearch
    \/ \E v \in Vectors : VmeNotify(v) \/ VmeTargetless(v)
    \/ VmeAcked \/ VmeFailed \/ VmeRecheck \/ VmeDisable

-------------------------------------------------------------------------------
process_newclient ==
    /\ pc = "accept"
    /\ \E s \in backlog : append_fd(s)
    /\ backlog' = {}
    /\ Handled
    /\ UNCHANGED <<hardware, conn, c2s, s2c, sockerr, clients, claims, signals>>

-------------------------------------------------------------------------------
(***************************************************************************)
(* IRQEN as a function of the table.                                       *)
(***************************************************************************)

\* list_registered_interrupts: the lines some claim in table names on crate c.
Registered(table, c) ==
    UNION {table[i].selector.irq : i \in {j \in DOMAIN table : c \in table[j].selector.crate}}

\* The crate mask of the request is tested for being nonzero, not for the bit
\* of the crate: the lines are enabled on every open crate.
enable_interrupts(sel) ==
    WriteIrqen([c \in OpenCrates |->
                   irqen[c] \cup IF sel.crate # {} THEN sel.irq ELSE {}])

\* Mutated form of disable_unused_interrupts: the lines of the claims that went
\* away are disabled, shared or not.
disable_unused_interrupts_shared ==
    LET gone == SelectSeq(claims, LAMBDA e : e \notin ToSet(claims'))
    IN  WriteIrqen([c \in OpenCrates |-> irqen[c] \ Registered(gone, c)])

\* Called after the table has changed.
disable_unused_interrupts ==
    WriteIrqen([c \in OpenCrates |-> Registered(claims', c)])

-------------------------------------------------------------------------------
(***************************************************************************)
(* process_client.                                                         *)
(***************************************************************************)
ClientError ==
    /\ pc = "client" /\ sockerr[sock]
    /\ Consume(sock)
    /\ Handled
    /\ UNCHANGED <<hardware, conn, backlog, s2c, clients, list_pollfds, claims, signals>>

\* Mutated form of ClientHangup: the claims stay.
ClientHangupKeep ==
    /\ pc = "client" /\ ~sockerr[sock] /\ c2s[sock] = <<>> /\ conn[sock] = "hungup"
    /\ remove_fd(idx)
    /\ UNCHANGED claims
    /\ disable_unused_interrupts
    /\ conn' = [conn EXCEPT ![sock] = "none"]
    /\ Handled
    /\ UNCHANGED <<backlog, c2s, s2c, sockerr, clients, signals>>

\* End of file.  idx then moves past the entry that took the place of this one.
ClientHangup ==
    /\ pc = "client" /\ ~sockerr[sock] /\ c2s[sock] = <<>> /\ conn[sock] = "hungup"
    /\ remove_fd(idx)
    /\ Table!GiveUpAll(sock)
    /\ disable_unused_interrupts
    /\ conn' = [conn EXCEPT ![sock] = "none"]
    /\ Handled
    /\ UNCHANGED <<backlog, c2s, s2c, sockerr, clients, signals>>

\* The message m is read from the client being processed.
Receive(m) ==
    /\ pc = "client" /\ ~sockerr[sock] /\ c2s[sock] # <<>>
    /\ m = Head(c2s[sock])
    /\ c2s' = [c2s EXCEPT ![sock] = Tail(@)]

\* The message is answered and nothing else happens on the sockets.
Reply(m) ==
    /\ Send(sock, m)
    /\ Handled
    /\ UNCHANGED <<conn, backlog, clients, list_pollfds, signals>>

\* Mutated form of RequestGranted: the ACK is forgotten.
RequestGrantedSilent(m) ==
    /\ m.msg = "REQUEST_IRQ" /\ Receive(m)
    /\ Table!Grant(sock, m.selector)
    /\ enable_interrupts(m.selector)
    /\ Handled
    /\ UNCHANGED <<conn, backlog, s2c, sockerr, clients, list_pollfds, signals>>

RequestGranted(m) ==
    /\ m.msg = "REQUEST_IRQ" /\ Receive(m)
    /\ Table!Grant(sock, m.selector)
    /\ Reply(Plain("ACK"))
    /\ IF CanSend(sock) THEN enable_interrupts(m.selector) ELSE UNCHANGED hardware

RequestRefused(m) ==
    /\ m.msg = "REQUEST_IRQ" /\ Receive(m)
    /\ ~LegalRequest(m.selector) \/ Table!Matching(m.selector) # {}
    /\ Reply(Plain("NAK"))
    /\ UNCHANGED <<hardware, claims>>

ReleaseGranted(m) ==
    /\ m.msg = "RELEASE_IRQ" /\ Receive(m)
    /\ Table!GiveUp(sock, m.selector)
    /\ Reply(Plain("ACK"))
    /\ disable_unused_interrupts

ReleaseRefused(m) ==
    /\ m.msg = "RELEASE_IRQ" /\ Receive(m)
    /\ Table!Holding(sock, m.selector) = {}
    /\ UNCHANGED claims
    /\ Reply(Plain("NAK"))
    /\ disable_unused_interrupts

FakeForbidden(m) ==
    /\ m.msg = "IRQ_SIGNAL" /\ ~AllowFakeIrq /\ Receive(m)
    /\ Reply(Plain("NAK"))
    /\ UNCHANGED <<hardware, claims>>

\* Mutated form of FakeRecipient: the signal goes back to the faker.
FakeRecipientSelf(m) ==
    IF Table!Recipient(m.selector) = 0 THEN 0 ELSE sock

FakeRecipient(m) == Table!Recipient(m.selector)

\* The ACK cannot be sent, or nobody registered for the faked interrupt.
FakeTargetless(m) ==
    /\ m.msg = "IRQ_SIGNAL" /\ AllowFakeIrq /\ Receive(m)
    /\ ~CanSend(sock) \/ FakeRecipient(m) = 0
    /\ Reply(Plain("ACK"))
    /\ UNCHANGED <<hardware, claims>>

\* The faker is acknowledged; then the recipient, perhaps the same client, is
\* sent the interrupt.
FakeNotify(m) ==
    LET r     == FakeRecipient(m)
        acked == [s2c EXCEPT ![sock] = Append(@, Plain("ACK"))]
    IN  /\ m.msg = "IRQ_SIGNAL" /\ AllowFakeIrq /\ Receive(m)
        /\ CanSend(sock) /\ Len(acked[sock]) <= MaxQueue /\ r # 0
        /\ sockerr' = [sockerr EXCEPT ![r] = FALSE]
        /\ \/ /\ CanSend(r) /\ Len(acked[r]) < MaxQueue
              /\ s2c' = [acked EXCEPT ![r] = Append(@, Signal(m.selector))]
              /\ pc' = "fake" /\ peer' = r
              /\ UNCHANGED <<idx, nevents, irq>>
           \/ /\ ~CanSend(r)
              /\ s2c' = acked
              /\ Handled
        /\ UNCHANGED <<hardware, conn, backlog, clients, list_pollfds, claims, signals>>

FakeAnswer ==
    /\ pc = "fake" /\ Readable(peer)
    /\ Consume(peer)
    /\ Handled
    /\ UNCHANGED <<hardware, conn, backlog, s2c, clients, list_pollfds, claims, signals>>

ServerStatus(m) ==
    /\ m.msg = "SERVER_STATUS" /\ Receive(m)
    /\ Reply(Plain("SERVER_STATUS"))
    /\ UNCHANGED <<hardware, claims>>

\* "Bad message received": a response nobody waits for.
BadMessage(m) ==
    /\ m.msg \in {"ACK", "NAK"} /\ Receive(m)
    /\ Handled
    /\ UNCHANGED <<hardware, conn, backlog, s2c, sockerr, clients, list_pollfds, claims, signals>>

process_client ==
    \/ ClientError \/ ClientHangup \/ FakeAnswer
    \/ /\ pc = "client" /\ c2s[sock] # <<>>
       /\ \E m \in {Head(c2s[sock])} :
             \/ RequestGranted(m) \/ RequestRefused(m)
             \/ ReleaseGranted(m) \/ ReleaseRefused(m)
             \/ FakeForbidden(m) \/ FakeTargetless(m) \/ FakeNotify(m)
             \/ ServerStatus(m) \/ BadMessage(m)

-------------------------------------------------------------------------------
Init ==
    /\ HardwareInit
    /\ conn = [c \in Clients |-> "none"] /\ backlog = {}
    /\ c2s = [c \in Clients |-> <<>>] /\ s2c = [c \in Clients |-> <<>>]
    /\ sockerr = [c \in Clients |-> FALSE]
    /\ asked = [c \in Clients |-> {}]
    /\ call = [c \in Clients |-> "none"]
    /\ inhand = [c \in Clients |-> <<>>]
    /\ list_pollfds = InitialPollfds
    /\ idx = 1 /\ nevents = 0 /\ pc = "poll"
    /\ irq = 0 /\ peer = 0
    /\ Table!Init
    /\ sigpending = {} /\ sigsent = {}

mainloop ==
    \/ Ppoll \/ TakeUsr1 \/ TakeTerm \/ Dispatch \/ EndPass
    \/ process_vme \/ process_newclient \/ process_client

ClientServes(c) == Return(c) \/ GetInterrupt(c) \/ Respond(c)

Client(c) ==
    \/ Connect(c) \/ Hangup(c) \/ ClientServes(c)
    \/ \E ask \in Asks[c] : Ask(c, ask)

Next ==
    \/ mainloop
    \/ \E c \in Clients : Client(c)
    \/ \E sig \in Signals : Kill(sig)
    \/ \E b \in Boards : Raise(b)

(***************************************************************************)
(* The daemon runs whenever it is not blocked, and a client that has a     *)
(* message or an interrupt in hand gets on with it.  Nobody has to         *)
(* connect, ask, hang up, signal or assert an interrupt.                   *)
(***************************************************************************)
Spec ==
    /\ Init /\ [][Next]_vars
    /\ WF_vars(mainloop)
    /\ \A c \in Clients : WF_vars(ClientServes(c))
-------------------------------------------------------------------------------
(***************************************************************************)
(* Properties.                                                             *)
(***************************************************************************)
Places == {"poll", "dispatch", "vme", "search", "iack", "await", "recheck",
           "disable", "accept", "client", "fake", "exited"}

\* Every variable has its type, mainloop stays within the list and the count
\* that ppoll returned, and no socket ever holds MaxQueue messages, so that the
\* bound stops nobody.
TypeOK ==
    /\ HardwareTypeOK
    /\ conn \in [Clients -> {"none", "up", "hungup"}]
    /\ backlog \subseteq Clients
    /\ \A c \in Clients : /\ c2s[c] \in Seq(response_buffer) /\ Len(c2s[c]) < MaxQueue
                          /\ s2c[c] \in Seq(response_buffer) /\ Len(s2c[c]) < MaxQueue
    /\ sockerr \in [Clients -> BOOLEAN]
    /\ \A c \in Clients : asked[c] \subseteq Asks[c]
    /\ call \in [Clients -> Calls \cup {"none"}]
    /\ \A c \in Clients : inhand[c] \in Seq(v120irqd_selector) /\ Len(inhand[c]) <= 1
    /\ list_pollfds \in Seq([fd : Int, revents : BOOLEAN])
    /\ idx \in 1..(Len(list_pollfds) + 2)
    /\ nevents \in 0..Len(list_pollfds)
    /\ pc \in Places
    /\ irq \in ANYIRQ \cup {0}
    /\ peer \in Clients \cup {0}
    /\ claims \in Seq(Table!Claim)
    /\ sigpending \subseteq sigsent /\ sigsent \subseteq Signals

ClientFds == {list_pollfds[i].fd : i \in (len_crates + 2)..Len(list_pollfds)}

\* Whatever is accepted and removed while mainloop walks the list, it holds the
\* devices and the listening socket first and then each accepted connection
\* that is not yet closed, exactly once: remove_fd always removes the entry of
\* the client that hung up and never aborts.
PollListComplete ==
    /\ SubSeq([i \in DOMAIN list_pollfds |-> list_pollfds[i].fd], 1, len_crates + 1)
         = [i \in DOMAIN InitialPollfds |-> InitialPollfds[i].fd]
    /\ ClientFds = {c \in Clients : conn[c] # "none"} \ backlog
    /\ Cardinality(ClientFds) = Len(list_pollfds) - len_crates - 1

\* No interrupt is delivered on behalf of a closed connection: every claim
\* belongs to a connection that is still polled, so that a new connection that
\* is given the same socket number starts with no claim.
ClaimsHaveConnections ==
    \A i \in DOMAIN claims : claims[i].data \in ClientFds

\* The driver reports an edge only, so a line that is asserted and enabled when
\* the daemon stops looking would be ignored for ever: as long as a crate has
\* such a line, its notification is pending or process_vme is still in its loop.
InProcessVme(c) ==
    /\ pc \in {"search", "iack", "await", "recheck", "disable"}
    /\ crate = c

NoLostInterrupt ==
    \A c \in OpenCrates : Active(c) => flag[c] \/ InProcessVme(c)

\* A claimed and enabled line stays enabled while it is claimed, whoever else
\* registers, releases or hangs up; only process_vme turns it off, when it
\* could not be delivered and the line was still asserted.
ClaimedLineStaysEnabled ==
    [][\A c \in OpenCrates : \A i \in irqen[c] :
          (i \in Registered(claims, c) /\ i \in Registered(claims', c)) =>
              i \in irqen'[c] \/ (pc = "disable" /\ crate = c /\ irq = i)]_vars

\* An interrupt in a client's hand belongs to a claim that the client still has,
\* and carries the payload the client registered: process_vme and the fake
\* interrupt keep the table from changing until the client has answered.
InterruptsAreClaimed ==
    \A c \in Clients : \A k \in DOMAIN inhand[c] :
        \E i \in DOMAIN claims :
            /\ claims[i].data = c
            /\ hashmatch(claims[i].selector, inhand[c][k])
            /\ claims[i].selector.payload = inhand[c][k].payload

\* A claim goes away only when the daemon handles a message or the end of its own
\* connection; nobody can take another client's interrupts away.
OnlyOwnersRelease ==
    [][\A e \in ToSet(claims) \ ToSet(claims') : pc = "client" /\ sock = e.data]_vars

\* Clients that ask only before they have anything registered: one that may request
\* an interrupt makes that one call and no other.
CarefulAsks ==
    \A c \in Clients : \A a, b \in Asks[c] : a[1] = "request" => b = a

\* A client that has an interrupt in hand, or about to be read, is the one the
\* daemon waits for, and has only that one: so a client's answer is taken for
\* the interrupt it answers.  (For CarefulAsks.)
Undelivered(c) ==
    Cardinality({i \in DOMAIN s2c[c] : s2c[c][i].msg = "IRQ_SIGNAL"}) + Len(inhand[c])

Responses(c) == {i \in DOMAIN c2s[c] : c2s[c][i].msg \in {"ACK", "NAK"}}

OneInterruptAtATime ==
    \A c \in Clients :
        /\ Undelivered(c) + Cardinality(Responses(c)) > 0 /\ conn[c] = "up" =>
              pc \in {"await", "fake"} /\ peer = c
        /\ Undelivered(c) + Cardinality(Responses(c)) <= 1

\* The read in v120irqd_interrupt finds the answer to the interrupt, and not a
\* request of the client that it would swallow.  (For CarefulAsks.)
AnswersOnly ==
    pc \in {"await", "fake"} /\ c2s[peer] # <<>> =>
        Head(c2s[peer]).msg \in {"ACK", "NAK"}

\* The daemon and a client never wait for each other: when the daemon waits for
\* an answer, the client has the interrupt, or has answered, or is gone.
NoMutualWait ==
    pc \in {"await", "fake"} =>
        Readable(peer) \/ Undelivered(peer) > 0

\* Every library call returns.
CallsReturn == \A c \in Clients : call[c] # "none" ~> call[c] = "none"

\* An interrupt that is asserted on an enabled line is served or acknowledged;
\* with willing clients the line is not disabled in place of it.
InterruptsServed ==
    \A b \in Boards :
        (b \in asserting /\ b.irq \in irqen[b.crate]) ~>
            b \notin asserting \/ pc = "exited"

\* SIGTERM ends the daemon once its events are handled, also when it arrives
\* together with SIGUSR1.
Terminates == "SIGTERM" \in sigpending ~> pc = "exited"
-------------------------------------------------------------------------------
(***************************************************************************)
(* What the comments and the documentation say, and the code does not do.  *)
(***************************************************************************)

\* enable_interrupts: the lines of a request are enabled on the crates of the
\* request; so, with disable_unused_interrupts, a line is enabled only on a
\* crate where somebody claims it.
EnabledLinesAreClaimed ==
    \A c \in OpenCrates : irqen[c] \subseteq Registered(claims, c)

\* v120irqd_request, _release and _interrupt: the next message on the socket
\* is the server's answer.
RepliesInTurn ==
    \A c \in Clients :
        call[c] \in {"request", "release", "interrupt"} /\ s2c[c] # <<>> =>
            Head(s2c[c]).msg \in {"ACK", "NAK"}

\* mainloop blocks in ppoll: the client it turns to after that has something
\* to read.
OnlyPpollBlocks == pc = "client" => Readable(sock)
===============================================================================
