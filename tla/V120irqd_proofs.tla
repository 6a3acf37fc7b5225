---------------------------- MODULE V120irqd_proofs ----------------------------
(***************************************************************************)
(* Proofs about the dispatch daemon, for every number of crates, lines,    *)
(* boards and clients and for every set of calls the clients may make.     *)
(***************************************************************************)
EXTENDS V120irqd, Ascending_proofs

-------------------------------------------------------------------------------
(***************************************************************************)
(* Lemmas about the operators of the model.                                *)
(***************************************************************************)

\* Reading a message takes the first one and leaves the others in order.
LEMMA TailProperties ==
    ASSUME NEW S, NEW s \in Seq(S), s # <<>>
    PROVE  /\ Len(s) \in Nat /\ Len(s) > 0
           /\ Head(s) = s[1] /\ Head(s) \in S
           /\ Tail(s) \in Seq(S)
           /\ Len(Tail(s)) = Len(s) - 1
           /\ \A i \in 1..(Len(s) - 1) : Tail(s)[i] = s[i + 1]
    BY HeadTailProperties, LenProperties, EmptySeq

\* Sending a message adds it behind the others.
LEMMA AppendFacts ==
    ASSUME NEW S, NEW s \in Seq(S), NEW e \in S
    PROVE  /\ Len(s) \in Nat
           /\ Append(s, e) \in Seq(S)
           /\ Append(s, e) # <<>>
           /\ Len(Append(s, e)) = Len(s) + 1
           /\ \A i \in 1..Len(s) : Append(s, e)[i] = s[i]
           /\ Append(s, e)[Len(s) + 1] = e
    BY AppendProperties, LenProperties

\* A function over the first numbers is a sequence of that length.
LEMMA FunctionIsSeq ==
    ASSUME NEW S, NEW n \in Nat, NEW f \in [1..n -> S]
    PROVE  f \in Seq(S) /\ Len(f) = n
<1>1. f \in Seq(S)
    BY SeqDef
<1>2. DOMAIN f = 1..Len(f) /\ Len(f) \in Nat
    BY <1>1, LenProperties
<1> QED
    BY <1>1, <1>2

\* The daemon opens one device for each crate, and numbers them as crates.
LEMMA CratesListed ==
    /\ len_crates \in Nat
    /\ Len(InitialPollfds) = len_crates + 1
    /\ InitialPollfds \in Seq([fd : Int, revents : BOOLEAN])
    /\ \A i \in 1..len_crates : /\ InitialPollfds[i].fd < 0
                                /\ CrateOf(InitialPollfds[i].fd) \in OpenCrates
    /\ InitialPollfds[len_crates + 1] = Pollfd(ServerFd, FALSE)
<1> DEFINE T == [fd : Int, revents : BOOLEAN]
           vme == [i \in 1..len_crates |-> Pollfd(VmeFd(Ascending(OpenCrates)[i]), FALSE)]
<1>1. OpenCrates \subseteq Nat /\ IsFiniteSet(OpenCrates)
    <2>1. OpenCrates \subseteq Crates /\ Crates \subseteq Nat /\ IsFiniteSet(Crates)
        BY BoardAssumption, SelectorAssumption
    <2> QED
        BY <2>1, FS_Subset
<1>2. len_crates \in Nat /\ Ascending(OpenCrates) \in [1..len_crates -> OpenCrates]
    BY <1>1, AscendingProperties DEF len_crates
<1>3. ASSUME NEW i \in 1..len_crates
      PROVE  vme[i] \in T /\ vme[i].fd < 0 /\ CrateOf(vme[i].fd) \in OpenCrates
    <2> DEFINE k == Ascending(OpenCrates)[i]
    <2>1. k \in OpenCrates /\ k \in Nat
        BY <1>1, <1>2
    <2>2. vme[i] = [fd |-> -(k + 1), revents |-> FALSE]
        BY DEF Pollfd, VmeFd
    <2> HIDE DEF k, vme
    <2>3. -(k + 1) \in Int /\ -(k + 1) < 0 /\ -(-(k + 1)) - 1 = k
        BY <2>1
    <2> QED
        BY <2>1, <2>2, <2>3 DEF CrateOf
<1>4. vme \in Seq(T) /\ Len(vme) = len_crates
    <2>1. vme \in [1..len_crates -> T]
        BY <1>3
    <2> HIDE DEF vme, T
    <2> QED
        BY <2>1, <1>2, FunctionIsSeq
<1>5. Pollfd(ServerFd, FALSE) \in T
    BY DEF Pollfd, ServerFd
<1>6. InitialPollfds = Append(vme, Pollfd(ServerFd, FALSE))
    BY DEF InitialPollfds
<1> DEFINE server == Pollfd(ServerFd, FALSE)
<1> HIDE DEF vme, T, server
<1>7. /\ Append(vme, server) \in Seq(T)
      /\ Len(Append(vme, server)) = Len(vme) + 1
      /\ \A i \in 1..Len(vme) : Append(vme, server)[i] = vme[i]
      /\ Append(vme, server)[Len(vme) + 1] = server
    <2>1. server \in T
        BY <1>5 DEF server
    <2> QED
        BY <2>1, <1>4, AppendFacts
<1>8. InitialPollfds \in Seq([fd : Int, revents : BOOLEAN])
    BY <1>6, <1>7 DEF T, server
<1> QED
    BY <1>2, <1>3, <1>4, <1>6, <1>7, <1>8 DEF server

-------------------------------------------------------------------------------
(***************************************************************************)
(* The inductive invariant.                                                *)
(***************************************************************************)

\* Places inside process_vme, and places where the daemon waits for a client.
VmePlaces == {"vme", "search", "iack", "await", "recheck", "disable"}
Waits == {"await", "fake"}

\* The types of the variables.
Typed ==
    /\ HardwareTypeOK
    /\ conn \in [Clients -> {"none", "up", "hungup"}]
    /\ backlog \subseteq Clients
    /\ c2s \in [Clients -> Seq(response_buffer)]
    /\ s2c \in [Clients -> Seq(response_buffer)]
    /\ sockerr \in [Clients -> BOOLEAN]
    /\ asked \in [Clients -> SUBSET (Calls \X v120irqd_selector)]
    /\ \A c \in Clients : asked[c] \subseteq Asks[c]
    /\ call \in [Clients -> Calls \cup {"none"}]
    /\ inhand \in [Clients -> Seq(v120irqd_selector)]
    /\ \A c \in Clients : Len(inhand[c]) <= 1
    /\ list_pollfds \in Seq([fd : Int, revents : BOOLEAN])
    /\ idx \in 1..(Len(list_pollfds) + 2)
    /\ nevents \in 0..Len(list_pollfds)
    /\ pc \in Places
    /\ irq \in ANYIRQ \cup {0}
    /\ peer \in Clients \cup {0}
    /\ claims \in Seq(Table!Claim)
    /\ \A i \in DOMAIN claims : LegalRequest(claims[i].selector)
    /\ sigpending \subseteq sigsent /\ sigsent \subseteq Signals

\* What kind of descriptor mainloop has in hand at each place, and that it is there
\* for an event that was reported.
Position ==
    /\ pc \in VmePlaces => idx <= len_crates
    /\ pc = "accept" => idx = len_crates + 1
    /\ pc \in {"client", "fake"} => idx \in (len_crates + 2)..Len(list_pollfds)
    /\ pc \notin {"poll", "dispatch", "exited"} => nevents > 0
    /\ pc \in {"iack", "await", "recheck", "disable"} => irq \in ANYIRQ

\* The entries of list_pollfds that are clients.
ClientSlots == (len_crates + 2)..Len(list_pollfds)

\* What PollListComplete says, slot by slot, with what accept() may return.
PollList ==
    /\ Len(list_pollfds) >= len_crates + 1
    /\ \A i \in 1..(len_crates + 1) : list_pollfds[i].fd = InitialPollfds[i].fd
    /\ \A i, j \in ClientSlots : list_pollfds[i].fd = list_pollfds[j].fd => i = j
    /\ ClientFds = {c \in Clients : conn[c] # "none"} \ backlog
    /\ \A c \in backlog : conn[c] # "none"
    /\ \A c, d \in backlog : c = d

\* The daemon is in v120irqd_interrupt, reading the answer of client c.
Awaited(c) == pc \in Waits /\ peer = c

\* One for each party that waits for a message of the connection of c: the client
\* in a library call, the daemon in v120irqd_interrupt.
Waiters(c) == (IF call[c] = "none" THEN 0 ELSE 1) + (IF Awaited(c) THEN 1 ELSE 0)

\* Every message between the daemon and a connected client, or the interrupt it
\* turned into, has exactly one party that waits for it; only an answer to an
\* interrupt is read by the daemon ahead of the client's own calls.
Conversation(c) ==
    /\ conn[c] = "none" => /\ c2s[c] = <<>> /\ s2c[c] = <<>> /\ ~sockerr[c]
                           /\ call[c] = "none" /\ inhand[c] = <<>>
    /\ conn[c] = "hungup" => /\ s2c[c] = <<>> /\ call[c] = "none" /\ inhand[c] = <<>>
                             /\ Len(c2s[c]) <= 2
    /\ conn[c] = "up" => /\ ~sockerr[c]
                         /\ Len(s2c[c]) + Len(c2s[c]) + Len(inhand[c]) = Waiters(c)
    /\ inhand[c] # <<>> => conn[c] = "up" /\ call[c] = "none" /\ Awaited(c)
    /\ \A i \in 1..Len(c2s[c]) :
          c2s[c][i].msg \in {"ACK", "NAK"} => i = 1 /\ (conn[c] = "up" => Awaited(c))

\* In a table of claims, client c holds one that matches sel and carries its payload.
HasClaim(table, c, sel) ==
    \E i \in DOMAIN table :
        /\ table[i].data = c
        /\ hashmatch(table[i].selector, sel)
        /\ table[i].selector.payload = sel.payload

\* While the daemon waits for a client, the last message to it, or the interrupt in
\* its hand, is an interrupt the client has registered for.
Dispatched ==
    /\ pc \in Waits => peer \in ClientFds
    /\ \A c \in Clients :
          /\ Awaited(c) /\ s2c[c] # <<>> =>
                /\ s2c[c][Len(s2c[c])].msg = "IRQ_SIGNAL"
                /\ HasClaim(claims, c, s2c[c][Len(s2c[c])].selector)
          /\ inhand[c] # <<>> => HasClaim(claims, c, inhand[c][1])

IInv ==
    /\ Typed
    /\ Position
    /\ PollList
    /\ \A c \in Clients : Conversation(c)
    /\ ClaimsHaveConnections
    /\ Dispatched
    /\ NoLostInterrupt

-------------------------------------------------------------------------------
(***************************************************************************)
(* What a step that does not touch a part of the state leaves in place.    *)
(***************************************************************************)

\* ppoll and EndPass rewrite revents, clients connect and hang up: the polled
\* descriptors stay the same.
LEMMA PollListKept ==
    ASSUME Typed, PollList,
           Len(list_pollfds') = Len(list_pollfds),
           \A i \in 1..Len(list_pollfds) : list_pollfds'[i].fd = list_pollfds[i].fd,
           {c \in Clients : conn'[c] # "none"} \ backlog'
               = {c \in Clients : conn[c] # "none"} \ backlog,
           \A c \in backlog' : conn'[c] # "none",
           \A c, d \in backlog' : c = d
    PROVE  PollList' /\ ClientFds' = ClientFds
<1>1. len_crates \in Nat /\ Len(list_pollfds) \in Nat
    BY CratesListed, LenProperties DEF Typed
<1>2. ClientFds' = ClientFds
    BY <1>1 DEF ClientFds, PollList
<1> QED
    BY <1>1, <1>2 DEF PollList, ClientSlots

\* Nothing of the connections changes: nothing of the poll list does.
LEMMA PollListSame ==
    ASSUME PollList, UNCHANGED <<list_pollfds, conn, backlog>>
    PROVE  PollList' /\ ClientFds' = ClientFds
    BY DEF PollList, ClientSlots, ClientFds

\* The conversation of a client depends on its sockets, its own state and on
\* whether the daemon waits for it.
LEMMA ConversationSame ==
    ASSUME NEW c, Conversation(c),
           conn'[c] = conn[c], c2s'[c] = c2s[c], s2c'[c] = s2c[c],
           sockerr'[c] = sockerr[c], call'[c] = call[c], inhand'[c] = inhand[c],
           Awaited(c)' <=> Awaited(c)
    PROVE  Conversation(c)'
    BY DEF Conversation, Waiters

\* Outside v120irqd_interrupt no client has an interrupt in hand.
LEMMA NothingInHand ==
    ASSUME NEW c \in Clients, Conversation(c), pc \notin Waits
    PROVE  inhand[c] = <<>>
    BY DEF Conversation, Awaited

\* Where the daemon waits for nobody, before and after a step, Dispatched holds.
LEMMA DispatchedIdle ==
    ASSUME \A c \in Clients : Conversation(c),
           pc \notin Waits, pc' \notin Waits, UNCHANGED inhand
    PROVE  Dispatched'
<1>1. \A c \in Clients : inhand'[c] = <<>> /\ ~Awaited(c)'
    BY NothingInHand DEF Awaited
<1> QED
    BY <1>1 DEF Dispatched

\* The claims stay with the connections that are polled.
LEMMA ClaimsSame ==
    ASSUME ClaimsHaveConnections, UNCHANGED claims, ClientFds' = ClientFds
    PROVE  ClaimsHaveConnections'
    BY DEF ClaimsHaveConnections

\* An edge that a step causes is either notified by the driver or falls into a crate
\* whose lines process_vme reads again before it leaves.
LEMMA EdgesNoticed ==
    ASSUME Typed, NoLostInterrupt,
           UNCHANGED hardware \/ DriverNotices,
           \A c \in OpenCrates : InProcessVme(c) => InProcessVme(c)'
    PROVE  NoLostInterrupt'
<1>1. CASE UNCHANGED hardware
    BY <1>1 DEF NoLostInterrupt, hardware, Active, irqstatus
<1>2. CASE DriverNotices
    BY <1>2 DEF NoLostInterrupt, DriverNotices
<1> QED
    BY <1>1, <1>2

\* process_vme looks at one crate from its first step to its last.
LEMMA StaysInCrate ==
    ASSUME UNCHANGED <<list_pollfds, idx>>,
           pc \in VmePlaces \ {"vme"} => pc' \in VmePlaces \ {"vme"}
    PROVE  \A c \in OpenCrates : InProcessVme(c) => InProcessVme(c)'
    BY DEF InProcessVme, crate, VmePlaces

\* The poll list is a sequence, entry by entry.
LEMMA ListTyped ==
    ASSUME Typed
    PROVE  /\ Len(list_pollfds) \in Nat
           /\ DOMAIN list_pollfds = 1..Len(list_pollfds)
           /\ list_pollfds \in [1..Len(list_pollfds) -> [fd : Int, revents : BOOLEAN]]
<1>1. list_pollfds \in Seq([fd : Int, revents : BOOLEAN])
    BY DEF Typed
<1> QED
    BY <1>1, LenProperties

\* Every polled descriptor is an interrupt device the daemon opened, the listening
\* socket or a client; what ppoll says of it is a truth value.
LEMMA PolledDescriptors ==
    ASSUME Typed, PollList, NEW i \in 1..Len(list_pollfds)
    PROVE  /\ i <= len_crates => CrateOf(list_pollfds[i].fd) \in OpenCrates
           /\ i > len_crates + 1 => list_pollfds[i].fd \in ClientFds
           /\ i > len_crates + 1 => list_pollfds[i].fd \in Clients
           /\ Ready(list_pollfds[i].fd) \in BOOLEAN
<1>1. len_crates \in Nat /\ Len(list_pollfds) \in Nat /\ list_pollfds[i].fd \in Int
    BY CratesListed, ListTyped
<1>2. CASE i <= len_crates
    <2>1. list_pollfds[i].fd < 0 /\ CrateOf(list_pollfds[i].fd) \in OpenCrates
        BY <1>1, <1>2, CratesListed DEF PollList
    <2>2. Ready(list_pollfds[i].fd) = flag[CrateOf(list_pollfds[i].fd)]
        BY <2>1, <1>1 DEF Ready, ServerFd
    <2> QED
        BY <1>1, <1>2, <2>1, <2>2 DEF Typed, HardwareTypeOK
<1>3. CASE i = len_crates + 1
    <2>1. list_pollfds[i].fd = ServerFd
        BY <1>1, <1>3, CratesListed DEF PollList, Pollfd
    <2> QED
        BY <1>1, <1>3, <2>1 DEF Ready
<1>4. CASE i > len_crates + 1
    <2> DEFINE s == list_pollfds[i].fd
    <2>1. s \in ClientFds /\ s \in Clients
        BY <1>1, <1>4 DEF ClientFds, PollList
    <2>2. s \in Nat \ {0} /\ sockerr[s] \in BOOLEAN
        <3>1. Clients \subseteq Nat \ {0} /\ sockerr \in [Clients -> BOOLEAN]
            BY DaemonAssumption DEF Typed
        <3> QED
            BY <2>1, <3>1
    <2>3. Ready(s) = Readable(s)
        BY <2>2 DEF Ready, ServerFd
    <2>4. Readable(s) \in BOOLEAN
        BY <2>2 DEF Readable
    <2> QED
        BY <1>1, <1>4, <2>1, <2>3, <2>4
<1> QED
    BY <1>1, <1>2, <1>3, <1>4

-------------------------------------------------------------------------------
(***************************************************************************)
(* mainloop's own steps.                                                   *)
(***************************************************************************)

\* ppoll reports at most as many events as there are descriptors.
LEMMA PpollStep ==
    ASSUME IInv, Ppoll
    PROVE  IInv'
<1> DEFINE n == Len(list_pollfds)
<1>1. /\ n \in Nat
      /\ list_pollfds \in [1..n -> [fd : Int, revents : BOOLEAN]]
      /\ DOMAIN list_pollfds = 1..n
    BY ListTyped DEF IInv
<1>2. /\ DOMAIN list_pollfds' = 1..n
      /\ list_pollfds' \in [1..n -> [fd : Int, revents : BOOLEAN]]
      /\ \A i \in 1..n : list_pollfds'[i].fd = list_pollfds[i].fd
    <2>1. ASSUME NEW i \in 1..n
          PROVE  /\ list_pollfds'[i] \in [fd : Int, revents : BOOLEAN]
                 /\ list_pollfds'[i].fd = list_pollfds[i].fd
        <3>1. list_pollfds'[i] = [fd |-> list_pollfds[i].fd,
                                  revents |-> Ready(list_pollfds[i].fd)]
            BY <1>1 DEF Ppoll, Pollfd
        <3>2. Ready(list_pollfds[i].fd) \in BOOLEAN
            BY PolledDescriptors DEF IInv
        <3>3. list_pollfds[i].fd \in Int
            BY <1>1
        <3> QED
            BY <3>1, <3>2, <3>3
    <2> QED
        BY <2>1, <1>1 DEF Ppoll
<1>3. list_pollfds' \in Seq([fd : Int, revents : BOOLEAN]) /\ Len(list_pollfds') = n
    BY <1>1, <1>2, FunctionIsSeq
<1>4. nevents' \in 0..n
    <2> DEFINE R == {i \in 1..n : Ready(list_pollfds[i].fd)}
    <2>1. IsFiniteSet(1..n) /\ Cardinality(1..n) = n
        <3> HIDE DEF n
        <3> QED
            BY <1>1, FS_Interval
    <2>2. R \in SUBSET (1..n)
        OBVIOUS
    <2> HIDE DEF R
    <2>3. IsFiniteSet(R) /\ Cardinality(R) <= n
        BY <2>1, <2>2, FS_Subset
    <2>4. Cardinality(R) \in Nat
        BY <2>3, FS_CardinalityType
    <2>5. nevents' = Cardinality(R)
        BY <1>1 DEF Ppoll, R
    <2> QED
        BY <2>3, <2>4, <2>5, <1>1
<1>5. Typed'
    BY <1>1, <1>3, <1>4
       DEF IInv, Typed, Ppoll, sockets, clients, signals, hardware, HardwareTypeOK, Places
<1>6. Position'
    BY DEF Ppoll, Position, VmePlaces
<1>7. PollList' /\ ClientFds' = ClientFds
    BY <1>2, <1>3, PollListKept DEF IInv, PollList, Ppoll, sockets
<1>8. \A c \in Clients : Conversation(c)'
    BY ConversationSame DEF IInv, Ppoll, sockets, clients, Awaited, Waits
<1>9. ClaimsHaveConnections'
    BY <1>7, ClaimsSame DEF IInv, Ppoll
<1>10. Dispatched'
    BY DispatchedIdle DEF IInv, Ppoll, clients, Waits
<1>11. NoLostInterrupt'
    BY EdgesNoticed DEF IInv, Ppoll, InProcessVme
<1> QED
    BY <1>5, <1>6, <1>7, <1>8, <1>9, <1>10, <1>11 DEF IInv

\* Steps of the daemon that touch neither sockets nor the table nor the list, and
\* neither enter nor leave v120irqd_interrupt.
LEMMA QuietStep ==
    ASSUME IInv, UNCHANGED <<sockets, clients, claims, list_pollfds>>,
           pc \notin Waits, pc' \notin Waits,
           Typed', Position', NoLostInterrupt'
    PROVE  IInv'
<1>1. PollList' /\ ClientFds' = ClientFds
    BY PollListSame DEF IInv, sockets
<1>2. \A c \in Clients : Conversation(c)'
    BY ConversationSame DEF IInv, sockets, clients, Awaited
<1>3. ClaimsHaveConnections'
    BY <1>1, ClaimsSame DEF IInv
<1>4. Dispatched'
    BY DispatchedIdle DEF IInv, clients
<1> QED
    BY <1>1, <1>2, <1>3, <1>4 DEF IInv

\* The status report changes nothing but the pending signals.
LEMMA TakeUsr1Step ==
    ASSUME IInv, TakeUsr1
    PROVE  IInv'
<1>1. Typed'
    BY DEF IInv, Typed, TakeUsr1, sockets, clients, loop, hardware, HardwareTypeOK
<1>2. Position'
    BY DEF TakeUsr1, Position, loop, VmePlaces
<1>3. NoLostInterrupt'
    BY EdgesNoticed, StaysInCrate DEF IInv, TakeUsr1, loop, VmePlaces
<1> QED
    BY <1>1, <1>2, <1>3, QuietStep DEF TakeUsr1, loop, Waits

\* SIGTERM ends mainloop with nothing in hand.
LEMMA TakeTermStep ==
    ASSUME IInv, TakeTerm
    PROVE  IInv'
<1>1. Typed'
    BY DEF IInv, Typed, TakeTerm, sockets, clients, hardware, HardwareTypeOK, Places
<1>2. Position'
    BY DEF TakeTerm, Position, VmePlaces
<1>3. NoLostInterrupt'
    BY EdgesNoticed, StaysInCrate DEF IInv, TakeTerm, VmePlaces
<1> QED
    BY <1>1, <1>2, <1>3, QuietStep DEF TakeTerm, Waits

\* The next marked entry is a device, the listening socket or a client, and it is
\* handled as what it is.
LEMMA DispatchStep ==
    ASSUME IInv, Dispatch
    PROVE  IInv'
<1>1. Len(list_pollfds) \in Nat /\ len_crates \in Nat /\ idx \in Nat /\ idx > 0
    BY ListTyped, CratesListed DEF IInv, Typed
<1>2. NextEvents \subseteq Nat /\ NextEvents # {}
    BY <1>1 DEF NextEvents, Dispatch
<1>3. idx' \in NextEvents
    BY <1>2, MinProperties DEF Dispatch
<1>4. idx' \in 1..Len(list_pollfds)
    BY <1>1, <1>3 DEF NextEvents
<1>5. Typed'
    BY <1>1, <1>4
       DEF IInv, Typed, Dispatch, sockets, clients, signals, hardware, HardwareTypeOK, Places
<1>6. Position'
    <2>1. nevents' > 0
        BY DEF Dispatch
    <2> QED
        BY <1>1, <1>4, <2>1 DEF Dispatch, Position, VmePlaces
<1>7. NoLostInterrupt'
    BY EdgesNoticed DEF IInv, Dispatch, InProcessVme
<1> QED
    BY <1>5, <1>6, <1>7, QuietStep DEF Dispatch, Waits

\* The end of the pass forgets what ppoll reported.
LEMMA EndPassStep ==
    ASSUME IInv, EndPass
    PROVE  IInv'
<1> DEFINE n == Len(list_pollfds)
<1>1. /\ n \in Nat
      /\ DOMAIN list_pollfds = 1..n
      /\ list_pollfds \in [1..n -> [fd : Int, revents : BOOLEAN]]
    BY ListTyped DEF IInv
<1>2. /\ list_pollfds' \in [1..n -> [fd : Int, revents : BOOLEAN]]
      /\ \A i \in 1..n : list_pollfds'[i].fd = list_pollfds[i].fd
    BY <1>1 DEF EndPass, Pollfd
<1>3. list_pollfds' \in Seq([fd : Int, revents : BOOLEAN]) /\ Len(list_pollfds') = n
    BY <1>1, <1>2, FunctionIsSeq
<1>4. Typed'
    <2>1. /\ pc' = "poll" /\ idx' = 1 /\ nevents' = 0
          /\ UNCHANGED <<hardware, sockets, clients, irq, peer, claims, signals>>
        BY DEF EndPass
    <2> QED
        BY <1>1, <1>3, <2>1
           DEF IInv, Typed, sockets, clients, signals, hardware, HardwareTypeOK, Places
<1>5. Position'
    BY DEF EndPass, Position, VmePlaces
<1>6. PollList' /\ ClientFds' = ClientFds
    BY <1>2, <1>3, PollListKept DEF IInv, PollList, EndPass, sockets
<1>7. \A c \in Clients : Conversation(c)'
    BY ConversationSame DEF IInv, EndPass, sockets, clients, Awaited, Waits
<1>8. ClaimsHaveConnections'
    BY <1>6, ClaimsSame DEF IInv, EndPass
<1>9. Dispatched'
    BY DispatchedIdle DEF IInv, EndPass, clients, Waits
<1>10. NoLostInterrupt'
    BY EdgesNoticed DEF IInv, EndPass, InProcessVme
<1> QED
    BY <1>4, <1>5, <1>6, <1>7, <1>8, <1>9, <1>10 DEF IInv

-------------------------------------------------------------------------------
(***************************************************************************)
(* process_vme.                                                            *)
(***************************************************************************)

\* In process_vme the daemon serves a crate it opened.
LEMMA CrateInHand ==
    ASSUME IInv, pc \in VmePlaces
    PROVE  crate \in OpenCrates /\ idx \in 1..len_crates
<1>1. idx <= len_crates /\ idx \in Nat /\ idx > 0 /\ len_crates \in Nat
    BY CratesListed DEF IInv, Position, Typed
<1>2. Len(list_pollfds) >= len_crates + 1 /\ Len(list_pollfds) \in Nat
    BY ListTyped DEF IInv, PollList
<1>3. idx \in 1..Len(list_pollfds)
    BY <1>1, <1>2
<1> QED
    BY <1>1, <1>3, PolledDescriptors DEF IInv, crate

\* The notification is cleared before the lines are read: an edge after that is
\* notified again.
LEMMA VmeReadStep ==
    ASSUME IInv, VmeRead
    PROVE  IInv'
<1>1. crate \in OpenCrates
    BY CrateInHand DEF VmeRead, VmePlaces
<1>2. Typed'
    BY <1>1 DEF IInv, Typed, VmeRead, ReadFlag, sockets, clients, signals, HardwareTypeOK, Places
<1>3. Position'
    BY DEF IInv, VmeRead, Position, VmePlaces
<1>4. NoLostInterrupt'
    <2> SUFFICES ASSUME NEW c \in OpenCrates, Active(c)'
                 PROVE  flag'[c] \/ InProcessVme(c)'
        BY DEF NoLostInterrupt
    <2>1. flag[c]
        <3>1. Active(c)
            BY DEF VmeRead, ReadFlag, Active, irqstatus
        <3> QED
            BY <3>1 DEF IInv, NoLostInterrupt, VmeRead, InProcessVme
    <2>2. CASE c = crate
        BY <2>2 DEF VmeRead, InProcessVme, crate
    <2>3. CASE c # crate
        BY <2>1, <2>3 DEF VmeRead, ReadFlag, IInv, Typed, HardwareTypeOK
    <2> QED
        BY <2>2, <2>3
<1> QED
    BY <1>2, <1>3, <1>4, QuietStep DEF VmeRead, Waits

\* Handling an event keeps mainloop inside the list and the number of events that
\* ppoll reported, whether the list stays, grows or shrinks by one.
LEMMA HandledLoop ==
    ASSUME Typed, Handled, nevents > 0, idx <= Len(list_pollfds),
           list_pollfds' \in Seq([fd : Int, revents : BOOLEAN]),
           Len(list_pollfds') \in (Len(list_pollfds) - 1)..(Len(list_pollfds) + 1)
    PROVE  /\ idx' \in 1..(Len(list_pollfds') + 2)
           /\ nevents' \in 0..Len(list_pollfds')
           /\ pc' = "dispatch" /\ irq' = 0 /\ peer' = 0
           /\ Position'
<1>1. /\ Len(list_pollfds) \in Nat /\ Len(list_pollfds') \in Nat
      /\ idx \in Nat /\ idx > 0
      /\ nevents \in Nat /\ nevents <= Len(list_pollfds)
    <2>1. Len(list_pollfds') \in Nat
        BY LenProperties
    <2> QED
        BY <2>1, ListTyped DEF Typed
<1>2. idx' = idx + 1 /\ nevents' = nevents - 1 /\ pc' = "dispatch" /\ irq' = 0 /\ peer' = 0
    BY DEF Handled
<1> QED
    BY <1>1, <1>2 DEF Position, VmePlaces

\* process_vme leaves a crate when no enabled line of it is asserted: nothing is
\* left behind that the driver will not notify.
LEMMA VmeDoneStep ==
    ASSUME IInv, VmeDone
    PROVE  IInv'
<1>1. crate \in OpenCrates /\ idx \in 1..len_crates /\ nevents > 0
    BY CrateInHand DEF VmeDone, VmePlaces, IInv, Position
<1>2. /\ idx' \in 1..(Len(list_pollfds') + 2) /\ nevents' \in 0..Len(list_pollfds')
      /\ pc' = "dispatch" /\ irq' = 0 /\ peer' = 0
      /\ Position'
    <2>1. /\ Len(list_pollfds) \in Nat /\ len_crates \in Nat
          /\ Len(list_pollfds) >= len_crates + 1
        BY ListTyped, CratesListed DEF IInv, PollList
    <2>2. idx <= Len(list_pollfds)
        BY <1>1, <2>1
    <2>3. list_pollfds' = list_pollfds /\ Handled
        BY DEF VmeDone
    <2>4. /\ list_pollfds' \in Seq([fd : Int, revents : BOOLEAN])
          /\ Len(list_pollfds') \in (Len(list_pollfds) - 1)..(Len(list_pollfds) + 1)
        BY <2>1, <2>3 DEF IInv, Typed
    <2> QED
        BY <1>1, <2>2, <2>3, <2>4, HandledLoop DEF IInv
<1>3. Typed'
    <2>1. UNCHANGED <<hardware, sockets, clients, list_pollfds, claims, signals>>
        BY DEF VmeDone
    <2> QED
        BY <1>2, <2>1
           DEF IInv, Typed, sockets, clients, signals, hardware, HardwareTypeOK, Places
<1>4. Position'
    BY <1>2
<1>5. NoLostInterrupt'
    <2> SUFFICES ASSUME NEW c \in OpenCrates, Active(c)'
                 PROVE  flag'[c]
        BY DEF NoLostInterrupt
    <2>1. Active(c) /\ flag' = flag
        BY DEF VmeDone, hardware, Active, irqstatus
    <2>2. c # crate
        BY <2>1 DEF VmeDone, Pending, Active
    <2> QED
        BY <2>1, <2>2 DEF IInv, NoLostInterrupt, InProcessVme
<1> QED
    BY <1>3, <1>4, <1>5, QuietStep DEF VmeDone, Handled, Waits

\* The line that is dispatched is one that a board of this crate can assert.
LEMMA VmeSearchStep ==
    ASSUME IInv, VmeSearch
    PROVE  IInv'
<1>1. crate \in OpenCrates
    BY CrateInHand DEF VmeSearch, VmePlaces
<1>2. irq' \in ANYIRQ
    <2>1. ANYIRQ \subseteq Nat /\ IsFiniteSet(ANYIRQ)
        <3>1. Irqs \subseteq Nat /\ IsFiniteSet(Irqs) /\ ANYIRQ \in SUBSET Irqs
            BY SelectorAssumption
        <3> QED
            BY <3>1, FS_Subset
    <2>2. Pending(crate) \subseteq ANYIRQ
        BY <1>1 DEF Pending, IInv, Typed, HardwareTypeOK
    <2>3. IsFiniteSet(Pending(crate)) /\ Pending(crate) \subseteq Nat
        BY <2>1, <2>2, FS_Subset
    <2>4. Max(Pending(crate)) \in Pending(crate)
        BY <2>3, MaxProperties DEF VmeSearch
    <2> QED
        BY <2>2, <2>4 DEF VmeSearch
<1>3. Typed'
    BY <1>2
       DEF IInv, Typed, VmeSearch, sockets, clients, signals, hardware, HardwareTypeOK, Places
<1>4. Position'
    BY <1>2 DEF IInv, VmeSearch, Position, VmePlaces
<1>5. NoLostInterrupt'
    BY EdgesNoticed, StaysInCrate DEF IInv, VmeSearch, VmePlaces
<1> QED
    BY <1>3, <1>4, <1>5, QuietStep DEF VmeSearch, Waits

\* An IACK cycle keeps the types of the hardware.
LEMMA IackTyped ==
    ASSUME HardwareTypeOK, NEW c, NEW i, NEW v, Iack(c, i, v)
    PROVE  HardwareTypeOK'
    BY DEF HardwareTypeOK, Iack, DriverNotices, Active

\* Nobody registered: the line is read again all the same.
LEMMA VmeTargetlessStep ==
    ASSUME IInv, NEW v \in Vectors, VmeTargetless(v)
    PROVE  IInv'
<1>1. HardwareTypeOK'
    BY IackTyped DEF VmeTargetless, IInv, Typed
<1>2. Typed'
    BY <1>1 DEF IInv, Typed, VmeTargetless, sockets, clients, signals, Places
<1>3. Position'
    BY DEF IInv, VmeTargetless, Position, VmePlaces
<1>4. NoLostInterrupt'
    BY EdgesNoticed, StaysInCrate DEF IInv, VmeTargetless, VmePlaces, Iack
<1> QED
    BY <1>2, <1>3, <1>4, QuietStep DEF VmeTargetless, Waits

\* Released or stuck, the crate stays in hand.
LEMMA VmeRecheckStep ==
    ASSUME IInv, VmeRecheck
    PROVE  IInv'
<1>1. Typed'
    BY DEF IInv, Typed, VmeRecheck, sockets, clients, signals, hardware, HardwareTypeOK, Places
<1>2. Position'
    BY DEF IInv, VmeRecheck, Position, VmePlaces
<1>3. NoLostInterrupt'
    BY EdgesNoticed, StaysInCrate DEF IInv, VmeRecheck, VmePlaces
<1> QED
    BY <1>1, <1>2, <1>3, QuietStep DEF VmeRecheck, Waits

\* A stuck line is disabled, and the search goes on.
LEMMA VmeDisableStep ==
    ASSUME IInv, VmeDisable
    PROVE  IInv'
<1>1. HardwareTypeOK'
    BY DEF VmeDisable, WriteIrqen, DriverNotices, Active, IInv, Typed, HardwareTypeOK
<1>2. Typed'
    BY <1>1 DEF IInv, Typed, VmeDisable, sockets, clients, signals, Places
<1>3. Position'
    BY DEF IInv, VmeDisable, Position, VmePlaces
<1>4. NoLostInterrupt'
    BY EdgesNoticed, StaysInCrate DEF IInv, VmeDisable, VmePlaces, WriteIrqen
<1> QED
    BY <1>2, <1>3, <1>4, QuietStep DEF VmeDisable, Waits

-------------------------------------------------------------------------------
(***************************************************************************)
(* v120irqd_interrupt: notifying a client and reading its answer.          *)
(***************************************************************************)

\* The operators of the instance of InterruptClaims are those of this module.
LEMMA TableOperators ==
    /\ Table!v120irqd_selector = v120irqd_selector
    /\ \A sel, req : Table!hashmatch(sel, req) <=> hashmatch(sel, req)
    /\ \A sel, req : Table!hasheq(sel, req) <=> hasheq(sel, req)
    /\ \A req : Table!LegalRequest(req) <=> LegalRequest(req)
    /\ \A S : Table!Min(S) = Min(S)
    /\ \A S : Table!Cardinality(S) = Cardinality(S)
    /\ \A S : Table!Ascending(S) = Ascending(S)
<1>1. Table!v120irqd_selector = v120irqd_selector
    BY DEF Table!v120irqd_selector, v120irqd_selector
<1>2. \A sel, req : Table!hashmatch(sel, req) <=> hashmatch(sel, req)
    BY DEF Table!hashmatch, hashmatch
<1>3. \A sel, req : Table!hasheq(sel, req) <=> hasheq(sel, req)
    BY DEF Table!hasheq, hasheq
<1>4. \A req : Table!LegalRequest(req) <=> LegalRequest(req)
    BY DEF Table!LegalRequest, LegalRequest
<1>5. \A S : Table!Min(S) = Min(S)
    BY Zenon DEF Table!Min, Min
<1>6. \A S : Table!Cardinality(S) = Cardinality(S)
    BY Zenon DEF Table!Cardinality, Cardinality
<1>7. \A S : Table!Ascending(S) = Ascending(S)
    BY <1>6, Zenon DEF Table!Ascending, Ascending
<1> QED
    BY <1>1, <1>2, <1>3, <1>4, <1>5, <1>6, <1>7

\* The table finds the first claim that matches; what is sent is the interrupt with
\* the payload of that claim, to a connection that is still polled.
LEMMA RecipientFound ==
    ASSUME Typed, ClaimsHaveConnections, NEW sel \in v120irqd_selector,
           Table!Recipient(sel) # 0
    PROVE  /\ Table!Recipient(sel) \in Clients \cap ClientFds
           /\ Signal(sel) \in response_buffer
           /\ Signal(sel).msg = "IRQ_SIGNAL"
           /\ HasClaim(claims, Table!Recipient(sel), Signal(sel).selector)
<1> DEFINE M == Table!Matching(sel)
           i == Min(M)
<1>1. /\ DOMAIN claims = 1..Len(claims) /\ Len(claims) \in Nat
      /\ claims \in [1..Len(claims) -> Table!Claim]
    <2>1. claims \in Seq(Table!Claim)
        BY DEF Typed
    <2> QED
        BY <2>1, LenProperties
<1>2. M \subseteq Nat /\ M # {}
    BY <1>1 DEF Table!Matching, Table!Recipient
<1>3. i \in M
    BY <1>2, MinProperties
<1>4. /\ i \in DOMAIN claims
      /\ hashmatch(claims[i].selector, sel)
      /\ claims[i].selector \in v120irqd_selector
      /\ claims[i].data \in Clients
    <2>1. i \in DOMAIN claims /\ Table!hashmatch(claims[i].selector, sel)
        BY <1>3 DEF Table!Matching
    <2>2. claims[i] \in Table!Claim
        BY <2>1, <1>1
    <2> HIDE DEF i
    <2> QED
        BY <2>1, <2>2, TableOperators DEF Table!Claim
<1>5. Table!Recipient(sel) = claims[i].data
    BY <1>2, TableOperators DEF Table!Recipient
<1> DEFINE d == Delivered(sel)
<1>6. d = [sel EXCEPT !.payload = claims[i].selector.payload]
    BY DEF Delivered
<1> HIDE DEF M, i, d
<1>7. /\ d \in v120irqd_selector
      /\ hashmatch(claims[i].selector, d)
      /\ claims[i].selector.payload = d.payload
    BY <1>4, <1>6 DEF v120irqd_selector, hashmatch
<1>8. Signal(sel) = [msg |-> "IRQ_SIGNAL", selector |-> d]
    BY DEF Signal, WithSelector, d
<1>9. /\ Signal(sel) \in response_buffer
      /\ Signal(sel).msg = "IRQ_SIGNAL"
      /\ Signal(sel).selector = d
    BY <1>7, <1>8 DEF response_buffer, v120_irq_message_select
<1>10. HasClaim(claims, Table!Recipient(sel), d)
    BY <1>4, <1>5, <1>7 DEF HasClaim
<1>11. Table!Recipient(sel) \in Clients \cap ClientFds
    BY <1>4, <1>5 DEF ClaimsHaveConnections
<1> QED
    BY <1>9, <1>10, <1>11

\* What process_vme looks up names the crate and line in hand and the vector read.
LEMMA ConcreteTyped ==
    ASSUME IInv, pc = "iack", NEW v \in Vectors
    PROVE  Concrete(crate, irq, v) \in v120irqd_selector
<1>1. crate \in Crates
    BY CrateInHand, BoardAssumption DEF VmePlaces
<1>2. irq \in Irqs
    BY SelectorAssumption DEF IInv, Position
<1> QED
    BY <1>1, <1>2, SelectorAssumption DEF Concrete, v120irqd_selector

\* Reading one message, or the error left behind by unread ones.
LEMMA ConsumeFacts ==
    ASSUME Typed, NEW s \in Clients, Consume(s)
    PROVE  /\ sockerr' \in [Clients -> BOOLEAN]
           /\ c2s' \in [Clients -> Seq(response_buffer)]
           /\ \A c \in Clients \ {s} : sockerr'[c] = sockerr[c] /\ c2s'[c] = c2s[c]
           /\ ~sockerr'[s]
           /\ sockerr[s] \/ c2s[s] = <<>> => c2s'[s] = c2s[s]
           /\ ~sockerr[s] /\ c2s[s] # <<>> =>
                 /\ Len(c2s[s]) \in Nat /\ Len(c2s[s]) > 0
                 /\ Len(c2s'[s]) = Len(c2s[s]) - 1
                 /\ \A i \in 1..(Len(c2s[s]) - 1) : c2s'[s][i] = c2s[s][i + 1]
<1>1. c2s \in [Clients -> Seq(response_buffer)] /\ sockerr \in [Clients -> BOOLEAN]
    BY DEF Typed
<1>2. c2s[s] # <<>> =>
         /\ Len(c2s[s]) \in Nat /\ Len(c2s[s]) > 0
         /\ Tail(c2s[s]) \in Seq(response_buffer)
         /\ Len(Tail(c2s[s])) = Len(c2s[s]) - 1
         /\ \A i \in 1..(Len(c2s[s]) - 1) : Tail(c2s[s])[i] = c2s[s][i + 1]
    BY <1>1, TailProperties
<1>3. /\ sockerr' \in [Clients -> BOOLEAN]
      /\ \A c \in Clients \ {s} : sockerr'[c] = sockerr[c]
      /\ ~sockerr'[s]
    BY <1>1 DEF Consume
<1>4. CASE sockerr[s] \/ c2s[s] = <<>>
    <2>1. c2s' = c2s
        BY <1>4 DEF Consume
    <2> QED
        BY <1>1, <1>3, <1>4, <2>1
<1>5. CASE ~(sockerr[s] \/ c2s[s] = <<>>)
    <2>1. c2s' = [c2s EXCEPT ![s] = Tail(@)]
        BY <1>5 DEF Consume
    <2>2. c2s'[s] = Tail(c2s[s]) /\ \A c \in Clients \ {s} : c2s'[c] = c2s[c]
        BY <2>1, <1>1
    <2>3. c2s' \in [Clients -> Seq(response_buffer)]
        BY <2>1, <1>1, <1>2, <1>5
    <2> QED
        BY <1>2, <1>3, <1>5, <2>2, <2>3
<1> QED
    BY <1>4, <1>5

\* The lengths the balance of messages and waiters counts.
LEMMA Lengths ==
    ASSUME Typed, NEW c \in Clients
    PROVE  /\ Len(c2s[c]) \in Nat /\ (c2s[c] = <<>> <=> Len(c2s[c]) = 0)
           /\ Len(s2c[c]) \in Nat /\ (s2c[c] = <<>> <=> Len(s2c[c]) = 0)
           /\ Len(inhand[c]) \in Nat /\ Len(inhand[c]) <= 1
           /\ (inhand[c] = <<>> <=> Len(inhand[c]) = 0)
<1>1. /\ c2s[c] \in Seq(response_buffer)
      /\ s2c[c] \in Seq(response_buffer)
      /\ inhand[c] \in Seq(v120irqd_selector) /\ Len(inhand[c]) <= 1
    BY DEF Typed
<1>2. /\ Len(c2s[c]) \in Nat
      /\ Len(s2c[c]) \in Nat
      /\ Len(inhand[c]) \in Nat /\ Len(inhand[c]) <= 1
    BY <1>1, LenProperties
<1>3. /\ c2s[c] = <<>> <=> Len(c2s[c]) = 0
      /\ s2c[c] = <<>> <=> Len(s2c[c]) = 0
      /\ inhand[c] = <<>> <=> Len(inhand[c]) = 0
    BY <1>1, EmptySeq
<1> QED
    BY <1>2, <1>3

\* The client the daemon waits for is connected or has hung up; nothing closes its
\* connection meanwhile.
LEMMA PeerConnected ==
    ASSUME IInv, pc \in Waits
    PROVE  peer \in Clients /\ peer \in ClientFds /\ conn[peer] \in {"up", "hungup"}
<1>1. peer \in ClientFds
    BY DEF IInv, Dispatched
<1>2. peer \in Clients /\ conn[peer] # "none"
    BY <1>1 DEF IInv, PollList
<1> QED
    BY <1>1, <1>2 DEF IInv, Typed

\* Reading the answer takes one message and one waiter out of the conversation; it
\* is not the client's answer that an interrupt in its hand still owes.
LEMMA AnswerRead ==
    ASSUME IInv, pc \in Waits, Readable(peer), Consume(peer), pc' \notin Waits,
           UNCHANGED <<conn, s2c, clients>>, NEW c \in Clients
    PROVE  Conversation(c)'
<1>1. peer \in Clients /\ conn[peer] \in {"up", "hungup"}
    BY PeerConnected
<1>2. Conversation(c) /\ Typed
    BY DEF IInv
<1>3. ~Awaited(c)'
    BY DEF Awaited
<1>4. UNCHANGED <<conn, s2c, call, inhand>>
    BY DEF clients
<1>5. CASE c # peer
    <2>1. ~Awaited(c)
        BY <1>5 DEF Awaited
    <2>2. sockerr'[c] = sockerr[c] /\ c2s'[c] = c2s[c]
        BY <1>1, <1>2, <1>5, ConsumeFacts
    <2> QED
        BY <1>2, <1>3, <1>4, <2>1, <2>2, ConversationSame
<1>6. CASE c = peer /\ conn[c] = "up"
    <2>1. ~sockerr[c] /\ Awaited(c) /\ c2s[c] # <<>>
        BY <1>2, <1>6 DEF Conversation, Awaited, Readable
    <2>2. /\ ~sockerr'[c]
          /\ Len(c2s'[c]) = Len(c2s[c]) - 1
          /\ \A i \in 1..(Len(c2s[c]) - 1) : c2s'[c][i] = c2s[c][i + 1]
        BY <1>2, <1>6, <2>1, ConsumeFacts
    <2>3. /\ Len(c2s[c]) \in Nat /\ Len(c2s[c]) > 0
          /\ Len(s2c[c]) \in Nat
          /\ Len(inhand[c]) \in Nat /\ Len(inhand[c]) <= 1
          /\ (inhand[c] = <<>> <=> Len(inhand[c]) = 0)
        BY <1>2, <2>1, Lengths
    <2>4. Len(s2c[c]) + Len(c2s[c]) + Len(inhand[c]) = (IF call[c] = "none" THEN 0 ELSE 1) + 1
        BY <1>2, <1>6, <2>1 DEF Conversation, Waiters
    <2>5. inhand[c] = <<>>
        <3> DEFINE a == Len(s2c[c])  b == Len(c2s[c])  h == Len(inhand[c])
                   k == IF call[c] = "none" THEN 0 ELSE 1
        <3>1. inhand[c] # <<>> => k = 0
            BY <1>2 DEF Conversation
        <3>2. a \in Nat /\ b \in Nat /\ b > 0 /\ h \in Nat /\ a + b + h = k + 1
            BY <2>3, <2>4
        <3>3. k \in 0..1 /\ (inhand[c] = <<>> <=> h = 0)
            BY <2>3
        <3> HIDE DEF a, b, h, k
        <3> QED
            BY <3>1, <3>2, <3>3
    <2>6. Len(s2c'[c]) + Len(c2s'[c]) + Len(inhand'[c]) = Waiters(c)'
        <3> DEFINE a == Len(s2c[c])  b == Len(c2s[c])  h == Len(inhand[c])
                   k == IF call[c] = "none" THEN 0 ELSE 1
        <3>1. a \in Nat /\ b \in Nat /\ h \in Nat /\ k \in Nat /\ a + b + h = k + 1
            BY <2>3, <2>4
        <3>2. Len(s2c'[c]) = a /\ Len(c2s'[c]) = b - 1 /\ Len(inhand'[c]) = h
            BY <1>4, <2>2
        <3>3. Waiters(c)' = k + 0
            BY <1>3, <1>4 DEF Waiters
        <3> HIDE DEF a, b, h, k
        <3> QED
            BY <3>1, <3>2, <3>3
    <2>7. ASSUME NEW i \in 1..Len(c2s'[c]) PROVE c2s'[c][i].msg \notin {"ACK", "NAK"}
        <3>1. i \in 1..(Len(c2s[c]) - 1) /\ i + 1 \in 1..Len(c2s[c]) /\ i + 1 # 1
            BY <2>2, <2>3
        <3> QED
            BY <3>1, <2>2, <1>2 DEF Conversation
    <2> QED
        BY <1>4, <1>6, <2>2, <2>5, <2>6, <2>7 DEF Conversation
<1>7. CASE c = peer /\ conn[c] = "hungup"
    <2>1. /\ Len(c2s[c]) \in Nat
          /\ s2c[c] = <<>> /\ call[c] = "none" /\ inhand[c] = <<>> /\ Len(c2s[c]) <= 2
        BY <1>2, <1>7, Lengths DEF Conversation
    <2>2. CASE sockerr[c] \/ c2s[c] = <<>>
        <3>1. c2s'[c] = c2s[c]
            BY <1>2, <1>7, <2>2, ConsumeFacts
        <3> QED
            BY <1>2, <1>4, <1>7, <2>1, <3>1 DEF Conversation
    <2>3. CASE ~(sockerr[c] \/ c2s[c] = <<>>)
        <3>1. /\ Len(c2s'[c]) = Len(c2s[c]) - 1
              /\ \A i \in 1..(Len(c2s[c]) - 1) : c2s'[c][i] = c2s[c][i + 1]
            BY <1>2, <1>7, <2>3, ConsumeFacts
        <3>2. ASSUME NEW i \in 1..Len(c2s'[c]) PROVE c2s'[c][i].msg \notin {"ACK", "NAK"}
            <4>1. i \in 1..(Len(c2s[c]) - 1) /\ i + 1 \in 1..Len(c2s[c]) /\ i + 1 # 1
                BY <2>1, <3>1
            <4> QED
                BY <4>1, <3>1, <1>2 DEF Conversation
        <3>3. Len(c2s'[c]) <= 2
            BY <2>1, <3>1
        <3> QED
            BY <1>4, <1>7, <2>1, <3>2, <3>3 DEF Conversation
    <2> QED
        BY <2>2, <2>3
<1> QED
    BY <1>1, <1>5, <1>6, <1>7

\* v120irqd_interrupt returned: nobody has an interrupt in hand any more.
LEMMA AnswerStep ==
    ASSUME IInv, pc \in Waits, Readable(peer), Consume(peer), pc' \notin Waits,
           UNCHANGED <<hardware, conn, backlog, s2c, clients, list_pollfds, claims, signals>>,
           idx' \in 1..(Len(list_pollfds') + 2), nevents' \in 0..Len(list_pollfds'),
           pc' \in Places, irq' \in ANYIRQ \cup {0}, peer' = 0,
           Position', NoLostInterrupt'
    PROVE  IInv'
<1>1. /\ sockerr' \in [Clients -> BOOLEAN]
      /\ c2s' \in [Clients -> Seq(response_buffer)]
    BY PeerConnected, ConsumeFacts DEF IInv
<1>2. Typed'
    BY <1>1 DEF IInv, Typed, clients, signals, hardware, HardwareTypeOK
<1>3. PollList' /\ ClientFds' = ClientFds
    BY PollListSame DEF IInv
<1>4. \A c \in Clients : Conversation(c)'
    BY AnswerRead
<1>5. ClaimsHaveConnections'
    BY <1>3, ClaimsSame DEF IInv
<1>6. Dispatched'
    <2>1. ASSUME NEW c \in Clients PROVE inhand'[c] = <<>> /\ ~Awaited(c)'
        <3>1. ~Awaited(c)'
            BY DEF Awaited
        <3>2. Conversation(c)'
            BY <1>4
        <3> QED
            BY <3>1, <3>2 DEF Conversation
    <2> QED
        BY <2>1 DEF Dispatched
<1> QED
    BY <1>2, <1>3, <1>4, <1>5, <1>6 DEF IInv

\* Acknowledged: process_vme looks for the next line of the crate.
LEMMA VmeAckedStep ==
    ASSUME IInv, VmeAcked
    PROVE  IInv'
<1>1. /\ pc = "await" /\ Readable(peer) /\ Consume(peer)
      /\ pc' = "search" /\ irq' = 0 /\ peer' = 0
      /\ UNCHANGED <<hardware, conn, backlog, s2c, clients, list_pollfds, idx, nevents,
                     claims, signals>>
    BY DEF VmeAcked, Acknowledged, Readable
<1>2. Position'
    BY <1>1 DEF IInv, Position, VmePlaces
<1>3. NoLostInterrupt'
    BY <1>1, EdgesNoticed, StaysInCrate DEF IInv, VmePlaces
<1>4. /\ idx' \in 1..(Len(list_pollfds') + 2) /\ nevents' \in 0..Len(list_pollfds')
      /\ pc' \in Places /\ irq' \in ANYIRQ \cup {0}
    BY <1>1 DEF IInv, Typed, Places
<1> QED
    BY <1>1, <1>2, <1>3, <1>4, AnswerStep DEF Waits

\* Refused, answered with something else, or gone: the line is read again.
LEMMA VmeFailedStep ==
    ASSUME IInv, VmeFailed
    PROVE  IInv'
<1>1. /\ pc = "await" /\ Readable(peer) /\ Consume(peer)
      /\ pc' = "recheck" /\ peer' = 0
      /\ UNCHANGED <<hardware, conn, backlog, s2c, clients, list_pollfds, idx, nevents,
                     irq, claims, signals>>
    BY DEF VmeFailed
<1>2. Position'
    BY <1>1 DEF IInv, Position, VmePlaces
<1>3. NoLostInterrupt'
    BY <1>1, EdgesNoticed, StaysInCrate DEF IInv, VmePlaces
<1>4. /\ idx' \in 1..(Len(list_pollfds') + 2) /\ nevents' \in 0..Len(list_pollfds')
      /\ pc' \in Places /\ irq' \in ANYIRQ \cup {0}
    BY <1>1 DEF IInv, Typed, Places
<1> QED
    BY <1>1, <1>2, <1>3, <1>4, AnswerStep DEF Waits

\* The answer to a fake interrupt ends the event of the faker.
LEMMA FakeAnswerStep ==
    ASSUME IInv, FakeAnswer
    PROVE  IInv'
<1>1. /\ pc = "fake" /\ Readable(peer) /\ Consume(peer) /\ Handled
      /\ UNCHANGED <<hardware, conn, backlog, s2c, clients, list_pollfds, claims, signals>>
    BY DEF FakeAnswer
<1>2. /\ idx' \in 1..(Len(list_pollfds') + 2) /\ nevents' \in 0..Len(list_pollfds')
      /\ pc' = "dispatch" /\ irq' = 0 /\ peer' = 0
      /\ Position'
    <2>1. nevents > 0 /\ idx <= Len(list_pollfds)
        BY <1>1, ListTyped DEF IInv, Position
    <2>2. /\ list_pollfds' \in Seq([fd : Int, revents : BOOLEAN])
          /\ Len(list_pollfds') \in (Len(list_pollfds) - 1)..(Len(list_pollfds) + 1)
        BY <1>1, ListTyped DEF IInv, Typed
    <2> QED
        BY <1>1, <2>1, <2>2, HandledLoop DEF IInv
<1>3. NoLostInterrupt'
    BY <1>1, EdgesNoticed DEF IInv, InProcessVme
<1> QED
    BY <1>1, <1>2, <1>3, AnswerStep DEF Waits, Places

\* Only a client that has hung up, or left an error behind, cannot be sent to.
LEMMA SendableIsUp ==
    ASSUME IInv, NEW s \in Clients
    PROVE  CanSend(s) <=> conn[s] = "up"
    BY DEF IInv, Conversation, CanSend

\* A message that can be sent goes behind the others of that connection.
LEMMA SendFacts ==
    ASSUME Typed, NEW s \in Clients, NEW m \in response_buffer, Send(s, m)
    PROVE  /\ s2c' \in [Clients -> Seq(response_buffer)]
           /\ sockerr' \in [Clients -> BOOLEAN]
           /\ \A c \in Clients \ {s} : s2c'[c] = s2c[c] /\ sockerr'[c] = sockerr[c]
           /\ ~sockerr'[s]
           /\ ~CanSend(s) => s2c'[s] = s2c[s]
           /\ CanSend(s) => /\ Len(s2c[s]) \in Nat
                            /\ Len(s2c'[s]) = Len(s2c[s]) + 1
                            /\ s2c'[s] # <<>>
                            /\ s2c'[s][Len(s2c'[s])] = m
<1>1. s2c \in [Clients -> Seq(response_buffer)] /\ sockerr \in [Clients -> BOOLEAN]
    BY DEF Typed
<1>2. /\ Len(s2c[s]) \in Nat
      /\ Append(s2c[s], m) \in Seq(response_buffer)
      /\ Append(s2c[s], m) # <<>>
      /\ Len(Append(s2c[s], m)) = Len(s2c[s]) + 1
      /\ Append(s2c[s], m)[Len(s2c[s]) + 1] = m
    <2>1. s2c[s] \in Seq(response_buffer)
        BY <1>1
    <2> QED
        BY <2>1, AppendFacts
<1>3. sockerr' = [sockerr EXCEPT ![s] = FALSE]
    BY DEF Send
<1>4. CASE CanSend(s)
    <2>1. s2c' = [s2c EXCEPT ![s] = Append(@, m)]
        BY <1>4 DEF Send
    <2>2. s2c'[s] = Append(s2c[s], m) /\ \A c \in Clients \ {s} : s2c'[c] = s2c[c]
        BY <2>1, <1>1
    <2>3. s2c' \in [Clients -> Seq(response_buffer)]
        BY <2>1, <1>1, <1>2
    <2> QED
        BY <1>1, <1>2, <1>3, <1>4, <2>2, <2>3
<1>5. CASE ~CanSend(s)
    <2>1. s2c' = s2c
        BY <1>5 DEF Send
    <2> QED
        BY <1>1, <1>3, <1>5, <2>1
<1> QED
    BY <1>4, <1>5

\* The client is sent the interrupt it registered for, and the daemon waits; or it
\* cannot be reached and the line is read again.
LEMMA VmeNotifyStep ==
    ASSUME IInv, NEW v \in Vectors, VmeNotify(v)
    PROVE  IInv'
<1> DEFINE sel == Concrete(crate, irq, v)
           r == Table!Recipient(sel)
           m == Signal(sel)
<1>1. /\ pc = "iack" /\ r # 0
      /\ Iack(crate, irq, v)
      /\ Send(r, m)
      /\ CanSend(r) => pc' = "await" /\ peer' = r
      /\ ~CanSend(r) => pc' = "recheck" /\ peer' = 0
      /\ UNCHANGED <<conn, backlog, c2s, clients, list_pollfds, idx, nevents, irq, claims,
                     signals>>
    BY DEF VmeNotify
<1>2. /\ r \in Clients /\ r \in ClientFds
      /\ m \in response_buffer /\ m.msg = "IRQ_SIGNAL" /\ HasClaim(claims, r, m.selector)
    <2>1. sel \in v120irqd_selector
        BY <1>1, ConcreteTyped
    <2> HIDE DEF sel
    <2> QED
        BY <2>1, <1>1, RecipientFound DEF IInv
<1> HIDE DEF sel, r, m
<1>3. Typed
    BY DEF IInv
<1>4. /\ s2c' \in [Clients -> Seq(response_buffer)]
      /\ sockerr' \in [Clients -> BOOLEAN]
      /\ \A c \in Clients \ {r} : s2c'[c] = s2c[c] /\ sockerr'[c] = sockerr[c]
      /\ ~sockerr'[r]
      /\ ~CanSend(r) => s2c'[r] = s2c[r]
      /\ CanSend(r) => /\ Len(s2c[r]) \in Nat
                       /\ Len(s2c'[r]) = Len(s2c[r]) + 1
                       /\ s2c'[r] # <<>>
                       /\ s2c'[r][Len(s2c'[r])] = m
    BY <1>1, <1>2, <1>3, SendFacts
<1>5. CanSend(r) <=> conn[r] = "up"
    BY <1>2, SendableIsUp
<1>6. Typed'
    <2>1. HardwareTypeOK'
        BY <1>1, <1>3, IackTyped DEF Typed
    <2>2. pc' \in Places /\ peer' \in Clients \cup {0}
        BY <1>1, <1>2 DEF Places
    <2> QED
        BY <1>1, <1>3, <1>4, <2>1, <2>2 DEF Typed, clients, signals
<1>7. Position'
    BY <1>1 DEF IInv, Position, VmePlaces
<1>8. PollList' /\ ClientFds' = ClientFds
    BY <1>1, PollListSame DEF IInv
<1>9. ASSUME NEW c \in Clients PROVE ~Awaited(c) /\ (Awaited(c)' <=> c = r /\ CanSend(r))
    BY <1>1, <1>2, DaemonAssumption DEF Awaited, Waits
<1>10. ASSUME NEW c \in Clients PROVE inhand'[c] = inhand[c] /\ inhand[c] = <<>>
    BY <1>1, NothingInHand DEF IInv, Waits, clients
<1>11. ASSUME NEW c \in Clients PROVE Conversation(c)'
    <2>1. Conversation(c)
        BY DEF IInv
    <2>2. conn'[c] = conn[c] /\ c2s'[c] = c2s[c] /\ call'[c] = call[c]
        BY <1>1 DEF clients
    <2>3. CASE c # r
        BY <2>1, <2>2, <2>3, <1>4, <1>9, <1>10, ConversationSame
    <2>4. CASE c = r /\ conn[c] = "up"
        <3> DEFINE a == Len(s2c[c])  b == Len(c2s[c])  h == Len(inhand[c])
                   k == IF call[c] = "none" THEN 0 ELSE 1
        <3>1. a \in Nat /\ b \in Nat /\ h \in Nat /\ k \in Nat /\ a + b + h = k + 0
            BY <1>3, <1>9, <2>1, <2>4, Lengths DEF Conversation, Waiters
        <3>2. Len(s2c'[c]) = a + 1 /\ Len(c2s'[c]) = b /\ Len(inhand'[c]) = h
            BY <1>4, <1>5, <1>10, <2>2, <2>4
        <3>3. Waiters(c)' = k + 1
            BY <1>5, <1>9, <2>2, <2>4 DEF Waiters
        <3> HIDE DEF a, b, h, k
        <3>4. Len(s2c'[c]) + Len(c2s'[c]) + Len(inhand'[c]) = Waiters(c)'
            BY <3>1, <3>2, <3>3
        <3> QED
            BY <1>4, <1>5, <1>9, <1>10, <2>1, <2>2, <2>4, <3>4 DEF Conversation
    <2>5. CASE c = r /\ conn[c] # "up"
        <3>1. conn[c] = "hungup"
            BY <1>2, <2>5, <1>3 DEF Typed, IInv, PollList
        <3>2. s2c'[c] = s2c[c]
            BY <1>4, <1>5, <2>5
        <3> QED
            BY <1>10, <2>1, <2>2, <3>1, <3>2 DEF Conversation
    <2> QED
        BY <2>3, <2>4, <2>5
<1>12. ClaimsHaveConnections'
    BY <1>1, <1>8, ClaimsSame DEF IInv
<1>13. Dispatched'
    <2>1. pc' \in Waits => peer' \in ClientFds'
        BY <1>1, <1>2, <1>8 DEF Waits
    <2>2. HasClaim(claims', r, m.selector)
        BY <1>1, <1>2
    <2>3. ASSUME NEW c \in Clients, Awaited(c)', s2c'[c] # <<>>
          PROVE  /\ s2c'[c][Len(s2c'[c])].msg = "IRQ_SIGNAL"
                 /\ HasClaim(claims', c, s2c'[c][Len(s2c'[c])].selector)
        <3>1. c = r /\ s2c'[c][Len(s2c'[c])] = m
            BY <1>4, <1>9, <2>3
        <3> QED
            BY <3>1, <2>2, <1>2
    <2> QED
        BY <1>10, <2>1, <2>3 DEF Dispatched
<1>14. NoLostInterrupt'
    BY <1>1, EdgesNoticed, StaysInCrate DEF IInv, VmePlaces, Iack
<1> QED
    BY <1>6, <1>7, <1>8, <1>11, <1>12, <1>13, <1>14 DEF IInv

-------------------------------------------------------------------------------
(***************************************************************************)
(* process_newclient.                                                      *)
(***************************************************************************)

\* The accepted connection is the one entry the list lacked.
LEMMA NewclientStep ==
    ASSUME IInv, process_newclient
    PROVE  IInv'
<1> DEFINE n == Len(list_pollfds)
<1>1. PICK s \in backlog : append_fd(s)
    BY DEF process_newclient
<1>2. PICK garbage \in BOOLEAN : list_pollfds' = Append(list_pollfds, Pollfd(s, garbage))
    BY <1>1 DEF append_fd
<1>3. /\ pc = "accept" /\ Handled /\ backlog' = {}
      /\ UNCHANGED <<hardware, conn, c2s, s2c, sockerr, clients, claims, signals>>
    BY DEF process_newclient
<1>4. /\ Typed /\ Position /\ PollList
      /\ n \in Nat /\ len_crates \in Nat /\ n >= len_crates + 1
      /\ nevents > 0 /\ idx = len_crates + 1
    BY <1>3, ListTyped, CratesListed DEF IInv, Position, PollList
<1>5. /\ s \in Clients /\ s \in Int /\ conn[s] # "none" /\ s \notin ClientFds
      /\ backlog = {s}
    <2>1. s \in Clients /\ \A c, d \in backlog : c = d
        BY <1>4 DEF Typed, PollList
    <2>2. s \in Int
        BY <2>1, DaemonAssumption
    <2>3. conn[s] # "none" /\ s \notin ClientFds
        BY <1>4 DEF PollList
    <2>4. backlog = {s}
        BY <2>1
    <2> QED
        BY <2>1, <2>2, <2>3, <2>4
<1>6. /\ list_pollfds' \in Seq([fd : Int, revents : BOOLEAN])
      /\ Len(list_pollfds') = n + 1
      /\ \A i \in 1..n : list_pollfds'[i] = list_pollfds[i]
      /\ list_pollfds'[n + 1].fd = s
    <2>1. /\ Pollfd(s, garbage) \in [fd : Int, revents : BOOLEAN]
          /\ Pollfd(s, garbage).fd = s
        BY <1>5 DEF Pollfd
    <2>2. list_pollfds \in Seq([fd : Int, revents : BOOLEAN])
        BY <1>4 DEF Typed
    <2> QED
        BY <1>2, <2>1, <2>2, AppendFacts
<1>7. /\ idx' \in 1..(Len(list_pollfds') + 2) /\ nevents' \in 0..Len(list_pollfds')
      /\ pc' = "dispatch" /\ irq' = 0 /\ peer' = 0
      /\ Position'
    <2>1. idx <= n /\ n + 1 \in (n - 1)..(n + 1)
        BY <1>4
    <2> QED
        BY <1>3, <1>4, <1>6, <2>1, HandledLoop
<1>8. Typed'
    BY <1>3, <1>4, <1>6, <1>7 DEF Typed, clients, signals, hardware, HardwareTypeOK, Places
<1>9. ClientFds' = ClientFds \cup {s}
    <2> HIDE DEF n
    <2>1. ClientFds = {list_pollfds[i].fd : i \in (len_crates + 2)..n}
        BY DEF ClientFds, n
    <2>2. ClientFds' = {list_pollfds'[i].fd : i \in (len_crates + 2)..(n + 1)}
        BY <1>6 DEF ClientFds
    <2>3. (len_crates + 2)..(n + 1) = ((len_crates + 2)..n) \cup {n + 1}
        BY <1>4
    <2>4. \A i \in (len_crates + 2)..n : list_pollfds'[i].fd = list_pollfds[i].fd
        BY <1>4, <1>6
    <2> QED
        BY <1>6, <2>1, <2>2, <2>3, <2>4
<1>10. PollList'
    <2> HIDE DEF n
    <2>1. \A i \in ClientSlots : i \in 1..n /\ list_pollfds[i].fd \in ClientFds
        BY <1>4 DEF ClientSlots, ClientFds, n
    <2>2. ClientSlots' = ClientSlots \cup {n + 1} /\ \A i \in ClientSlots : i # n + 1
        <3>1. ClientSlots = (len_crates + 2)..n /\ ClientSlots' = (len_crates + 2)..(n + 1)
            BY <1>6 DEF ClientSlots, n
        <3>2. (len_crates + 2)..(n + 1) = ((len_crates + 2)..n) \cup {n + 1}
            BY <1>4
        <3> QED
            BY <1>4, <3>1, <3>2
    <2>3. ASSUME NEW i \in ClientSlots', NEW j \in ClientSlots',
                 list_pollfds'[i].fd = list_pollfds'[j].fd
          PROVE  i = j
        <3>1. CASE i \in ClientSlots /\ j \in ClientSlots
            BY <1>4, <1>6, <2>1, <2>3, <3>1 DEF PollList
        <3>2. CASE i = n + 1 /\ j \in ClientSlots
            BY <1>5, <1>6, <2>1, <2>3, <3>2
        <3>3. CASE i \in ClientSlots /\ j = n + 1
            BY <1>5, <1>6, <2>1, <2>3, <3>3
        <3> QED
            BY <2>2, <3>1, <3>2, <3>3
    <2>4. /\ Len(list_pollfds') >= len_crates + 1
          /\ \A i \in 1..(len_crates + 1) : list_pollfds'[i].fd = InitialPollfds[i].fd
        BY <1>4, <1>6 DEF PollList
    <2>5. ClientFds' = {c \in Clients : conn[c] # "none"}
        BY <1>4, <1>5, <1>9 DEF PollList
    <2> QED
        BY <1>3, <2>3, <2>4, <2>5 DEF PollList
<1>11. \A c \in Clients : Conversation(c)'
    BY <1>3, <1>7, ConversationSame DEF IInv, clients, Awaited, Waits
<1>12. ClaimsHaveConnections'
    BY <1>3, <1>9 DEF IInv, ClaimsHaveConnections
<1>13. Dispatched'
    BY <1>3, <1>7, DispatchedIdle DEF IInv, clients, Waits
<1>14. NoLostInterrupt'
    BY <1>3, EdgesNoticed DEF IInv, InProcessVme
<1> QED
    BY <1>8, <1>7, <1>10, <1>11, <1>12, <1>13, <1>14 DEF IInv

-------------------------------------------------------------------------------
(***************************************************************************)
(* process_client.                                                         *)
(***************************************************************************)

\* The client that process_client serves is an accepted connection, its entry in the
\* list is the one in hand, and the daemon waits for nobody.
LEMMA ClientInHand ==
    ASSUME IInv, pc = "client"
    PROVE  /\ sock \in Clients /\ sock \in ClientFds /\ conn[sock] \in {"up", "hungup"}
           /\ len_crates \in Nat /\ Len(list_pollfds) \in Nat
           /\ idx \in (len_crates + 2)..Len(list_pollfds)
           /\ nevents > 0
           /\ \A c \in Clients : ~Awaited(c) /\ inhand[c] = <<>>
           /\ \A c \in OpenCrates : ~InProcessVme(c)
<1>1. /\ len_crates \in Nat /\ Len(list_pollfds) \in Nat
      /\ idx \in (len_crates + 2)..Len(list_pollfds) /\ nevents > 0
    BY ListTyped, CratesListed DEF IInv, Position
<1>2. sock \in Clients /\ sock \in ClientFds
    <2>1. idx \in 1..Len(list_pollfds) /\ idx > len_crates + 1
        BY <1>1
    <2> QED
        BY <2>1, PolledDescriptors DEF IInv, sock
<1>3. conn[sock] \in {"up", "hungup"}
    BY <1>2 DEF IInv, Typed, PollList
<1>4. \A c \in Clients : ~Awaited(c) /\ inhand[c] = <<>>
    BY NothingInHand DEF IInv, Awaited, Waits
<1> QED
    BY <1>1, <1>2, <1>3, <1>4 DEF InProcessVme

\* The event of the client is handled and the list stays.
LEMMA ClientDone ==
    ASSUME IInv, pc = "client", Handled, UNCHANGED list_pollfds
    PROVE  /\ idx' \in 1..(Len(list_pollfds') + 2)
           /\ nevents' \in 0..Len(list_pollfds')
           /\ pc' = "dispatch" /\ irq' = 0 /\ peer' = 0
           /\ Position'
<1>1. Len(list_pollfds) \in Nat /\ idx <= Len(list_pollfds) /\ nevents > 0
    BY ClientInHand
<1>2. /\ list_pollfds' \in Seq([fd : Int, revents : BOOLEAN])
      /\ Len(list_pollfds') \in (Len(list_pollfds) - 1)..(Len(list_pollfds) + 1)
    BY <1>1 DEF IInv, Typed
<1> QED
    BY <1>1, <1>2, HandledLoop DEF IInv

\* The error left by unread messages is read once; what the client sent before it
\* died is read on the passes after this one.
LEMMA ClientErrorStep ==
    ASSUME IInv, ClientError
    PROVE  IInv'
<1>1. /\ pc = "client" /\ sockerr[sock] /\ Consume(sock) /\ Handled
      /\ UNCHANGED <<hardware, conn, backlog, s2c, clients, list_pollfds, claims, signals>>
    BY DEF ClientError
<1>2. /\ sock \in Clients
      /\ \A c \in Clients : ~Awaited(c) /\ inhand[c] = <<>>
      /\ \A c \in OpenCrates : ~InProcessVme(c)
    BY <1>1, ClientInHand
<1>3. /\ idx' \in 1..(Len(list_pollfds') + 2) /\ nevents' \in 0..Len(list_pollfds')
      /\ pc' = "dispatch" /\ irq' = 0 /\ peer' = 0
      /\ Position'
    BY <1>1, ClientDone
<1>4. /\ sockerr' \in [Clients -> BOOLEAN]
      /\ c2s' \in [Clients -> Seq(response_buffer)]
      /\ \A c \in Clients \ {sock} : sockerr'[c] = sockerr[c] /\ c2s'[c] = c2s[c]
      /\ c2s'[sock] = c2s[sock]
    BY <1>1, <1>2, ConsumeFacts DEF IInv
<1>5. Typed'
    BY <1>1, <1>3, <1>4 DEF IInv, Typed, clients, signals, hardware, HardwareTypeOK, Places
<1>6. PollList' /\ ClientFds' = ClientFds
    BY <1>1, PollListSame DEF IInv
<1>7. ASSUME NEW c \in Clients PROVE Conversation(c)'
    <2>1. Conversation(c) /\ ~Awaited(c) /\ ~Awaited(c)'
        BY <1>2, <1>3 DEF IInv, Awaited, Waits
    <2>2. UNCHANGED <<conn, s2c, call, inhand>>
        BY <1>1 DEF clients
    <2>3. CASE c # sock
        BY <1>4, <2>1, <2>2, <2>3, ConversationSame
    <2>4. CASE c = sock
        <3>1. conn[c] # "up" /\ conn[c] # "none"
            BY <1>1, <2>1, <2>4 DEF Conversation
        <3> QED
            BY <1>4, <2>1, <2>2, <2>4, <3>1 DEF Conversation
    <2> QED
        BY <2>3, <2>4
<1>8. ClaimsHaveConnections'
    BY <1>1, <1>6, ClaimsSame DEF IInv
<1>9. Dispatched'
    BY <1>1, <1>3, DispatchedIdle DEF IInv, clients, Waits
<1>10. NoLostInterrupt'
    BY <1>1, <1>2, EdgesNoticed DEF IInv
<1> QED
    BY <1>3, <1>5, <1>6, <1>7, <1>8, <1>9, <1>10 DEF IInv

\* The message in hand is the first of its connection; a client that is connected
\* sends no answer that nobody waits for.
LEMMA ReceiveFacts ==
    ASSUME IInv, NEW m, Receive(m)
    PROVE  /\ m \in response_buffer
           /\ conn[sock] = "up" => m.msg \notin {"ACK", "NAK"}
           /\ ~sockerr[sock]
           /\ c2s' \in [Clients -> Seq(response_buffer)]
           /\ \A c \in Clients \ {sock} : c2s'[c] = c2s[c]
           /\ Len(c2s[sock]) \in Nat /\ Len(c2s[sock]) > 0
           /\ Len(c2s'[sock]) = Len(c2s[sock]) - 1
           /\ \A i \in 1..Len(c2s'[sock]) : c2s'[sock][i].msg \notin {"ACK", "NAK"}
<1>1. /\ pc = "client" /\ ~sockerr[sock] /\ c2s[sock] # <<>> /\ m = Head(c2s[sock])
      /\ c2s' = [c2s EXCEPT ![sock] = Tail(@)]
    BY DEF Receive
<1>2. sock \in Clients /\ ~Awaited(sock)
    BY <1>1, ClientInHand
<1> DEFINE q == c2s[sock]
<1>3. c2s \in [Clients -> Seq(response_buffer)] /\ q \in Seq(response_buffer) /\ q # <<>>
    BY <1>1, <1>2 DEF IInv, Typed
<1>4. /\ c2s'[sock] = Tail(q)
      /\ \A c \in Clients \ {sock} : c2s'[c] = c2s[c]
    BY <1>1, <1>2, <1>3
<1> HIDE DEF q
<1>5. /\ Len(q) \in Nat /\ Len(q) > 0
      /\ Head(q) = q[1] /\ Head(q) \in response_buffer
      /\ Tail(q) \in Seq(response_buffer)
      /\ Len(Tail(q)) = Len(q) - 1
      /\ \A i \in 1..(Len(q) - 1) : Tail(q)[i] = q[i + 1]
    BY <1>3, TailProperties
<1>6. /\ \A i \in 1..Len(q) : q[i].msg \in {"ACK", "NAK"} => i = 1
      /\ conn[sock] = "up" => q[1].msg \notin {"ACK", "NAK"}
    <2>1. Conversation(sock) /\ ~Awaited(sock)
        BY <1>2 DEF IInv
    <2> QED
        BY <2>1, <1>5 DEF Conversation, q
<1>7. \A i \in 1..(Len(q) - 1) : Tail(q)[i].msg \notin {"ACK", "NAK"}
    <2>1. \A i \in 1..(Len(q) - 1) : i + 1 \in 1..Len(q) /\ i + 1 # 1
        BY <1>5
    <2> QED
        BY <2>1, <1>5, <1>6
<1>8. c2s' \in [Clients -> Seq(response_buffer)]
    BY <1>1, <1>3, <1>5 DEF q
<1> QED
    BY <1>1, <1>4, <1>5, <1>6, <1>7, <1>8 DEF q

\* A message that is read and answered leaves the connections in balance: the answer
\* is for the call the message belongs to.
LEMMA ReplyKeepsConversations ==
    ASSUME IInv, NEW m, NEW r \in response_buffer, Receive(m), Reply(r), NEW c \in Clients
    PROVE  Conversation(c)'
<1>1. /\ pc = "client" /\ Send(sock, r) /\ Handled
      /\ UNCHANGED <<conn, call, inhand>>
    BY DEF Receive, Reply, clients
<1>2. sock \in Clients /\ conn[sock] \in {"up", "hungup"} /\ ~Awaited(c) /\ inhand[c] = <<>>
    BY <1>1, ClientInHand
<1>3. /\ s2c' \in [Clients -> Seq(response_buffer)]
      /\ \A d \in Clients \ {sock} : s2c'[d] = s2c[d] /\ sockerr'[d] = sockerr[d]
      /\ ~sockerr'[sock]
      /\ ~CanSend(sock) => s2c'[sock] = s2c[sock]
      /\ CanSend(sock) => Len(s2c[sock]) \in Nat /\ Len(s2c'[sock]) = Len(s2c[sock]) + 1
    BY <1>1, <1>2, SendFacts DEF IInv
<1>4. /\ \A d \in Clients \ {sock} : c2s'[d] = c2s[d]
      /\ Len(c2s[sock]) \in Nat /\ Len(c2s[sock]) > 0
      /\ Len(c2s'[sock]) = Len(c2s[sock]) - 1
      /\ \A i \in 1..Len(c2s'[sock]) : c2s'[sock][i].msg \notin {"ACK", "NAK"}
    BY ReceiveFacts
<1>5. CanSend(sock) <=> conn[sock] = "up"
    BY <1>2, SendableIsUp
<1>6. Conversation(c) /\ ~Awaited(c)'
    BY <1>1 DEF IInv, Awaited, Handled, Waits
<1>7. CASE c # sock
    BY <1>1, <1>2, <1>3, <1>4, <1>6, <1>7, ConversationSame
<1>8. CASE c = sock /\ conn[c] = "up"
    <2> DEFINE a == Len(s2c[c])  b == Len(c2s[c])  h == Len(inhand[c])
               k == IF call[c] = "none" THEN 0 ELSE 1
    <2>1. a \in Nat /\ b \in Nat /\ h \in Nat /\ k \in Nat /\ a + b + h = k + 0
        BY <1>2, <1>6, <1>8, Lengths DEF IInv, Conversation, Waiters
    <2>2. Len(s2c'[c]) = a + 1 /\ Len(c2s'[c]) = b - 1 /\ Len(inhand'[c]) = h
        BY <1>1, <1>3, <1>4, <1>5, <1>8
    <2>3. Waiters(c)' = k + 0
        BY <1>1, <1>6 DEF Waiters
    <2> HIDE DEF a, b, h, k
    <2>4. Len(s2c'[c]) + Len(c2s'[c]) + Len(inhand'[c]) = Waiters(c)'
        BY <2>1, <2>2, <2>3
    <2> QED
        BY <1>1, <1>2, <1>3, <1>4, <1>8, <2>4 DEF Conversation
<1>9. CASE c = sock /\ conn[c] = "hungup"
    <2>1. s2c'[c] = s2c[c] /\ ~sockerr'[c]
        BY <1>3, <1>5, <1>9
    <2>2. /\ s2c[c] = <<>> /\ call[c] = "none" /\ inhand[c] = <<>> /\ Len(c2s[c]) <= 2
        BY <1>6, <1>9 DEF Conversation
    <2>3. Len(c2s'[c]) <= 2
        BY <1>4, <1>9, <2>2
    <2> QED
        BY <1>1, <1>4, <1>9, <2>1, <2>2, <2>3 DEF Conversation
<1> QED
    BY <1>2, <1>7, <1>8, <1>9

\* A message that is read and answered: what is left to show is what it does to the
\* table and to IRQEN.
LEMMA ReplyStep ==
    ASSUME IInv, NEW m, NEW r \in response_buffer, Receive(m), Reply(r),
           UNCHANGED hardware \/ DriverNotices, HardwareTypeOK',
           claims' \in Seq(Table!Claim),
           \A i \in DOMAIN claims' : LegalRequest(claims'[i].selector),
           \A i \in DOMAIN claims' : claims'[i].data \in ClientFds
    PROVE  IInv'
<1>1. /\ pc = "client" /\ Send(sock, r) /\ Handled
      /\ UNCHANGED <<conn, backlog, clients, list_pollfds, signals>>
    BY DEF Receive, Reply
<1>2. sock \in Clients /\ \A c \in OpenCrates : ~InProcessVme(c)
    BY <1>1, ClientInHand
<1>3. /\ idx' \in 1..(Len(list_pollfds') + 2) /\ nevents' \in 0..Len(list_pollfds')
      /\ pc' = "dispatch" /\ irq' = 0 /\ peer' = 0
      /\ Position'
    BY <1>1, ClientDone
<1>4. /\ s2c' \in [Clients -> Seq(response_buffer)]
      /\ sockerr' \in [Clients -> BOOLEAN]
      /\ c2s' \in [Clients -> Seq(response_buffer)]
    BY <1>1, <1>2, SendFacts, ReceiveFacts DEF IInv
<1>5. Typed'
    BY <1>1, <1>3, <1>4 DEF IInv, Typed, clients, signals, Places
<1>6. PollList' /\ ClientFds' = ClientFds
    BY <1>1, PollListSame DEF IInv
<1>7. \A c \in Clients : Conversation(c)'
    BY ReplyKeepsConversations
<1>8. ClaimsHaveConnections'
    BY <1>6 DEF ClaimsHaveConnections
<1>9. Dispatched'
    BY <1>1, <1>3, DispatchedIdle DEF IInv, clients, Waits
<1>10. NoLostInterrupt'
    BY <1>2, EdgesNoticed DEF IInv
<1> QED
    BY <1>3, <1>5, <1>6, <1>7, <1>8, <1>9, <1>10 DEF IInv

\* A message with a plain answer is a message.
LEMMA PlainTyped ==
    ASSUME NEW msg \in v120_irq_message_select
    PROVE  Plain(msg) \in response_buffer /\ Plain(msg).msg = msg
    BY SelectorAssumption
       DEF Plain, WithSelector, ZeroSelector, response_buffer, v120irqd_selector

\* Messages that are answered and do nothing to the table or to IRQEN.
LEMMA ReplyOnlyStep ==
    ASSUME IInv, NEW m, NEW r \in response_buffer, Receive(m), Reply(r),
           UNCHANGED <<hardware, claims>>
    PROVE  IInv'
<1>1. HardwareTypeOK'
    BY DEF IInv, Typed, hardware, HardwareTypeOK
<1>2. /\ claims' \in Seq(Table!Claim)
      /\ \A i \in DOMAIN claims' : LegalRequest(claims'[i].selector)
      /\ \A i \in DOMAIN claims' : claims'[i].data \in ClientFds
    BY DEF IInv, Typed, ClaimsHaveConnections
<1> QED
    BY <1>1, <1>2, ReplyStep

\* What is not a request, or is taken, is refused.
LEMMA RequestRefusedStep ==
    ASSUME IInv, NEW m, RequestRefused(m)
    PROVE  IInv'
    BY ReplyOnlyStep, PlainTyped DEF RequestRefused, v120_irq_message_select

\* Fake interrupts are refused where the settings do not allow them.
LEMMA FakeForbiddenStep ==
    ASSUME IInv, NEW m, FakeForbidden(m)
    PROVE  IInv'
    BY ReplyOnlyStep, PlainTyped DEF FakeForbidden, v120_irq_message_select

\* A fake interrupt nobody registered for is acknowledged, and that is all.
LEMMA FakeTargetlessStep ==
    ASSUME IInv, NEW m, FakeTargetless(m)
    PROVE  IInv'
    BY ReplyOnlyStep, PlainTyped DEF FakeTargetless, v120_irq_message_select

\* The status is an answer like any other.
LEMMA ServerStatusStep ==
    ASSUME IInv, NEW m, ServerStatus(m)
    PROVE  IInv'
    BY ReplyOnlyStep, PlainTyped DEF ServerStatus, v120_irq_message_select

\* The claims as a list: a claim is a legal request of a connection that is polled.
LEMMA ClaimsListed ==
    ASSUME Typed, ClaimsHaveConnections
    PROVE  /\ Len(claims) \in Nat
           /\ DOMAIN claims = 1..Len(claims)
           /\ \A i \in 1..Len(claims) :
                 /\ claims[i] \in Table!Claim
                 /\ claims[i].selector \in v120irqd_selector
                 /\ LegalRequest(claims[i].selector)
                 /\ claims[i].data \in ClientFds
<1>1. claims \in Seq(Table!Claim)
    BY DEF Typed
<1>2. /\ Len(claims) \in Nat /\ DOMAIN claims = 1..Len(claims)
      /\ claims \in [1..Len(claims) -> Table!Claim]
    BY <1>1, LenProperties
<1> QED
    BY <1>2, TableOperators DEF Typed, ClaimsHaveConnections, Table!Claim

\* Lines are enabled as the claims name them, all of them VME interrupt lines.
LEMMA DisableUnused ==
    ASSUME HardwareTypeOK, disable_unused_interrupts,
           \A i \in DOMAIN claims' : LegalRequest(claims'[i].selector)
    PROVE  HardwareTypeOK' /\ DriverNotices
<1>1. \A c \in OpenCrates : Registered(claims', c) \subseteq ANYIRQ
    BY DEF Registered, LegalRequest
<1>2. /\ irqen' = [c \in OpenCrates |-> Registered(claims', c)]
      /\ UNCHANGED <<asserting, asserts>>
      /\ DriverNotices
    BY DEF disable_unused_interrupts, WriteIrqen
<1>3. flag' \in [OpenCrates -> BOOLEAN]
    BY <1>2 DEF DriverNotices, Active, HardwareTypeOK
<1> QED
    BY <1>1, <1>2, <1>3 DEF HardwareTypeOK

\* A granted request becomes the last claim, and its lines are enabled unless the
\* client is gone.
LEMMA RequestGrantedStep ==
    ASSUME IInv, NEW m, RequestGranted(m)
    PROVE  IInv'
<1> DEFINE e == [selector |-> m.selector, data |-> sock]
           r == Plain("ACK")
<1>1. /\ Receive(m) /\ Reply(r)
      /\ Table!Grant(sock, m.selector)
      /\ IF CanSend(sock) THEN enable_interrupts(m.selector) ELSE UNCHANGED hardware
    BY DEF RequestGranted
<1>2. m \in response_buffer /\ r \in response_buffer
    BY <1>1, ReceiveFacts, PlainTyped DEF v120_irq_message_select
<1>3. sock \in Clients /\ sock \in ClientFds
    BY <1>1, ClientInHand DEF Receive
<1>4. claims' = Append(claims, e) /\ LegalRequest(m.selector)
    BY <1>1, TableOperators DEF Table!Grant
<1>5. e \in Table!Claim /\ e.selector = m.selector /\ e.data = sock
    BY <1>2, <1>3, TableOperators DEF Table!Claim, response_buffer
<1> HIDE DEF e, r
<1>6. /\ Len(claims) \in Nat
      /\ \A i \in 1..Len(claims) : LegalRequest(claims[i].selector) /\ claims[i].data \in ClientFds
    BY ClaimsListed DEF IInv
<1>7. /\ claims' \in Seq(Table!Claim)
      /\ Len(claims') = Len(claims) + 1
      /\ \A i \in 1..Len(claims) : claims'[i] = claims[i]
      /\ claims'[Len(claims) + 1] = e
    <2>1. claims \in Seq(Table!Claim)
        BY DEF IInv, Typed
    <2> QED
        BY <2>1, <1>4, <1>5, AppendFacts
<1>8. ASSUME NEW i \in DOMAIN claims'
      PROVE  LegalRequest(claims'[i].selector) /\ claims'[i].data \in ClientFds
    <2>1. i \in 1..(Len(claims) + 1)
        BY <1>7, LenProperties
    <2>2. CASE i \in 1..Len(claims)
        BY <2>2, <1>6, <1>7
    <2>3. CASE i = Len(claims) + 1
        BY <2>3, <1>3, <1>4, <1>5, <1>7
    <2> QED
        BY <2>1, <2>2, <2>3, <1>6
<1>9. (UNCHANGED hardware \/ DriverNotices) /\ HardwareTypeOK'
    <2>1. CASE ~CanSend(sock)
        BY <1>1, <2>1 DEF IInv, Typed, hardware, HardwareTypeOK
    <2>2. CASE CanSend(sock)
        <3>1. /\ irqen' = [c \in OpenCrates |->
                              irqen[c] \cup IF m.selector.crate # {} THEN m.selector.irq ELSE {}]
              /\ UNCHANGED <<asserting, asserts>>
              /\ DriverNotices
            BY <1>1, <2>2 DEF enable_interrupts, WriteIrqen
        <3>2. m.selector.irq \subseteq ANYIRQ
            BY <1>4 DEF LegalRequest
        <3>3. HardwareTypeOK
            BY DEF IInv, Typed
        <3>4. flag' \in [OpenCrates -> BOOLEAN]
            BY <3>1 DEF DriverNotices, Active
        <3> QED
            BY <3>1, <3>2, <3>3, <3>4 DEF HardwareTypeOK
    <2> QED
        BY <2>1, <2>2
<1> QED
    BY <1>1, <1>2, <1>7, <1>8, <1>9, ReplyStep

\* A release takes one claim of the releasing client out of the list.
LEMMA ReleaseGrantedStep ==
    ASSUME IInv, NEW m, ReleaseGranted(m)
    PROVE  IInv'
<1>1. /\ Receive(m) /\ Reply(Plain("ACK"))
      /\ Table!GiveUp(sock, m.selector)
      /\ disable_unused_interrupts
    BY DEF ReleaseGranted
<1>2. PICK k \in Table!Holding(sock, m.selector) : claims' = Table!RemoveAt(claims, k)
    BY <1>1 DEF Table!GiveUp
<1>3. /\ Len(claims) \in Nat
      /\ DOMAIN claims = 1..Len(claims)
      /\ \A i \in 1..Len(claims) : LegalRequest(claims[i].selector) /\ claims[i].data \in ClientFds
    BY ClaimsListed DEF IInv
<1>4. k \in 1..Len(claims)
    BY <1>2, <1>3 DEF Table!Holding
<1>5. claims' = RemoveAt(claims, k)
    BY <1>2 DEF Table!RemoveAt, RemoveAt
<1>6. /\ claims' \in Seq(Table!Claim)
      /\ Len(claims') = Len(claims) - 1
      /\ \A j \in 1..(Len(claims) - 1) :
            claims'[j] = IF j < k THEN claims[j] ELSE claims[j + 1]
    <2>1. claims \in Seq(Table!Claim)
        BY DEF IInv, Typed
    <2> QED
        BY <2>1, <1>4, <1>5, RemoveAtProperties
<1>7. ASSUME NEW i \in DOMAIN claims'
      PROVE  LegalRequest(claims'[i].selector) /\ claims'[i].data \in ClientFds
    <2>1. i \in 1..(Len(claims) - 1)
        BY <1>6, LenProperties
    <2>2. i \in 1..Len(claims) /\ i + 1 \in 1..Len(claims)
        BY <1>3, <2>1
    <2> QED
        BY <2>1, <2>2, <1>3, <1>6
<1>8. HardwareTypeOK' /\ DriverNotices
    BY <1>1, <1>7, DisableUnused DEF IInv, Typed
<1> QED
    BY <1>1, <1>6, <1>7, <1>8, ReplyStep, PlainTyped DEF v120_irq_message_select

\* A release of what the client does not hold leaves the table; the lines nobody
\* claims are disabled all the same.
LEMMA ReleaseRefusedStep ==
    ASSUME IInv, NEW m, ReleaseRefused(m)
    PROVE  IInv'
<1>1. /\ Receive(m) /\ Reply(Plain("NAK")) /\ UNCHANGED claims
      /\ disable_unused_interrupts
    BY DEF ReleaseRefused
<1>2. /\ claims' \in Seq(Table!Claim)
      /\ \A i \in DOMAIN claims' : LegalRequest(claims'[i].selector)
      /\ \A i \in DOMAIN claims' : claims'[i].data \in ClientFds
    BY <1>1 DEF IInv, Typed, ClaimsHaveConnections
<1>3. HardwareTypeOK' /\ DriverNotices
    BY <1>1, <1>2, DisableUnused DEF IInv, Typed
<1> QED
    BY <1>1, <1>2, <1>3, ReplyStep, PlainTyped DEF v120_irq_message_select

\* An answer nobody waits for can only come from a client that has hung up since.
LEMMA BadMessageStep ==
    ASSUME IInv, NEW m, BadMessage(m)
    PROVE  IInv'
<1>1. /\ pc = "client" /\ Receive(m) /\ Handled /\ m.msg \in {"ACK", "NAK"}
      /\ UNCHANGED <<hardware, conn, backlog, s2c, sockerr, clients, list_pollfds, claims, signals>>
    BY DEF BadMessage, Receive
<1>2. /\ sock \in Clients /\ conn[sock] = "hungup"
      /\ \A c \in Clients : ~Awaited(c) /\ inhand[c] = <<>>
      /\ \A c \in OpenCrates : ~InProcessVme(c)
    BY <1>1, ClientInHand, ReceiveFacts
<1>3. /\ idx' \in 1..(Len(list_pollfds') + 2) /\ nevents' \in 0..Len(list_pollfds')
      /\ pc' = "dispatch" /\ irq' = 0 /\ peer' = 0
      /\ Position'
    BY <1>1, ClientDone
<1>4. /\ c2s' \in [Clients -> Seq(response_buffer)]
      /\ \A c \in Clients \ {sock} : c2s'[c] = c2s[c]
      /\ Len(c2s[sock]) \in Nat /\ Len(c2s'[sock]) = Len(c2s[sock]) - 1
      /\ \A i \in 1..Len(c2s'[sock]) : c2s'[sock][i].msg \notin {"ACK", "NAK"}
    BY <1>1, ReceiveFacts
<1>5. Typed'
    BY <1>1, <1>3, <1>4 DEF IInv, Typed, clients, signals, hardware, HardwareTypeOK, Places
<1>6. PollList' /\ ClientFds' = ClientFds
    BY <1>1, PollListSame DEF IInv
<1>7. ASSUME NEW c \in Clients PROVE Conversation(c)'
    <2>1. Conversation(c) /\ ~Awaited(c) /\ ~Awaited(c)'
        BY <1>2, <1>3 DEF IInv, Awaited, Waits
    <2>2. UNCHANGED <<conn, s2c, sockerr, call, inhand>>
        BY <1>1 DEF clients
    <2>3. CASE c # sock
        BY <1>4, <2>1, <2>2, <2>3, ConversationSame
    <2>4. CASE c = sock
        <3>1. /\ s2c[c] = <<>> /\ call[c] = "none" /\ inhand[c] = <<>> /\ Len(c2s[c]) <= 2
            BY <1>2, <2>1, <2>4 DEF Conversation
        <3>2. Len(c2s'[c]) <= 2
            BY <1>4, <2>4, <3>1
        <3> QED
            BY <1>2, <1>4, <2>2, <2>4, <3>1, <3>2 DEF Conversation
    <2> QED
        BY <2>3, <2>4
<1>8. ClaimsHaveConnections'
    BY <1>1, <1>6, ClaimsSame DEF IInv
<1>9. Dispatched'
    BY <1>1, <1>3, DispatchedIdle DEF IInv, clients, Waits
<1>10. NoLostInterrupt'
    BY <1>1, <1>2, EdgesNoticed DEF IInv
<1> QED
    BY <1>3, <1>5, <1>6, <1>7, <1>8, <1>9, <1>10 DEF IInv

\* remove_fd: the list loses the entry of the client in hand and no other.
LEMMA EntryRemoved ==
    ASSUME IInv, pc = "client", remove_fd(idx)
    PROVE  /\ list_pollfds' \in Seq([fd : Int, revents : BOOLEAN])
           /\ Len(list_pollfds') = Len(list_pollfds) - 1
           /\ ClientFds' = ClientFds \ {sock}
           /\ Len(list_pollfds') >= len_crates + 1
           /\ \A i \in 1..(len_crates + 1) : list_pollfds'[i].fd = InitialPollfds[i].fd
           /\ \A i, j \in ClientSlots' : list_pollfds'[i].fd = list_pollfds'[j].fd => i = j
<1> DEFINE n == Len(list_pollfds)
           first == len_crates + 2
           From(j) == IF j < idx THEN j ELSE j + 1
<1>1. /\ len_crates \in Nat /\ n \in Nat /\ first \in Nat /\ idx \in first..n
      /\ \A i \in 1..(len_crates + 1) : list_pollfds[i].fd = InitialPollfds[i].fd
      /\ \A i, j \in first..n : list_pollfds[i].fd = list_pollfds[j].fd => i = j
    BY ClientInHand DEF IInv, PollList, ClientSlots
<1>2. /\ list_pollfds' \in Seq([fd : Int, revents : BOOLEAN])
      /\ Len(list_pollfds') = n - 1
      /\ \A j \in 1..(n - 1) : list_pollfds'[j] = list_pollfds[From(j)]
    <2>1. /\ list_pollfds \in Seq([fd : Int, revents : BOOLEAN])
          /\ idx \in 1..Len(list_pollfds)
          /\ list_pollfds' = RemoveAt(list_pollfds, idx)
        BY <1>1 DEF IInv, Typed, remove_fd
    <2>2. \A j \in 1..(Len(list_pollfds) - 1) :
             RemoveAt(list_pollfds, idx)[j]
                 = IF j < idx THEN list_pollfds[j] ELSE list_pollfds[j + 1]
        BY <2>1, RemoveAtProperties
    <2>3. /\ RemoveAt(list_pollfds, idx) \in Seq([fd : Int, revents : BOOLEAN])
          /\ Len(RemoveAt(list_pollfds, idx)) = Len(list_pollfds) - 1
        BY <2>1, RemoveAtProperties
    <2> QED
        BY <2>1, <2>2, <2>3
<1>3. /\ ClientFds = {list_pollfds[i].fd : i \in first..n}
      /\ ClientFds' = {list_pollfds'[i].fd : i \in first..(n - 1)}
      /\ ClientSlots' = first..(n - 1)
      /\ sock = list_pollfds[idx].fd
    BY <1>2 DEF ClientFds, ClientSlots, sock
<1> HIDE DEF n, first
<1>4. \A j \in first..(n - 1) : /\ From(j) \in first..n /\ From(j) # idx
                                /\ j \in 1..(n - 1)
    BY <1>1 DEF first
<1>5. \A i \in first..n : i # idx => \E j \in first..(n - 1) : From(j) = i
    <2> TAKE i \in first..n
    <2> HAVE i # idx
    <2>1. CASE i < idx
        BY <1>1, <2>1
    <2>2. CASE i > idx
        <3>1. i - 1 \in first..(n - 1) /\ From(i - 1) = i
            BY <1>1, <2>2
        <3> QED
            BY <3>1
    <2> QED
        BY <1>1, <2>1, <2>2
<1>6. \A i, j \in first..(n - 1) : From(i) = From(j) => i = j
    BY <1>1
<1> HIDE DEF From
<1>7. \A j \in first..(n - 1) : list_pollfds'[j].fd = list_pollfds[From(j)].fd
    BY <1>2, <1>4
<1>8. ClientFds' = ClientFds \ {sock}
    <2>1. ASSUME NEW x \in ClientFds' PROVE x \in ClientFds \ {sock}
        <3>1. PICK j \in first..(n - 1) : x = list_pollfds[From(j)].fd
            BY <1>3, <1>7
        <3> QED
            BY <1>1, <1>3, <1>4, <3>1
    <2>2. ASSUME NEW x \in ClientFds \ {sock} PROVE x \in ClientFds'
        <3>1. PICK i \in first..n : x = list_pollfds[i].fd /\ i # idx
            BY <1>3
        <3>2. PICK j \in first..(n - 1) : From(j) = i
            BY <1>5, <3>1
        <3> QED
            BY <1>3, <1>7, <3>1, <3>2
    <2> QED
        BY <2>1, <2>2
<1>9. \A i, j \in ClientSlots' : list_pollfds'[i].fd = list_pollfds'[j].fd => i = j
    BY <1>1, <1>3, <1>4, <1>6, <1>7
<1>10. /\ n - 1 >= len_crates + 1
       /\ \A i \in 1..(len_crates + 1) : i \in 1..(n - 1) /\ i < idx
    BY <1>1 DEF first
<1>11. \A i \in 1..(len_crates + 1) : list_pollfds'[i].fd = InitialPollfds[i].fd
    BY <1>1, <1>2, <1>10 DEF From
<1> QED
    BY <1>2, <1>8, <1>9, <1>10, <1>11 DEF n

\* What is kept of the table when a client leaves are the claims of the others.
LEMMA ClaimsGivenUp ==
    ASSUME Typed, ClaimsHaveConnections, NEW s, Table!GiveUpAll(s)
    PROVE  /\ claims' \in Seq(Table!Claim)
           /\ \A i \in DOMAIN claims' :
                 \E j \in DOMAIN claims : claims'[i] = claims[j] /\ claims[j].data # s
           /\ \A j \in DOMAIN claims : claims[j].data # s =>
                 \E i \in DOMAIN claims' : claims'[i] = claims[j]
<1> DEFINE kept == {i \in DOMAIN claims : claims[i].data # s}
           n == Cardinality(kept)
           f == Ascending(kept)
<1>1. /\ Len(claims) \in Nat /\ DOMAIN claims = 1..Len(claims)
      /\ \A i \in 1..Len(claims) : claims[i] \in Table!Claim
    BY ClaimsListed
<1>2. kept \subseteq Nat /\ IsFiniteSet(kept)
    <2> DEFINE all == 1..Len(claims)
    <2>1. 1 \in Int /\ Len(claims) \in Int /\ all \subseteq Nat
        BY <1>1
    <2>2. IsFiniteSet(all)
        BY <2>1, FS_Interval
    <2>3. kept \in SUBSET all
        BY <1>1
    <2> HIDE DEF kept, all
    <2> QED
        BY <2>1, <2>2, <2>3, FS_Subset
<1>3. claims' = [k \in 1..n |-> claims[f[k]]]
    BY TableOperators DEF Table!GiveUpAll
<1>4. \A i \in kept : i \in DOMAIN claims /\ claims[i].data # s
    OBVIOUS
<1>5. \A i \in DOMAIN claims : claims[i].data # s => i \in kept
    OBVIOUS
<1> HIDE DEF kept
<1>6. /\ n \in Nat /\ f \in [1..n -> kept]
      /\ \A x \in kept : \E i \in 1..n : f[i] = x
    BY <1>2, AscendingProperties
<1> HIDE DEF n, f
<1>7. claims' \in [1..n -> Table!Claim]
    BY <1>1, <1>3, <1>4, <1>6
<1>8. claims' \in Seq(Table!Claim) /\ DOMAIN claims' = 1..n
    BY <1>6, <1>7, FunctionIsSeq
<1>9. ASSUME NEW i \in DOMAIN claims'
      PROVE  \E j \in DOMAIN claims : claims'[i] = claims[j] /\ claims[j].data # s
    <2>1. f[i] \in kept /\ claims'[i] = claims[f[i]]
        BY <1>3, <1>6, <1>8
    <2> QED
        BY <2>1, <1>4
<1>10. ASSUME NEW j \in DOMAIN claims, claims[j].data # s
       PROVE  \E i \in DOMAIN claims' : claims'[i] = claims[j]
    <2>1. PICK i \in 1..n : f[i] = j
        BY <1>5, <1>6, <1>10
    <2> QED
        BY <2>1, <1>3, <1>8
<1> QED
    BY <1>8, <1>9, <1>10

\* End of file: the entry, the claims and the lines nobody else claims go together,
\* and the socket number is free for another connection.
LEMMA ClientHangupStep ==
    ASSUME IInv, ClientHangup
    PROVE  IInv'
<1>1. /\ pc = "client" /\ ~sockerr[sock] /\ c2s[sock] = <<>> /\ conn[sock] = "hungup"
      /\ remove_fd(idx) /\ Table!GiveUpAll(sock) /\ disable_unused_interrupts
      /\ conn' = [conn EXCEPT ![sock] = "none"]
      /\ Handled
      /\ UNCHANGED <<backlog, c2s, s2c, sockerr, clients, signals>>
    BY DEF ClientHangup
<1>2. /\ sock \in Clients /\ sock \in ClientFds
      /\ Len(list_pollfds) \in Nat /\ idx <= Len(list_pollfds) /\ nevents > 0
      /\ \A c \in Clients : ~Awaited(c) /\ inhand[c] = <<>>
      /\ \A c \in OpenCrates : ~InProcessVme(c)
    BY <1>1, ClientInHand
<1>3. /\ list_pollfds' \in Seq([fd : Int, revents : BOOLEAN])
      /\ Len(list_pollfds') = Len(list_pollfds) - 1
      /\ ClientFds' = ClientFds \ {sock}
      /\ Len(list_pollfds') >= len_crates + 1
      /\ \A i \in 1..(len_crates + 1) : list_pollfds'[i].fd = InitialPollfds[i].fd
      /\ \A i, j \in ClientSlots' : list_pollfds'[i].fd = list_pollfds'[j].fd => i = j
    BY <1>1, EntryRemoved
<1>4. /\ idx' \in 1..(Len(list_pollfds') + 2) /\ nevents' \in 0..Len(list_pollfds')
      /\ pc' = "dispatch" /\ irq' = 0 /\ peer' = 0
      /\ Position'
    <2>1. Len(list_pollfds') \in (Len(list_pollfds) - 1)..(Len(list_pollfds) + 1)
        BY <1>2, <1>3
    <2> QED
        BY <1>1, <1>2, <1>3, <2>1, HandledLoop DEF IInv
<1>5. /\ claims' \in Seq(Table!Claim)
      /\ \A i \in DOMAIN claims' :
            \E j \in DOMAIN claims : claims'[i] = claims[j] /\ claims[j].data # sock
    BY <1>1, ClaimsGivenUp DEF IInv
<1>6. /\ \A i \in DOMAIN claims' : LegalRequest(claims'[i].selector)
      /\ \A i \in DOMAIN claims' : claims'[i].data \in ClientFds'
    BY <1>3, <1>5, ClaimsListed DEF IInv
<1>7. HardwareTypeOK' /\ DriverNotices
    BY <1>1, <1>6, DisableUnused DEF IInv, Typed
<1>8. /\ conn' \in [Clients -> {"none", "up", "hungup"}]
      /\ conn'[sock] = "none"
      /\ \A c \in Clients \ {sock} : conn'[c] = conn[c]
    BY <1>1, <1>2 DEF IInv, Typed
<1>9. Typed'
    BY <1>1, <1>3, <1>4, <1>5, <1>6, <1>7, <1>8 DEF IInv, Typed, clients, signals, Places
<1>10. PollList'
    <2>1. /\ ClientFds = {c \in Clients : conn[c] # "none"} \ backlog
          /\ \A c \in backlog : conn[c] # "none"
          /\ \A c, d \in backlog : c = d
          /\ backlog \subseteq Clients
        BY DEF IInv, Typed, PollList
    <2>2. ClientFds' = {c \in Clients : conn'[c] # "none"} \ backlog'
        BY <1>1, <1>3, <1>8, <2>1
    <2>3. /\ \A c \in backlog' : conn'[c] # "none"
          /\ \A c, d \in backlog' : c = d
        BY <1>1, <1>2, <1>8, <2>1
    <2> QED
        BY <1>3, <2>2, <2>3 DEF PollList
<1>11. ASSUME NEW c \in Clients PROVE Conversation(c)'
    <2>1. Conversation(c) /\ ~Awaited(c) /\ ~Awaited(c)'
        BY <1>2, <1>4 DEF IInv, Awaited, Waits
    <2>2. UNCHANGED <<c2s, s2c, sockerr, call, inhand>>
        BY <1>1 DEF clients
    <2>3. CASE c # sock
        BY <1>8, <2>1, <2>2, <2>3, ConversationSame
    <2>4. CASE c = sock
        <3>1. s2c[c] = <<>> /\ call[c] = "none" /\ inhand[c] = <<>> /\ c2s[c] = <<>> /\ ~sockerr[c]
            BY <1>1, <2>1, <2>4 DEF Conversation
        <3>2. conn'[c] = "none"
            BY <1>8, <2>4
        <3>3. Len(c2s'[c]) = 0
            BY <2>2, <3>1
        <3> QED
            BY <2>2, <3>1, <3>2, <3>3 DEF Conversation
    <2> QED
        BY <2>3, <2>4
<1>12. ClaimsHaveConnections'
    BY <1>6 DEF ClaimsHaveConnections
<1>13. Dispatched'
    BY <1>1, <1>4, DispatchedIdle DEF IInv, clients, Waits
<1>14. NoLostInterrupt'
    BY <1>2, <1>7, EdgesNoticed DEF IInv
<1> QED
    BY <1>4, <1>9, <1>10, <1>11, <1>12, <1>13, <1>14 DEF IInv

\* A fake interrupt: the faker is acknowledged, then the recipient is sent the
\* interrupt; when the faker is the recipient both messages go the same way.
LEMMA FakeNotifyStep ==
    ASSUME IInv, NEW m, FakeNotify(m)
    PROVE  IInv'
<1> DEFINE r == FakeRecipient(m)
           ack == Plain("ACK")
           sig == Signal(m.selector)
           acked == [s2c EXCEPT ![sock] = Append(@, ack)]
<1>1. /\ Receive(m) /\ CanSend(sock) /\ r # 0
      /\ sockerr' = [sockerr EXCEPT ![r] = FALSE]
      /\ \/ /\ CanSend(r)
            /\ s2c' = [acked EXCEPT ![r] = Append(@, sig)]
            /\ pc' = "fake" /\ peer' = r
            /\ UNCHANGED <<idx, nevents, irq>>
         \/ ~CanSend(r) /\ s2c' = acked /\ Handled
      /\ UNCHANGED <<hardware, conn, backlog, clients, list_pollfds, claims, signals>>
    BY DEF FakeNotify
<1>2. /\ pc = "client"
      /\ sock \in Clients /\ idx \in (len_crates + 2)..Len(list_pollfds) /\ nevents > 0
      /\ \A c \in Clients : ~Awaited(c) /\ inhand[c] = <<>>
      /\ \A c \in OpenCrates : ~InProcessVme(c)
    BY <1>1, ClientInHand DEF Receive
<1>3. /\ m \in response_buffer
      /\ c2s' \in [Clients -> Seq(response_buffer)]
      /\ \A c \in Clients \ {sock} : c2s'[c] = c2s[c]
      /\ Len(c2s[sock]) \in Nat /\ Len(c2s[sock]) > 0
      /\ Len(c2s'[sock]) = Len(c2s[sock]) - 1
      /\ \A i \in 1..Len(c2s'[sock]) : c2s'[sock][i].msg \notin {"ACK", "NAK"}
    BY <1>1, ReceiveFacts
<1>4. /\ r \in Clients /\ r \in ClientFds
      /\ sig \in response_buffer /\ sig.msg = "IRQ_SIGNAL"
      /\ HasClaim(claims, r, sig.selector)
    <2>1. m.selector \in v120irqd_selector
        BY <1>3 DEF response_buffer
    <2> QED
        BY <1>1, <2>1, RecipientFound DEF IInv, FakeRecipient
<1>5. ack \in response_buffer
    BY PlainTyped DEF v120_irq_message_select
<1> HIDE DEF r, ack, sig
<1>6. /\ conn[sock] = "up" /\ (CanSend(r) <=> conn[r] = "up")
      /\ conn[r] \in {"up", "hungup"}
    <2>1. conn[r] # "none" /\ conn[r] \in {"none", "up", "hungup"}
        BY <1>4 DEF IInv, Typed, PollList
    <2> QED
        BY <1>1, <1>2, <1>4, <2>1, SendableIsUp
<1>7. /\ acked \in [Clients -> Seq(response_buffer)]
      /\ \A c \in Clients \ {sock} : acked[c] = s2c[c]
      /\ Len(s2c[sock]) \in Nat /\ Len(acked[sock]) = Len(s2c[sock]) + 1
    <2>1. s2c \in [Clients -> Seq(response_buffer)] /\ s2c[sock] \in Seq(response_buffer)
        BY <1>2 DEF IInv, Typed
    <2>2. /\ Append(s2c[sock], ack) \in Seq(response_buffer)
          /\ Len(s2c[sock]) \in Nat
          /\ Len(Append(s2c[sock], ack)) = Len(s2c[sock]) + 1
        BY <1>5, <2>1, AppendFacts
    <2> QED
        BY <1>2, <2>1, <2>2
<1> HIDE DEF acked
<1>8. CanSend(r) => /\ s2c' \in [Clients -> Seq(response_buffer)]
                    /\ \A c \in Clients \ {r} : s2c'[c] = acked[c]
                    /\ Len(acked[r]) \in Nat /\ Len(s2c'[r]) = Len(acked[r]) + 1
                    /\ s2c'[r][Len(s2c'[r])] = sig
                    /\ pc' = "fake" /\ peer' = r /\ UNCHANGED <<idx, nevents, irq>>
    <2> HAVE CanSend(r)
    <2>1. /\ s2c' = [acked EXCEPT ![r] = Append(@, sig)]
          /\ pc' = "fake" /\ peer' = r /\ UNCHANGED <<idx, nevents, irq>>
        BY <1>1
    <2>2. /\ Append(acked[r], sig) \in Seq(response_buffer)
          /\ Len(acked[r]) \in Nat
          /\ Len(Append(acked[r], sig)) = Len(acked[r]) + 1
          /\ Append(acked[r], sig)[Len(acked[r]) + 1] = sig
        <3>1. acked[r] \in Seq(response_buffer)
            BY <1>4, <1>7
        <3> QED
            BY <1>4, <3>1, AppendFacts
    <2>3. s2c'[r] = Append(acked[r], sig) /\ \A c \in Clients \ {r} : s2c'[c] = acked[c]
        BY <1>4, <1>7, <2>1
    <2>4. s2c' \in [Clients -> Seq(response_buffer)]
        BY <1>4, <1>7, <2>1, <2>2
    <2> QED
        BY <2>1, <2>2, <2>3, <2>4
<1>9. ~CanSend(r) => s2c' = acked /\ Handled
    BY <1>1
<1>10. /\ sockerr' \in [Clients -> BOOLEAN] /\ ~sockerr'[r]
       /\ \A c \in Clients \ {r} : sockerr'[c] = sockerr[c]
       /\ ~sockerr[sock]
    BY <1>1, <1>4 DEF IInv, Typed, Receive
<1>11. /\ idx' \in 1..(Len(list_pollfds') + 2) /\ nevents' \in 0..Len(list_pollfds')
       /\ pc' \in Places /\ irq' \in ANYIRQ \cup {0} /\ peer' \in Clients \cup {0}
       /\ Position'
    <2>1. CASE CanSend(r)
        <3>1. pc' = "fake" /\ peer' = r /\ UNCHANGED <<idx, nevents, irq, list_pollfds>>
            BY <1>1, <1>8, <2>1
        <3>2. Position'
            BY <1>2, <3>1 DEF Position, VmePlaces
        <3> QED
            BY <1>4, <3>1, <3>2 DEF IInv, Typed, Places
    <2>2. CASE ~CanSend(r)
        <3>1. Handled /\ UNCHANGED list_pollfds
            BY <1>1, <1>9, <2>2
        <3> QED
            BY <1>2, <3>1, ClientDone DEF Places
    <2> QED
        BY <2>1, <2>2
<1>12. Typed'
    <2>1. s2c' \in [Clients -> Seq(response_buffer)]
        BY <1>7, <1>8, <1>9
    <2>2. UNCHANGED <<hardware, conn, backlog, clients, list_pollfds, claims, signals>>
        BY <1>1
    <2> QED
        BY <1>3, <1>10, <1>11, <2>1, <2>2
           DEF IInv, Typed, clients, signals, hardware, HardwareTypeOK
<1>13. PollList' /\ ClientFds' = ClientFds
    BY <1>1, PollListSame DEF IInv
<1>14. \A c \in Clients : Awaited(c)' <=> c = r /\ CanSend(r)
    BY <1>8, <1>9 DEF Awaited, Waits, Handled
<1>15. ASSUME NEW c \in Clients PROVE Conversation(c)'
    <2>1. Conversation(c) /\ ~Awaited(c) /\ inhand[c] = <<>>
        BY <1>2 DEF IInv
    <2>2. UNCHANGED <<conn, call, inhand>>
        BY <1>1 DEF clients
    <2> DEFINE a == Len(s2c[c])  b == Len(c2s[c])  h == Len(inhand[c])
               k == IF call[c] = "none" THEN 0 ELSE 1
    <2>3. /\ a \in Nat /\ b \in Nat /\ h \in Nat /\ k \in Nat
          /\ conn[c] = "up" => a + b + h = k + 0
        BY <2>1, Lengths DEF IInv, Conversation, Waiters
    <2>4. Len(inhand'[c]) = h
        BY <2>2
    <2>5. CASE c # sock /\ c # r
        <3>1. s2c'[c] = s2c[c] /\ c2s'[c] = c2s[c] /\ sockerr'[c] = sockerr[c]
            BY <1>3, <1>7, <1>8, <1>9, <1>10, <2>5
        <3> QED
            BY <1>14, <2>1, <2>2, <2>5, <3>1, ConversationSame
    <2>6. CASE c = sock /\ c # r
        <3>1. /\ Len(s2c'[c]) = a + 1 /\ Len(c2s'[c]) = b - 1 /\ ~sockerr'[c]
              /\ conn[c] = "up"
            BY <1>3, <1>6, <1>7, <1>8, <1>9, <1>10, <2>6
        <3>2. Waiters(c)' = k + 0
            BY <1>14, <2>2, <2>6 DEF Waiters
        <3> HIDE DEF a, b, h, k
        <3>3. Len(s2c'[c]) + Len(c2s'[c]) + Len(inhand'[c]) = Waiters(c)'
            BY <2>3, <2>4, <3>1, <3>2
        <3> QED
            BY <1>3, <2>1, <2>2, <2>6, <3>1, <3>3 DEF Conversation
    <2>7. CASE c # sock /\ c = r /\ conn[c] = "up"
        <3>1. /\ Len(s2c'[c]) = a + 1 /\ c2s'[c] = c2s[c] /\ ~sockerr'[c]
              /\ Awaited(c)'
            BY <1>3, <1>6, <1>7, <1>8, <1>10, <1>14, <2>7
        <3>2. Waiters(c)' = k + 1
            BY <2>2, <3>1 DEF Waiters
        <3>3. Len(c2s'[c]) = b
            BY <3>1
        <3> HIDE DEF a, b, h, k
        <3>4. Len(s2c'[c]) + Len(c2s'[c]) + Len(inhand'[c]) = Waiters(c)'
            BY <2>3, <2>4, <2>7, <3>1, <3>2, <3>3
        <3> QED
            BY <2>1, <2>2, <2>7, <3>1, <3>4 DEF Conversation
    <2>8. CASE c # sock /\ c = r /\ conn[c] = "hungup"
        <3>1. s2c'[c] = s2c[c] /\ c2s'[c] = c2s[c] /\ ~sockerr'[c] /\ ~Awaited(c)'
            BY <1>3, <1>6, <1>7, <1>9, <1>10, <1>14, <2>8
        <3> QED
            BY <2>1, <2>2, <2>8, <3>1 DEF Conversation
    <2>9. CASE c = sock /\ c = r
        <3>1. /\ Len(s2c'[c]) = a + 1 + 1 /\ Len(c2s'[c]) = b - 1 /\ ~sockerr'[c]
              /\ conn[c] = "up" /\ Awaited(c)'
            BY <1>3, <1>6, <1>7, <1>8, <1>10, <1>14, <2>9
        <3>2. Waiters(c)' = k + 1
            BY <2>2, <3>1 DEF Waiters
        <3> HIDE DEF a, b, h, k
        <3>3. Len(s2c'[c]) + Len(c2s'[c]) + Len(inhand'[c]) = Waiters(c)'
            BY <2>3, <2>4, <3>1, <3>2
        <3> QED
            BY <1>3, <2>1, <2>2, <2>9, <3>1, <3>3 DEF Conversation
    <2> QED
        BY <1>6, <2>5, <2>6, <2>7, <2>8, <2>9
<1>16. ClaimsHaveConnections'
    BY <1>1, <1>13, ClaimsSame DEF IInv
<1>17. Dispatched'
    <2>1. pc' \in Waits => peer' \in ClientFds'
        BY <1>4, <1>8, <1>9, <1>13 DEF Waits, Handled
    <2>2. HasClaim(claims', r, sig.selector)
        BY <1>1, <1>4
    <2>3. ASSUME NEW c \in Clients, Awaited(c)', s2c'[c] # <<>>
          PROVE  /\ s2c'[c][Len(s2c'[c])].msg = "IRQ_SIGNAL"
                 /\ HasClaim(claims', c, s2c'[c][Len(s2c'[c])].selector)
        <3>1. c = r /\ s2c'[c][Len(s2c'[c])] = sig
            BY <1>8, <1>14, <2>3
        <3> QED
            BY <3>1, <2>2, <1>4
    <2>4. ASSUME NEW c \in Clients PROVE inhand'[c] = <<>>
        BY <1>1, <1>2 DEF clients
    <2> QED
        BY <2>1, <2>3, <2>4 DEF Dispatched
<1>18. NoLostInterrupt'
    BY <1>1, <1>2, EdgesNoticed DEF IInv
<1> QED
    BY <1>11, <1>12, <1>13, <1>15, <1>16, <1>17, <1>18 DEF IInv

-------------------------------------------------------------------------------
(***************************************************************************)
(* What the clients, the boards and the signals do between the daemon's    *)
(* steps.                                                                  *)
(***************************************************************************)

\* Boards and signals touch no connection and nothing of the daemon's.
LEMMA WorldStep ==
    ASSUME IInv, UNCHANGED <<sockets, clients, loop, claims>>, Typed',
           UNCHANGED hardware \/ DriverNotices
    PROVE  IInv'
<1>1. UNCHANGED <<conn, backlog, c2s, s2c, sockerr, asked, call, inhand,
                  list_pollfds, idx, nevents, pc, irq, peer, claims>>
    BY DEF sockets, clients, loop
<1>2. Position'
    BY <1>1 DEF IInv, Position
<1>3. PollList' /\ ClientFds' = ClientFds
    BY <1>1, PollListSame DEF IInv
<1>4. \A c \in Clients : Conversation(c)'
    BY <1>1, ConversationSame DEF IInv, Awaited
<1>5. ClaimsHaveConnections'
    BY <1>1, <1>3, ClaimsSame DEF IInv
<1>6. Dispatched'
    BY <1>1, <1>3 DEF IInv, Dispatched, Awaited
<1>7. NoLostInterrupt'
    BY <1>1, EdgesNoticed, StaysInCrate DEF IInv
<1> QED
    BY <1>2, <1>3, <1>4, <1>5, <1>6, <1>7 DEF IInv

\* A board asserts its line at any moment.
LEMMA RaiseStep ==
    ASSUME IInv, NEW b \in Boards, Raise(b)
    PROVE  IInv'
<1>1. /\ asserts[b] < MaxAsserts
      /\ asserting' = asserting \cup {b}
      /\ asserts' = [asserts EXCEPT ![b] = @ + 1]
      /\ UNCHANGED irqen /\ DriverNotices
      /\ UNCHANGED <<sockets, clients, loop, claims, signals>>
    BY DEF Raise, AssertLine
<1>2. HardwareTypeOK'
    <2>1. HardwareTypeOK /\ MaxAsserts \in Nat
        BY BoardAssumption DEF IInv, Typed
    <2>2. flag' \in [OpenCrates -> BOOLEAN]
        BY <1>1 DEF DriverNotices, Active
    <2>3. asserts' \in [Boards -> 0..MaxAsserts]
        BY <1>1, <2>1 DEF HardwareTypeOK
    <2> QED
        BY <1>1, <2>1, <2>2, <2>3 DEF HardwareTypeOK
<1>3. Typed'
    BY <1>1, <1>2 DEF IInv, Typed, sockets, clients, loop, signals
<1> QED
    BY <1>1, <1>3, WorldStep

\* A signal stays pending until ppoll.
LEMMA KillStep ==
    ASSUME IInv, NEW sig \in Signals, Kill(sig)
    PROVE  IInv'
<1>1. Typed'
    BY DEF IInv, Typed, Kill, hardware, HardwareTypeOK, sockets, clients, loop
<1> QED
    BY <1>1, WorldStep DEF Kill

\* What one client does on its connection: only its own conversation is in question.
LEMMA ClientStep ==
    ASSUME IInv, NEW c \in Clients, UNCHANGED <<loop, claims>>, Typed',
           PollList', ClientFds' = ClientFds,
           \A d \in Clients \ {c} :
               /\ conn'[d] = conn[d] /\ c2s'[d] = c2s[d] /\ s2c'[d] = s2c[d]
               /\ sockerr'[d] = sockerr[d] /\ call'[d] = call[d] /\ inhand'[d] = inhand[d],
           Conversation(c)',
           Awaited(c) /\ s2c'[c] # <<>> =>
                /\ s2c'[c][Len(s2c'[c])].msg = "IRQ_SIGNAL"
                /\ HasClaim(claims, c, s2c'[c][Len(s2c'[c])].selector),
           inhand'[c] # <<>> => HasClaim(claims, c, inhand'[c][1]),
           UNCHANGED hardware \/ DriverNotices
    PROVE  IInv'
<1>1. UNCHANGED <<list_pollfds, idx, nevents, pc, irq, peer, claims>>
    BY DEF loop
<1>2. Position'
    BY <1>1 DEF IInv, Position
<1>3. ASSUME NEW d \in Clients PROVE Conversation(d)'
    <2>1. CASE d # c
        <3>1. Conversation(d)
            BY DEF IInv
        <3>2. Awaited(d)' <=> Awaited(d)
            BY <1>1 DEF Awaited
        <3> QED
            BY <2>1, <3>1, <3>2, ConversationSame
    <2>2. CASE d = c
        BY <2>2
    <2> QED
        BY <2>1, <2>2
<1>4. ClaimsHaveConnections'
    BY <1>1, ClaimsSame DEF IInv
<1>5. Dispatched'
    <2>1. pc' \in Waits => peer' \in ClientFds'
        BY <1>1 DEF IInv, Dispatched
    <2>2. ASSUME NEW d \in Clients
          PROVE  /\ Awaited(d)' /\ s2c'[d] # <<>> =>
                       /\ s2c'[d][Len(s2c'[d])].msg = "IRQ_SIGNAL"
                       /\ HasClaim(claims', d, s2c'[d][Len(s2c'[d])].selector)
                 /\ inhand'[d] # <<>> => HasClaim(claims', d, inhand'[d][1])
        <3>1. claims' = claims /\ (Awaited(d)' <=> Awaited(d))
            BY <1>1 DEF Awaited
        <3>2. CASE d # c
            BY <3>1, <3>2 DEF IInv, Dispatched
        <3>3. CASE d = c
            BY <3>1, <3>3
        <3> QED
            BY <3>2, <3>3
    <2> QED
        BY <2>1, <2>2 DEF Dispatched
<1>6. NoLostInterrupt'
    BY <1>1, EdgesNoticed, StaysInCrate DEF IInv
<1> QED
    BY <1>2, <1>3, <1>4, <1>5, <1>6 DEF IInv

\* A new connection starts with nothing of the one that had its socket before.
LEMMA ConnectStep ==
    ASSUME IInv, NEW c \in Clients, Connect(c)
    PROVE  IInv'
<1>1. /\ conn[c] = "none" /\ backlog = {}
      /\ conn' = [conn EXCEPT ![c] = "up"]
      /\ backlog' = {c}
      /\ asked' = [asked EXCEPT ![c] = {}]
      /\ UNCHANGED <<hardware, c2s, s2c, sockerr, call, inhand, loop, claims, signals>>
    BY DEF Connect
<1>2. Typed /\ PollList /\ Conversation(c)
    BY DEF IInv
<1>3. /\ conn' \in [Clients -> {"none", "up", "hungup"}]
      /\ conn'[c] = "up" /\ \A d \in Clients \ {c} : conn'[d] = conn[d]
    BY <1>1, <1>2 DEF Typed
<1>4. Typed'
    <2>1. asked' \in [Clients -> SUBSET (Calls \X v120irqd_selector)]
        BY <1>1, <1>2 DEF Typed
    <2>2. \A d \in Clients : asked'[d] \subseteq Asks[d]
        BY <1>1, <1>2 DEF Typed
    <2> QED
        BY <1>1, <1>2, <1>3, <2>1, <2>2 DEF Typed, loop, signals, hardware, HardwareTypeOK
<1>5. PollList' /\ ClientFds' = ClientFds
    <2>1. {d \in Clients : conn'[d] # "none"} \ backlog'
              = {d \in Clients : conn[d] # "none"} \ backlog
        BY <1>1, <1>3
    <2>2. list_pollfds' = list_pollfds
        BY <1>1 DEF loop
    <2>3. (\A d \in backlog' : conn'[d] # "none") /\ (\A d, e \in backlog' : d = e)
        BY <1>1, <1>3
    <2> QED
        BY <1>2, <2>1, <2>2, <2>3, PollListKept
<1>6. ~Awaited(c)
    <2>1. c \notin ClientFds
        BY <1>1, <1>2 DEF PollList
    <2> QED
        BY <2>1 DEF IInv, Dispatched, Awaited
<1>7. /\ c2s[c] = <<>> /\ s2c[c] = <<>> /\ ~sockerr[c]
      /\ call[c] = "none" /\ inhand[c] = <<>>
    BY <1>1, <1>2 DEF Conversation
<1>8. Conversation(c)'
    <2>1. c2s'[c] = <<>> /\ s2c'[c] = <<>> /\ ~sockerr'[c] /\ inhand'[c] = <<>>
        BY <1>1, <1>7
    <2>2. Waiters(c)' = 0
        BY <1>1, <1>6, <1>7 DEF Waiters, Awaited, loop
    <2>3. Len(s2c'[c]) = 0 /\ Len(c2s'[c]) = 0 /\ Len(inhand'[c]) = 0
        BY <2>1
    <2> QED
        BY <1>3, <2>1, <2>2, <2>3 DEF Conversation
<1> QED
    BY <1>1, <1>3, <1>4, <1>5, <1>7, <1>8, ClientStep

\* The messages the library calls send are messages, and no answers.
LEMMA MessageTyped ==
    ASSUME NEW name \in Calls, NEW sel \in v120irqd_selector
    PROVE  /\ MessageOf(name, sel) \in response_buffer
           /\ MessageOf(name, sel).msg \notin {"ACK", "NAK"}
<1>1. Plain("SERVER_STATUS") \in response_buffer /\ Plain("SERVER_STATUS").msg = "SERVER_STATUS"
    BY PlainTyped DEF v120_irq_message_select
<1> QED
    BY <1>1 DEF MessageOf, Calls, WithSelector, response_buffer, v120_irq_message_select

\* A call sends one message and waits for one.
LEMMA AskStep ==
    ASSUME IInv, NEW c \in Clients, NEW ask \in Asks[c], Ask(c, ask)
    PROVE  IInv'
<1> DEFINE m == MessageOf(ask[1], ask[2])
<1>1. /\ conn[c] = "up" /\ call[c] = "none" /\ inhand[c] = <<>>
      /\ c2s' = [c2s EXCEPT ![c] = Append(@, m)]
      /\ call' = [call EXCEPT ![c] = ask[1]]
      /\ asked' = [asked EXCEPT ![c] = @ \cup {ask}]
      /\ UNCHANGED <<hardware, conn, backlog, s2c, sockerr, inhand, loop, claims, signals>>
    BY DEF Ask
<1>2. Typed /\ PollList /\ Conversation(c)
    BY DEF IInv
<1>3. ask \in Calls \X v120irqd_selector /\ ask[1] \in Calls /\ ask[2] \in v120irqd_selector
    BY DaemonAssumption
<1>4. m \in response_buffer /\ m.msg \notin {"ACK", "NAK"} /\ ask[1] # "none"
    BY <1>3, MessageTyped DEF Calls
<1> HIDE DEF m
<1>5. /\ Len(c2s[c]) \in Nat
      /\ Append(c2s[c], m) \in Seq(response_buffer)
      /\ Len(Append(c2s[c], m)) = Len(c2s[c]) + 1
      /\ \A i \in 1..Len(c2s[c]) : Append(c2s[c], m)[i] = c2s[c][i]
      /\ Append(c2s[c], m)[Len(c2s[c]) + 1] = m
    <2>1. c2s[c] \in Seq(response_buffer)
        BY <1>2 DEF Typed
    <2> QED
        BY <1>4, <2>1, AppendFacts
<1>6. /\ c2s' \in [Clients -> Seq(response_buffer)]
      /\ c2s'[c] = Append(c2s[c], m)
      /\ \A d \in Clients \ {c} : c2s'[d] = c2s[d]
    BY <1>1, <1>2, <1>5 DEF Typed
<1>7. /\ call' \in [Clients -> Calls \cup {"none"}]
      /\ call'[c] = ask[1] /\ \A d \in Clients \ {c} : call'[d] = call[d]
    BY <1>1, <1>2, <1>3 DEF Typed
<1>8. Typed'
    <2>1. /\ asked' \in [Clients -> SUBSET (Calls \X v120irqd_selector)]
          /\ \A d \in Clients : asked'[d] \subseteq Asks[d]
        BY <1>1, <1>2, <1>3 DEF Typed
    <2> QED
        BY <1>1, <1>2, <1>6, <1>7, <2>1 DEF Typed, loop, signals, hardware, HardwareTypeOK
<1>9. PollList' /\ ClientFds' = ClientFds
    BY <1>1, <1>2, PollListSame DEF loop
<1>10. Conversation(c)'
    <2> DEFINE a == Len(s2c[c])  b == Len(c2s[c])  h == Len(inhand[c])
               w == IF Awaited(c) THEN 1 ELSE 0
    <2>1. /\ a \in Nat /\ b \in Nat /\ h \in Nat /\ w \in Nat /\ a + b + h = 0 + w
          /\ ~sockerr[c]
        BY <1>1, <1>2, Lengths DEF Conversation, Waiters
    <2>2. Len(s2c'[c]) = a /\ Len(c2s'[c]) = b + 1 /\ Len(inhand'[c]) = h
        BY <1>1, <1>5, <1>6
    <2>3. Waiters(c)' = 1 + w
        BY <1>1, <1>4, <1>7 DEF Waiters, Awaited, loop
    <2>4. ASSUME NEW i \in 1..Len(c2s'[c]), c2s'[c][i].msg \in {"ACK", "NAK"}
          PROVE  i = 1 /\ Awaited(c)'
        <3>1. i \in 1..Len(c2s[c]) /\ c2s'[c][i] = c2s[c][i]
            BY <1>4, <1>5, <1>6, <2>4
        <3>2. i = 1 /\ Awaited(c)
            BY <1>1, <1>2, <2>4, <3>1 DEF Conversation
        <3> QED
            BY <1>1, <3>2 DEF Awaited, loop
    <2> HIDE DEF a, b, h, w
    <2>5. Len(s2c'[c]) + Len(c2s'[c]) + Len(inhand'[c]) = Waiters(c)'
        BY <2>1, <2>2, <2>3
    <2> QED
        BY <1>1, <2>1, <2>4, <2>5 DEF Conversation
<1>11. Awaited(c) /\ s2c'[c] # <<>> =>
            /\ s2c'[c][Len(s2c'[c])].msg = "IRQ_SIGNAL"
            /\ HasClaim(claims, c, s2c'[c][Len(s2c'[c])].selector)
    BY <1>1 DEF IInv, Dispatched
<1> QED
    BY <1>1, <1>6, <1>7, <1>8, <1>9, <1>10, <1>11, ClientStep

\* A message that a connected client takes from its socket: the last one stays the
\* last, and nothing else changes on the connection.
LEMMA Taken ==
    ASSUME Typed, NEW c \in Clients, s2c[c] # <<>>, s2c' = [s2c EXCEPT ![c] = Tail(@)]
    PROVE  /\ s2c' \in [Clients -> Seq(response_buffer)]
           /\ \A d \in Clients \ {c} : s2c'[d] = s2c[d]
           /\ Len(s2c[c]) \in Nat /\ Len(s2c[c]) > 0
           /\ Len(s2c'[c]) = Len(s2c[c]) - 1
           /\ s2c'[c] # <<>> => s2c'[c][Len(s2c'[c])] = s2c[c][Len(s2c[c])]
           /\ Head(s2c[c]) = s2c[c][1] /\ Head(s2c[c]) \in response_buffer
<1> DEFINE q == s2c[c]
<1>1. s2c \in [Clients -> Seq(response_buffer)] /\ q \in Seq(response_buffer)
    BY DEF Typed
<1>2. s2c'[c] = Tail(q) /\ \A d \in Clients \ {c} : s2c'[d] = s2c[d]
    BY <1>1
<1>3. q # <<>>
    OBVIOUS
<1> HIDE DEF q
<1>4. /\ Len(q) \in Nat /\ Len(q) > 0
      /\ Head(q) = q[1] /\ Head(q) \in response_buffer
      /\ Tail(q) \in Seq(response_buffer)
      /\ Len(Tail(q)) = Len(q) - 1
      /\ \A i \in 1..(Len(q) - 1) : Tail(q)[i] = q[i + 1]
    BY <1>1, <1>3, TailProperties
<1>5. Tail(q) # <<>> => Tail(q)[Len(Tail(q))] = q[Len(q)]
    <2> HAVE Tail(q) # <<>>
    <2>1. Len(q) - 1 # 0
        BY <1>4, EmptySeq
    <2>2. Len(q) - 1 \in 1..(Len(q) - 1) /\ (Len(q) - 1) + 1 = Len(q)
        BY <1>4, <2>1
    <2> QED
        BY <1>4, <2>2
<1>6. s2c' \in [Clients -> Seq(response_buffer)]
    BY <1>1, <1>4 DEF q
<1> QED
    BY <1>2, <1>4, <1>5, <1>6 DEF q

\* A call takes the next message, which is one of those that are waited for.
LEMMA ReturnStep ==
    ASSUME IInv, NEW c \in Clients, Return(c)
    PROVE  IInv'
<1>1. /\ call[c] # "none" /\ s2c[c] # <<>>
      /\ s2c' = [s2c EXCEPT ![c] = Tail(@)]
      /\ call' = [call EXCEPT ![c] = "none"]
      /\ UNCHANGED <<hardware, conn, backlog, c2s, sockerr, asked, inhand, loop, claims, signals>>
    BY DEF Return
<1>2. Typed /\ PollList /\ Conversation(c)
    BY DEF IInv
<1>3. conn[c] = "up" /\ inhand[c] = <<>> /\ ~sockerr[c]
    <2>1. conn[c] = "up"
        BY <1>1, <1>2 DEF Typed, Conversation
    <2> QED
        BY <1>1, <1>2, <2>1 DEF Conversation
<1>4. /\ s2c' \in [Clients -> Seq(response_buffer)]
      /\ \A d \in Clients \ {c} : s2c'[d] = s2c[d]
      /\ Len(s2c'[c]) = Len(s2c[c]) - 1
      /\ s2c'[c] # <<>> => s2c'[c][Len(s2c'[c])] = s2c[c][Len(s2c[c])]
    BY <1>1, <1>2, Taken
<1>5. /\ call' \in [Clients -> Calls \cup {"none"}]
      /\ call'[c] = "none" /\ \A d \in Clients \ {c} : call'[d] = call[d]
    BY <1>1, <1>2 DEF Typed
<1>6. Typed'
    BY <1>1, <1>2, <1>4, <1>5 DEF Typed, loop, signals, hardware, HardwareTypeOK
<1>7. PollList' /\ ClientFds' = ClientFds
    BY <1>1, <1>2, PollListSame DEF loop
<1>8. Conversation(c)'
    <2> DEFINE a == Len(s2c[c])  b == Len(c2s[c])  h == Len(inhand[c])
               w == IF Awaited(c) THEN 1 ELSE 0
    <2>1. a \in Nat /\ b \in Nat /\ h \in Nat /\ w \in Nat /\ a + b + h = 1 + w
        BY <1>1, <1>2, <1>3, Lengths DEF Conversation, Waiters
    <2>2. Len(s2c'[c]) = a - 1 /\ Len(c2s'[c]) = b /\ Len(inhand'[c]) = h
        BY <1>1, <1>4
    <2>3. Waiters(c)' = 0 + w
        BY <1>1, <1>5 DEF Waiters, Awaited, loop
    <2> HIDE DEF a, b, h, w
    <2>4. Len(s2c'[c]) + Len(c2s'[c]) + Len(inhand'[c]) = Waiters(c)'
        BY <2>1, <2>2, <2>3
    <2>5. Awaited(c)' <=> Awaited(c)
        BY <1>1 DEF Awaited, loop
    <2> QED
        BY <1>1, <1>2, <1>3, <2>4, <2>5 DEF Conversation
<1>9. Awaited(c) /\ s2c'[c] # <<>> =>
            /\ s2c'[c][Len(s2c'[c])].msg = "IRQ_SIGNAL"
            /\ HasClaim(claims, c, s2c'[c][Len(s2c'[c])].selector)
    BY <1>1, <1>4 DEF IInv, Dispatched
<1> QED
    BY <1>1, <1>3, <1>4, <1>5, <1>6, <1>7, <1>8, <1>9, ClientStep

\* A client that waits for interrupts and finds a message finds the one the daemon
\* waits for it to answer.
LEMMA GetInterruptStep ==
    ASSUME IInv, NEW c \in Clients, GetInterrupt(c)
    PROVE  IInv'
<1> DEFINE m == Head(s2c[c])
<1>1. /\ conn[c] = "up" /\ call[c] = "none" /\ inhand[c] = <<>> /\ s2c[c] # <<>>
      /\ s2c' = [s2c EXCEPT ![c] = Tail(@)]
      /\ inhand' = IF Wanted("IRQ_SIGNAL", m) = "OK"
                   THEN [inhand EXCEPT ![c] = <<m.selector>>]
                   ELSE inhand
      /\ UNCHANGED <<hardware, conn, backlog, c2s, sockerr, asked, call, loop, claims, signals>>
    BY DEF GetInterrupt
<1>2. Typed /\ PollList /\ Conversation(c)
    BY DEF IInv
<1>3. /\ s2c' \in [Clients -> Seq(response_buffer)]
      /\ \A d \in Clients \ {c} : s2c'[d] = s2c[d]
      /\ Len(s2c[c]) \in Nat /\ Len(s2c[c]) > 0
      /\ Len(s2c'[c]) = Len(s2c[c]) - 1
      /\ m = s2c[c][1] /\ m \in response_buffer
    BY <1>1, <1>2, Taken
<1>4. Awaited(c) /\ Len(s2c[c]) = 1 /\ Len(c2s[c]) = 0 /\ ~sockerr[c]
    <2> DEFINE a == Len(s2c[c])  b == Len(c2s[c])  h == Len(inhand[c])
               w == IF Awaited(c) THEN 1 ELSE 0
    <2>1. a \in Nat /\ a > 0 /\ b \in Nat /\ h \in Nat /\ a + b + h = 0 + w /\ ~sockerr[c]
        BY <1>1, <1>2, <1>3, Lengths DEF Conversation, Waiters
    <2>2. w \in Nat /\ w <= 1 /\ (w = 1 => Awaited(c))
        OBVIOUS
    <2> HIDE DEF a, b, h, w
    <2>3. w = 1 /\ a = 1 /\ b = 0
        BY <2>1, <2>2
    <2> QED
        BY <2>1, <2>2, <2>3 DEF a, b
<1>5. m.msg = "IRQ_SIGNAL" /\ HasClaim(claims, c, m.selector)
    BY <1>1, <1>3, <1>4 DEF IInv, Dispatched
<1> HIDE DEF m
<1>6. inhand' = [inhand EXCEPT ![c] = <<m.selector>>]
    BY <1>1, <1>5 DEF Wanted
<1>7. /\ inhand' \in [Clients -> Seq(v120irqd_selector)]
      /\ inhand'[c] = <<m.selector>>
      /\ \A d \in Clients \ {c} : inhand'[d] = inhand[d]
      /\ \A d \in Clients : Len(inhand'[d]) <= 1
    <2>1. <<m.selector>> \in Seq(v120irqd_selector) /\ Len(<<m.selector>>) = 1
        BY <1>3 DEF response_buffer
    <2>2. /\ inhand' \in [Clients -> Seq(v120irqd_selector)]
          /\ inhand'[c] = <<m.selector>>
          /\ \A d \in Clients \ {c} : inhand'[d] = inhand[d]
        BY <1>2, <1>6, <2>1 DEF Typed
    <2>3. ASSUME NEW d \in Clients PROVE Len(inhand'[d]) <= 1
        <3>1. CASE d = c
            BY <3>1, <2>1, <2>2
        <3>2. CASE d # c
            <4>1. inhand'[d] = inhand[d]
                BY <3>2, <2>2
            <4>2. Len(inhand[d]) <= 1
                BY <1>2, Lengths
            <4> QED
                BY <4>1, <4>2
        <3> QED
            BY <3>1, <3>2
    <2> QED
        BY <2>2, <2>3
<1>8. Typed'
    BY <1>1, <1>2, <1>3, <1>7 DEF Typed, loop, signals, hardware, HardwareTypeOK
<1>9. PollList' /\ ClientFds' = ClientFds
    BY <1>1, <1>2, PollListSame DEF loop
<1>10. Awaited(c)' /\ s2c'[c] = <<>>
    <2>1. Awaited(c)'
        BY <1>1, <1>4 DEF Awaited, loop
    <2>2. Len(s2c'[c]) = 0 /\ s2c'[c] \in Seq(response_buffer)
        BY <1>3, <1>4
    <2> QED
        BY <2>1, <2>2, EmptySeq
<1>11. Conversation(c)'
    <2>1. Len(s2c'[c]) = 0 /\ Len(c2s'[c]) = 0 /\ Len(inhand'[c]) = 1
        BY <1>1, <1>3, <1>4, <1>7
    <2>2. Waiters(c)' = 1
        BY <1>1, <1>10 DEF Waiters
    <2>3. Len(s2c'[c]) + Len(c2s'[c]) + Len(inhand'[c]) = Waiters(c)'
        BY <2>1, <2>2
    <2>4. conn'[c] = "up" /\ call'[c] = "none" /\ ~sockerr'[c]
        BY <1>1, <1>4
    <2>5. 1..Len(c2s'[c]) = {}
        BY <2>1
    <2> QED
        BY <1>10, <2>3, <2>4, <2>5 DEF Conversation
<1>12. HasClaim(claims, c, inhand'[c][1])
    BY <1>5, <1>7
<1> QED
    BY <1>1, <1>3, <1>7, <1>8, <1>9, <1>10, <1>11, <1>12, ClientStep

\* The answer is the only message of its connection.
LEMMA RespondStep ==
    ASSUME IInv, NEW c \in Clients, Respond(c)
    PROVE  IInv'
<1>1. PICK m \in {Plain("ACK"), Plain("NAK")} : c2s' = [c2s EXCEPT ![c] = Append(@, m)]
    BY DEF Respond
<1>2. /\ inhand[c] # <<>>
      /\ inhand' = [inhand EXCEPT ![c] = <<>>]
      /\ UNCHANGED <<conn, backlog, s2c, sockerr, asked, call, loop, claims, signals>>
      /\ UNCHANGED hardware \/ Service(inhand[c][1])
    BY DEF Respond
<1>3. Typed /\ PollList /\ Conversation(c)
    BY DEF IInv
<1>4. m \in response_buffer
    BY PlainTyped DEF v120_irq_message_select
<1>5. (UNCHANGED hardware \/ DriverNotices) /\ HardwareTypeOK'
    <2>1. CASE UNCHANGED hardware
        BY <1>3, <2>1 DEF Typed, hardware, HardwareTypeOK
    <2>2. CASE Service(inhand[c][1])
        BY <1>3, <2>2 DEF Typed, Service, HardwareTypeOK, DriverNotices, Active
    <2> QED
        BY <1>2, <2>1, <2>2
<1>6. /\ conn[c] = "up" /\ call[c] = "none" /\ Awaited(c) /\ ~sockerr[c]
      /\ Len(s2c[c]) = 0 /\ Len(c2s[c]) = 0 /\ s2c[c] = <<>>
    <2>1. conn[c] = "up" /\ call[c] = "none" /\ Awaited(c) /\ ~sockerr[c]
        BY <1>2, <1>3 DEF Conversation
    <2> DEFINE a == Len(s2c[c])  b == Len(c2s[c])  h == Len(inhand[c])
    <2>2. a \in Nat /\ b \in Nat /\ h \in Nat /\ h # 0 /\ a + b + h = 0 + 1
        BY <1>2, <1>3, <2>1, Lengths DEF Conversation, Waiters
    <2> HIDE DEF a, b, h
    <2>3. a = 0 /\ b = 0
        BY <2>2
    <2>4. s2c[c] = <<>>
        BY <1>3, <2>3, Lengths DEF a
    <2> QED
        BY <2>1, <2>3, <2>4 DEF a, b
<1>7. /\ c2s' \in [Clients -> Seq(response_buffer)]
      /\ Len(c2s'[c]) = 1
      /\ \A d \in Clients \ {c} : c2s'[d] = c2s[d]
    <2>1. c2s \in [Clients -> Seq(response_buffer)] /\ c2s[c] \in Seq(response_buffer)
        BY <1>3 DEF Typed
    <2>2. Append(c2s[c], m) \in Seq(response_buffer) /\ Len(Append(c2s[c], m)) = Len(c2s[c]) + 1
        BY <1>4, <2>1, AppendFacts
    <2> QED
        BY <1>1, <1>6, <2>1, <2>2
<1>8. /\ inhand' \in [Clients -> Seq(v120irqd_selector)]
      /\ inhand'[c] = <<>> /\ \A d \in Clients \ {c} : inhand'[d] = inhand[d]
      /\ \A d \in Clients : Len(inhand'[d]) <= 1
    <2>1. inhand \in [Clients -> Seq(v120irqd_selector)] /\ Len(<<>>) = 0
          /\ <<>> \in Seq(v120irqd_selector)
        BY <1>3 DEF Typed
    <2>2. /\ inhand' \in [Clients -> Seq(v120irqd_selector)]
          /\ inhand'[c] = <<>> /\ \A d \in Clients \ {c} : inhand'[d] = inhand[d]
        BY <1>2, <2>1
    <2>3. ASSUME NEW d \in Clients PROVE Len(inhand'[d]) <= 1
        <3>1. CASE d = c
            BY <3>1, <2>1, <2>2
        <3>2. CASE d # c
            <4>1. inhand'[d] = inhand[d]
                BY <3>2, <2>2
            <4>2. Len(inhand[d]) <= 1
                BY <1>3, Lengths
            <4> QED
                BY <4>1, <4>2
        <3> QED
            BY <3>1, <3>2
    <2> QED
        BY <2>2, <2>3
<1>9. Typed'
    BY <1>2, <1>3, <1>5, <1>7, <1>8 DEF Typed, loop, signals
<1>10. PollList' /\ ClientFds' = ClientFds
    BY <1>2, <1>3, PollListSame DEF loop
<1>11. Conversation(c)'
    <2>1. Len(s2c'[c]) = 0 /\ Len(c2s'[c]) = 1 /\ Len(inhand'[c]) = 0
        BY <1>2, <1>6, <1>7, <1>8
    <2>2. Waiters(c)' = 1 /\ Awaited(c)'
        BY <1>2, <1>6 DEF Waiters, Awaited, loop
    <2>3. Len(s2c'[c]) + Len(c2s'[c]) + Len(inhand'[c]) = Waiters(c)'
        BY <2>1, <2>2
    <2>4. \A i \in 1..Len(c2s'[c]) : i = 1
        BY <1>7
    <2> QED
        BY <1>2, <1>6, <1>8, <2>2, <2>3, <2>4 DEF Conversation
<1> QED
    BY <1>2, <1>5, <1>6, <1>7, <1>8, <1>9, <1>10, <1>11, ClientStep

\* A client that goes leaves its unread messages to the daemon and takes its own
\* unread ones with it; the daemon reads at most two before the end of file.
LEMMA HangupStep ==
    ASSUME IInv, NEW c \in Clients, Hangup(c)
    PROVE  IInv'
<1>1. /\ conn[c] = "up"
      /\ conn' = [conn EXCEPT ![c] = "hungup"]
      /\ sockerr' = [sockerr EXCEPT ![c] = s2c[c] # <<>>]
      /\ s2c' = [s2c EXCEPT ![c] = <<>>]
      /\ call' = [call EXCEPT ![c] = "none"]
      /\ inhand' = [inhand EXCEPT ![c] = <<>>]
      /\ UNCHANGED <<hardware, backlog, c2s, asked, loop, claims, signals>>
    BY DEF Hangup
<1>2. Typed /\ PollList /\ Conversation(c)
    BY DEF IInv
<1>3. /\ conn' \in [Clients -> {"none", "up", "hungup"}]
      /\ sockerr' \in [Clients -> BOOLEAN]
      /\ s2c' \in [Clients -> Seq(response_buffer)]
      /\ call' \in [Clients -> Calls \cup {"none"}]
      /\ inhand' \in [Clients -> Seq(v120irqd_selector)]
      /\ \A d \in Clients \ {c} :
            /\ conn'[d] = conn[d] /\ s2c'[d] = s2c[d] /\ sockerr'[d] = sockerr[d]
            /\ call'[d] = call[d] /\ inhand'[d] = inhand[d]
      /\ conn'[c] = "hungup" /\ s2c'[c] = <<>> /\ call'[c] = "none" /\ inhand'[c] = <<>>
    <2>1. <<>> \in Seq(response_buffer) /\ <<>> \in Seq(v120irqd_selector)
        OBVIOUS
    <2> QED
        BY <1>1, <1>2, <2>1 DEF Typed
<1>4. Typed'
    <2>1. ASSUME NEW d \in Clients PROVE Len(inhand'[d]) <= 1
        <3>1. CASE d = c
            BY <3>1, <1>3
        <3>2. CASE d # c
            <4>1. inhand'[d] = inhand[d]
                BY <3>2, <1>3
            <4>2. Len(inhand[d]) <= 1
                BY <1>2, Lengths
            <4> QED
                BY <4>1, <4>2
        <3> QED
            BY <3>1, <3>2
    <2> QED
        BY <1>1, <1>2, <1>3, <2>1 DEF Typed, loop, signals, hardware, HardwareTypeOK
<1>5. PollList' /\ ClientFds' = ClientFds
    <2>1. \A d \in Clients : conn'[d] # "none" <=> conn[d] # "none"
        BY <1>1, <1>3
    <2>2. backlog' = backlog /\ list_pollfds' = list_pollfds /\ backlog \subseteq Clients
        BY <1>1, <1>2 DEF loop, Typed
    <2>3. {d \in Clients : conn'[d] # "none"} \ backlog'
              = {d \in Clients : conn[d] # "none"} \ backlog
        BY <2>1, <2>2
    <2>4. (\A d \in backlog' : conn'[d] # "none") /\ (\A d, e \in backlog' : d = e)
        BY <1>2, <2>1, <2>2 DEF PollList
    <2> QED
        BY <1>2, <2>2, <2>3, <2>4, PollListKept
<1>6. Len(c2s[c]) <= 2
    <2> DEFINE a == Len(s2c[c])  b == Len(c2s[c])  h == Len(inhand[c])
    <2>1. a \in Nat /\ b \in Nat /\ h \in Nat /\ a + b + h = Waiters(c)
        BY <1>1, <1>2, Lengths DEF Conversation
    <2>2. Waiters(c) \in Nat /\ Waiters(c) <= 2
        BY DEF Waiters
    <2> HIDE DEF a, b, h
    <2>3. b <= 2
        BY <2>1, <2>2
    <2> QED
        BY <2>3 DEF b
<1>7. Conversation(c)'
    BY <1>1, <1>2, <1>3, <1>6 DEF Conversation
<1> QED
    BY <1>1, <1>3, <1>4, <1>5, <1>7, ClientStep

-------------------------------------------------------------------------------
(***************************************************************************)
(* The invariance theorem.                                                 *)
(***************************************************************************)

\* mainloop starts with the descriptors it configured and nobody connected.
LEMMA InitInvariant == Init => IInv
<1> SUFFICES ASSUME Init PROVE IInv
    OBVIOUS
<1>1. /\ len_crates \in Nat
      /\ list_pollfds \in Seq([fd : Int, revents : BOOLEAN])
      /\ Len(list_pollfds) = len_crates + 1
      /\ list_pollfds = InitialPollfds
    BY CratesListed DEF Init
<1>2. claims = <<>> /\ claims \in Seq(Table!Claim) /\ DOMAIN claims = {}
    BY DEF Init, Table!Init
<1>3. \A c \in Clients : /\ Len(c2s[c]) = 0 /\ Len(s2c[c]) = 0 /\ Len(inhand[c]) = 0
                         /\ c2s[c] = <<>> /\ s2c[c] = <<>> /\ inhand[c] = <<>>
    BY DEF Init
<1>4. HardwareTypeOK
    BY BoardAssumption DEF Init, HardwareInit, HardwareTypeOK
<1>5. Typed
    <2>1. /\ c2s \in [Clients -> Seq(response_buffer)]
          /\ s2c \in [Clients -> Seq(response_buffer)]
          /\ inhand \in [Clients -> Seq(v120irqd_selector)]
        BY DEF Init
    <2>2. /\ idx \in 1..(Len(list_pollfds) + 2) /\ nevents \in 0..Len(list_pollfds)
          /\ pc \in Places /\ irq \in ANYIRQ \cup {0} /\ peer \in Clients \cup {0}
        BY <1>1 DEF Init, Places
    <2>3. /\ conn \in [Clients -> {"none", "up", "hungup"}] /\ backlog \subseteq Clients
          /\ sockerr \in [Clients -> BOOLEAN]
          /\ asked \in [Clients -> SUBSET (Calls \X v120irqd_selector)]
          /\ \A c \in Clients : asked[c] \subseteq Asks[c]
          /\ call \in [Clients -> Calls \cup {"none"}]
          /\ sigpending \subseteq sigsent /\ sigsent \subseteq Signals
        BY DEF Init
    <2> QED
        BY <1>1, <1>2, <1>3, <1>4, <2>1, <2>2, <2>3 DEF Typed
<1>6. Position
    BY DEF Init, Position, VmePlaces
<1>7. PollList /\ ClientFds = {}
    <2>1. (len_crates + 2)..Len(list_pollfds) = {}
        BY <1>1
    <2>2. ClientFds = {} /\ ClientSlots = {}
        BY <2>1 DEF ClientFds, ClientSlots
    <2>3. {c \in Clients : conn[c] # "none"} = {} /\ backlog = {}
        BY DEF Init
    <2> QED
        BY <1>1, <2>2, <2>3 DEF PollList
<1>8. ASSUME NEW c \in Clients PROVE Conversation(c)
    BY <1>3 DEF Init, Conversation
<1>9. ClaimsHaveConnections
    BY <1>2 DEF ClaimsHaveConnections
<1>10. Dispatched
    BY <1>3 DEF Init, Dispatched, Awaited, Waits
<1>11. NoLostInterrupt
    BY DEF Init, HardwareInit, NoLostInterrupt, Active
<1> QED
    BY <1>5, <1>6, <1>7, <1>8, <1>9, <1>10, <1>11 DEF IInv

\* Whatever the daemon, a client, a board or a signal does, the invariant holds
\* again afterwards.
LEMMA NextInvariant == IInv /\ [Next]_vars => IInv'
<1> SUFFICES ASSUME IInv, [Next]_vars PROVE IInv'
    OBVIOUS
<1>1. CASE mainloop
    <2>1. CASE Ppoll \/ TakeUsr1 \/ TakeTerm \/ Dispatch \/ EndPass
        BY <2>1, PpollStep, TakeUsr1Step, TakeTermStep, DispatchStep, EndPassStep
    <2>2. CASE process_vme
        BY <2>2, VmeReadStep, VmeDoneStep, VmeSearchStep, VmeNotifyStep, VmeTargetlessStep,
           VmeAckedStep, VmeFailedStep, VmeRecheckStep, VmeDisableStep DEF process_vme
    <2>3. CASE process_newclient
        BY <2>3, NewclientStep
    <2>4. CASE process_client
        <3>1. CASE ClientError \/ ClientHangup \/ FakeAnswer
            BY <3>1, ClientErrorStep, ClientHangupStep, FakeAnswerStep
        <3>2. CASE \E m : \/ RequestGranted(m) \/ RequestRefused(m)
                          \/ ReleaseGranted(m) \/ ReleaseRefused(m)
                          \/ FakeForbidden(m) \/ FakeTargetless(m) \/ FakeNotify(m)
                          \/ ServerStatus(m) \/ BadMessage(m)
            BY <3>2, RequestGrantedStep, RequestRefusedStep, ReleaseGrantedStep,
               ReleaseRefusedStep, FakeForbiddenStep, FakeTargetlessStep, FakeNotifyStep,
               ServerStatusStep, BadMessageStep
        <3> QED
            BY <2>4, <3>1, <3>2 DEF process_client
    <2> QED
        BY <1>1, <2>1, <2>2, <2>3, <2>4 DEF mainloop
<1>2. CASE \E c \in Clients : Client(c)
    BY <1>2, ConnectStep, HangupStep, ReturnStep, GetInterruptStep, RespondStep, AskStep
       DEF Client, ClientServes
<1>3. CASE (\E sig \in Signals : Kill(sig)) \/ (\E b \in Boards : Raise(b))
    BY <1>3, KillStep, RaiseStep
<1>4. CASE UNCHANGED vars
    <2>1. UNCHANGED <<hardware, sockets, clients, loop, claims, signals>>
        BY <1>4 DEF vars
    <2>2. Typed'
        BY <2>1 DEF IInv, Typed, hardware, HardwareTypeOK, sockets, clients, loop, signals
    <2> QED
        BY <2>1, <2>2, WorldStep
<1> QED
    BY <1>1, <1>2, <1>3, <1>4 DEF Next

\* The daemon, its connections and the table agree in every reachable state: the
\* inductive invariant.
THEOREM Invariance == Spec => []IInv
<1>1. Init => IInv
    BY InitInvariant
<1>2. IInv /\ [Next]_vars => IInv'
    BY NextInvariant
<1> QED
    BY <1>1, <1>2, PTL DEF Spec

-------------------------------------------------------------------------------
(***************************************************************************)
(* What follows from the invariant.                                        *)
(***************************************************************************)

\* No socket holds more messages than there are parties waiting for them, two at
\* the most.
LEMMA FewMessages ==
    ASSUME IInv, NEW c \in Clients
    PROVE  Len(c2s[c]) <= 2 /\ Len(s2c[c]) <= 2
<1> DEFINE a == Len(s2c[c])  b == Len(c2s[c])  h == Len(inhand[c])
<1>1. a \in Nat /\ b \in Nat /\ h \in Nat
    BY Lengths DEF IInv
<1>2. CASE conn[c] = "up"
    <2>1. a + b + h = Waiters(c)
        BY <1>2 DEF IInv, Conversation
    <2>2. Waiters(c) \in Nat /\ Waiters(c) <= 2
        BY DEF Waiters
    <2> HIDE DEF a, b, h
    <2>3. a <= 2 /\ b <= 2
        BY <1>1, <2>1, <2>2
    <2> QED
        BY <2>3 DEF a, b
<1>3. CASE conn[c] = "hungup"
    <2>1. Len(c2s[c]) <= 2 /\ s2c[c] = <<>>
        BY <1>3 DEF IInv, Conversation
    <2>2. Len(s2c[c]) = 0
        BY <2>1
    <2> QED
        BY <2>1, <2>2
<1>4. CASE conn[c] = "none"
    <2>1. c2s[c] = <<>> /\ s2c[c] = <<>>
        BY <1>4 DEF IInv, Conversation
    <2>2. Len(c2s[c]) = 0 /\ Len(s2c[c]) = 0
        BY <2>1
    <2> QED
        BY <2>2
<1> QED
    BY <1>2, <1>3, <1>4 DEF IInv, Typed

\* TypeOK: mainloop stays within the list and within the number of events that ppoll
\* returned, whatever is accepted and removed on the way, and two messages are the
\* most a socket ever holds.
THEOREM TypeCorrect == Spec => []TypeOK
<1>1. ASSUME IInv PROVE TypeOK
    <2>1. ASSUME NEW c \in Clients
          PROVE  /\ c2s[c] \in Seq(response_buffer) /\ Len(c2s[c]) < MaxQueue
                 /\ s2c[c] \in Seq(response_buffer) /\ Len(s2c[c]) < MaxQueue
        <3>1. Len(c2s[c]) \in Nat /\ Len(s2c[c]) \in Nat
            BY <1>1, Lengths DEF IInv
        <3>2. Len(c2s[c]) <= 2 /\ Len(s2c[c]) <= 2
            BY <1>1, FewMessages
        <3>3. Len(c2s[c]) < MaxQueue /\ Len(s2c[c]) < MaxQueue
            BY <3>1, <3>2, DaemonAssumption
        <3> QED
            BY <1>1, <3>3 DEF IInv, Typed
    <2> QED
        BY <1>1, <2>1 DEF IInv, Typed, TypeOK
<1> QED
    BY <1>1, Invariance, PTL

\* PollListComplete: the list holds the devices, the listening socket and each open
\* connection once, so that remove_fd removes the entry of the client that hung up.
THEOREM PollListIsComplete == Spec => []PollListComplete
<1>1. ASSUME IInv PROVE PollListComplete
    <2> DEFINE n == Len(list_pollfds)
               first == len_crates + 1
               fds == [i \in DOMAIN list_pollfds |-> list_pollfds[i].fd]
               init == [i \in DOMAIN InitialPollfds |-> InitialPollfds[i].fd]
    <2>1. /\ n \in Nat /\ len_crates \in Nat /\ n >= first
          /\ DOMAIN list_pollfds = 1..n
          /\ \A i \in 1..n : list_pollfds[i].fd \in Int
        <3>1. list_pollfds \in [1..n -> [fd : Int, revents : BOOLEAN]]
            BY <1>1, ListTyped DEF IInv
        <3> QED
            BY <1>1, <3>1, ListTyped, CratesListed DEF IInv, PollList
    <2>2. /\ DOMAIN InitialPollfds = 1..first
          /\ \A i \in 1..first : InitialPollfds[i].fd \in Int
        <3>1. /\ InitialPollfds \in Seq([fd : Int, revents : BOOLEAN])
              /\ Len(InitialPollfds) = first
            BY CratesListed
        <3>2. InitialPollfds \in [1..first -> [fd : Int, revents : BOOLEAN]]
            BY <3>1, LenProperties
        <3> QED
            BY <3>2
    <2>3. SubSeq(fds, 1, first) = init
        <3>1. \A i \in 1..first : i \in 1..n
            BY <2>1
        <3>2. \A i \in 1..first : fds[i] \in Int /\ fds[i] = init[i]
            BY <1>1, <2>1, <2>2, <3>1 DEF IInv, PollList
        <3>3. first \in Int /\ 1 \in Int /\ 1 <= first /\ first - 1 + 1 = first
            BY <2>1
        <3> HIDE DEF fds, first, init
        <3>4. /\ SubSeq(fds, 1, first) \in Seq(Int)
              /\ Len(SubSeq(fds, 1, first)) = IF 1 <= first THEN first - 1 + 1 ELSE 0
              /\ \A i \in 1..(first - 1 + 1) : SubSeq(fds, 1, first)[i] = fds[1 + i - 1]
            <4>1. \A i \in 1..first : fds[i] \in Int
                BY <3>2
            <4> QED
                BY <4>1, <3>3, SubSeqProperties
        <3>5. \A i \in 1..first : SubSeq(fds, 1, first)[i] = fds[i]
            <4>1. \A i \in 1..first : 1 + i - 1 = i
                OBVIOUS
            <4> QED
                BY <3>3, <3>4, <4>1
        <3>6. init \in Seq(Int) /\ Len(init) = first
            <4>1. init \in [1..first -> Int] /\ first \in Nat
                BY <2>1, <2>2 DEF init, first
            <4> QED
                BY <4>1, FunctionIsSeq
        <3> QED
            BY <3>2, <3>3, <3>4, <3>5, <3>6, SeqEqual
    <2>4. Cardinality(ClientFds) = n - len_crates - 1
        <3> DEFINE k == n - first
                   f == [i \in 1..k |-> list_pollfds[first + i].fd]
        <3>1. k \in Nat /\ \A i \in 1..k : first + i \in (len_crates + 2)..n
            BY <2>1
        <3>2. \A i \in (len_crates + 2)..n : i - first \in 1..k /\ first + (i - first) = i
            BY <2>1
        <3>3. ClientFds = {list_pollfds[i].fd : i \in (len_crates + 2)..n}
            BY DEF ClientFds
        <3>4. f \in [1..k -> ClientFds]
            BY <3>1, <3>3
        <3>5. \A i, j \in 1..k : f[i] = f[j] => i = j
            <4>1. ASSUME NEW i \in 1..k, NEW j \in 1..k, f[i] = f[j] PROVE i = j
                <5>1. /\ first + i \in ClientSlots /\ first + j \in ClientSlots
                      /\ list_pollfds[first + i].fd = list_pollfds[first + j].fd
                    BY <3>1, <4>1 DEF ClientSlots
                <5>2. first + i = first + j
                    BY <1>1, <5>1 DEF IInv, PollList
                <5> QED
                    BY <5>2, <2>1
            <4> QED
                BY <4>1
        <3>6. \A t \in ClientFds : \E i \in 1..k : f[i] = t
            BY <3>2, <3>3
        <3> HIDE DEF k, f
        <3>7. f \in Bijection(1..k, ClientFds)
            BY <3>4, <3>5, <3>6, Fun_IsBij
        <3>8. ExistsBijection(1..k, ClientFds)
            BY <3>7, Fun_ExistsBij
        <3>9. Cardinality(ClientFds) = k
            BY <3>1, <3>8, FS_CountingElements
        <3> QED
            BY <2>1, <3>9 DEF k
    <2> QED
        BY <1>1, <2>3, <2>4 DEF PollListComplete, IInv, PollList
<1> QED
    BY <1>1, Invariance, PTL

\* ClaimsHaveConnections: no claim outlives its connection.
THEOREM ClaimsAreConnected == Spec => []ClaimsHaveConnections
<1>1. IInv => ClaimsHaveConnections
    BY DEF IInv
<1> QED
    BY <1>1, Invariance, PTL

\* NoLostInterrupt: an enabled line that is asserted has a notification pending, or
\* process_vme will look at it.
THEOREM InterruptsAreNoticed == Spec => []NoLostInterrupt
<1>1. IInv => NoLostInterrupt
    BY DEF IInv
<1> QED
    BY <1>1, Invariance, PTL

\* InterruptsAreClaimed: an interrupt in hand belongs to a claim the client still has.
THEOREM InterruptsInHandAreClaimed == Spec => []InterruptsAreClaimed
<1>1. ASSUME IInv, NEW c \in Clients, NEW k \in DOMAIN inhand[c]
      PROVE  HasClaim(claims, c, inhand[c][k])
    <2>1. inhand[c] \in Seq(v120irqd_selector) /\ Len(inhand[c]) <= 1
        BY <1>1 DEF IInv, Typed
    <2>2. k = 1 /\ inhand[c] # <<>>
        <3>1. k \in 1..Len(inhand[c]) /\ Len(inhand[c]) \in Nat
            BY <2>1, LenProperties
        <3>2. k = 1 /\ Len(inhand[c]) # 0
            BY <2>1, <3>1
        <3> QED
            BY <2>1, <3>2, EmptySeq
    <2> QED
        BY <1>1, <2>2 DEF IInv, Dispatched
<1>2. IInv => InterruptsAreClaimed
    BY <1>1 DEF InterruptsAreClaimed, HasClaim
<1> QED
    BY <1>2, Invariance, PTL

\* NoMutualWait: while the daemon waits for a client, that client has the interrupt
\* or it is on its way, or the daemon has something to read.
THEOREM DaemonWaitsForActiveClient == Spec => []NoMutualWait
<1>1. ASSUME IInv, pc \in Waits PROVE Readable(peer) \/ Undelivered(peer) > 0
    <2> DEFINE c == peer
               a == Len(s2c[c])  b == Len(c2s[c])  h == Len(inhand[c])
               I == {i \in DOMAIN s2c[c] : s2c[c][i].msg = "IRQ_SIGNAL"}
    <2>1. c \in Clients /\ conn[c] \in {"up", "hungup"} /\ Awaited(c)
        BY <1>1, PeerConnected DEF Awaited
    <2>2. CASE conn[c] = "hungup" \/ c2s[c] # <<>>
        BY <2>2 DEF Readable
    <2>3. CASE conn[c] = "up" /\ c2s[c] = <<>>
        <3>1. /\ a \in Nat /\ b = 0 /\ h \in Nat /\ h <= 1
              /\ (s2c[c] = <<>> <=> a = 0)
            BY <1>1, <2>1, <2>3, Lengths DEF IInv
        <3>2. a + b + h = (IF call[c] = "none" THEN 0 ELSE 1) + 1
            BY <1>1, <2>1, <2>3 DEF IInv, Conversation, Waiters
        <3>3. DOMAIN s2c[c] = 1..a /\ IsFiniteSet(1..a)
            <4>1. s2c[c] \in Seq(response_buffer)
                BY <1>1, <2>1 DEF IInv, Typed
            <4>2. DOMAIN s2c[c] = 1..a
                BY <4>1, LenProperties
            <4>3. 1 \in Int /\ a \in Int
                BY <3>1
            <4> HIDE DEF a
            <4> QED
                BY <4>2, <4>3, FS_Interval
        <3>4. IsFiniteSet(I) /\ Cardinality(I) \in Nat
            <4>1. I \in SUBSET (1..a)
                BY <3>3
            <4> HIDE DEF I
            <4> QED
                BY <3>3, <4>1, FS_Subset, FS_CardinalityType
        <3>5. Undelivered(c) = Cardinality(I) + h
            BY DEF Undelivered
        <3>6. CASE h # 0
            <4> HIDE DEF a, b, h, I
            <4> QED
                BY <3>1, <3>4, <3>5, <3>6
        <3>7. CASE h = 0
            <4>1. a # 0
                <5> DEFINE k == IF call[c] = "none" THEN 0 ELSE 1
                <5>1. k \in Nat /\ a + b + h = k + 1
                    BY <3>2
                <5> HIDE DEF a, b, h, k
                <5> QED
                    BY <5>1, <3>1, <3>7
            <4>2. s2c[c][a].msg = "IRQ_SIGNAL"
                BY <1>1, <2>1, <3>1, <4>1 DEF IInv, Dispatched
            <4>3. a \in 1..a
                BY <3>1, <4>1
            <4>4. I # {}
                BY <3>3, <4>2, <4>3
            <4> HIDE DEF a, b, h, I
            <4>5. Cardinality(I) # 0
                BY <3>4, <4>4, FS_EmptySet
            <4> QED
                BY <3>1, <3>4, <3>5, <4>5
        <3> QED
            BY <3>6, <3>7
    <2> QED
        BY <2>1, <2>2, <2>3
<1>2. IInv => NoMutualWait
    BY <1>1 DEF NoMutualWait, Waits
<1> QED
    BY <1>2, Invariance, PTL

-------------------------------------------------------------------------------
(***************************************************************************)
(* What a step may never do to the table and to IRQEN.                     *)
(***************************************************************************)

\* Only a request, a release and the end of a connection change the table.
LEMMA TableSteps ==
    ASSUME [Next]_vars
    PROVE  \/ UNCHANGED claims
           \/ ClientHangup
           \/ \E m : RequestGranted(m) \/ ReleaseGranted(m)
<1>1. CASE mainloop
    <2>1. CASE Ppoll \/ TakeUsr1 \/ TakeTerm \/ Dispatch \/ EndPass
        BY <2>1 DEF Ppoll, TakeUsr1, TakeTerm, Dispatch, EndPass
    <2>2. CASE process_vme
        <3>1. CASE \E v \in Vectors : VmeNotify(v) \/ VmeTargetless(v)
            BY <3>1 DEF VmeNotify, VmeTargetless
        <3>2. CASE VmeRead \/ VmeDone \/ VmeSearch
            BY <3>2 DEF VmeRead, VmeDone, VmeSearch
        <3>3. CASE VmeAcked \/ VmeFailed \/ VmeRecheck \/ VmeDisable
            BY <3>3 DEF VmeAcked, VmeFailed, VmeRecheck, VmeDisable
        <3> QED
            BY <2>2, <3>1, <3>2, <3>3 DEF process_vme
    <2>3. CASE process_newclient
        BY <2>3 DEF process_newclient
    <2>4. CASE process_client
        <3>1. CASE ClientError \/ ClientHangup \/ FakeAnswer
            BY <3>1 DEF ClientError, FakeAnswer
        <3>2. CASE \E m : \/ RequestGranted(m) \/ RequestRefused(m)
                          \/ ReleaseGranted(m) \/ ReleaseRefused(m)
                          \/ FakeForbidden(m) \/ FakeTargetless(m) \/ FakeNotify(m)
                          \/ ServerStatus(m) \/ BadMessage(m)
            BY <3>2 DEF RequestRefused, ReleaseRefused, FakeForbidden, FakeTargetless,
                        FakeNotify, ServerStatus, BadMessage
        <3> QED
            BY <2>4, <3>1, <3>2 DEF process_client
    <2> QED
        BY <1>1, <2>1, <2>2, <2>3, <2>4 DEF mainloop
<1>2. CASE \E c \in Clients : Client(c)
    BY <1>2 DEF Client, ClientServes, Connect, Hangup, Return, GetInterrupt, Respond, Ask
<1>3. CASE (\E sig \in Signals : Kill(sig)) \/ (\E b \in Boards : Raise(b))
    BY <1>3 DEF Kill, Raise
<1>4. CASE UNCHANGED vars
    BY <1>4 DEF vars
<1> QED
    BY <1>1, <1>2, <1>3, <1>4 DEF Next

\* Only process_vme, for the line it could not get served, and the handling of a
\* client's message change IRQEN.
LEMMA LineSteps ==
    ASSUME [Next]_vars
    PROVE  \/ UNCHANGED irqen
           \/ VmeDisable
           \/ disable_unused_interrupts
           \/ \E sel : enable_interrupts(sel)
<1>1. CASE mainloop
    <2>1. CASE Ppoll \/ TakeUsr1 \/ TakeTerm \/ Dispatch \/ EndPass
        BY <2>1 DEF Ppoll, TakeUsr1, TakeTerm, Dispatch, EndPass, hardware
    <2>2. CASE process_vme
        <3>1. CASE \E v \in Vectors : VmeNotify(v) \/ VmeTargetless(v)
            BY <3>1 DEF VmeNotify, VmeTargetless, Iack
        <3>2. CASE VmeRead \/ VmeDone \/ VmeSearch
            BY <3>2 DEF VmeRead, ReadFlag, VmeDone, VmeSearch, hardware
        <3>3. CASE VmeAcked \/ VmeFailed \/ VmeRecheck \/ VmeDisable
            BY <3>3 DEF VmeAcked, VmeFailed, VmeRecheck, hardware
        <3> QED
            BY <2>2, <3>1, <3>2, <3>3 DEF process_vme
    <2>3. CASE process_newclient
        BY <2>3 DEF process_newclient, hardware
    <2>4. CASE process_client
        <3>1. CASE ClientError \/ ClientHangup \/ FakeAnswer
            BY <3>1 DEF ClientError, ClientHangup, FakeAnswer, hardware
        <3>2. CASE \E m : RequestGranted(m) \/ ReleaseGranted(m) \/ ReleaseRefused(m)
            BY <3>2 DEF RequestGranted, ReleaseGranted, ReleaseRefused, hardware
        <3>3. CASE \E m : \/ RequestRefused(m) \/ FakeForbidden(m) \/ FakeTargetless(m)
                          \/ FakeNotify(m) \/ ServerStatus(m) \/ BadMessage(m)
            BY <3>3 DEF RequestRefused, FakeForbidden, FakeTargetless,
                        FakeNotify, ServerStatus, BadMessage, hardware
        <3> QED
            BY <2>4, <3>1, <3>2, <3>3 DEF process_client
    <2> QED
        BY <1>1, <2>1, <2>2, <2>3, <2>4 DEF mainloop
<1>2. CASE \E c \in Clients : Client(c)
    BY <1>2 DEF Client, ClientServes, Connect, Hangup, Return, GetInterrupt, Respond, Ask,
                Service, hardware
<1>3. CASE (\E sig \in Signals : Kill(sig)) \/ (\E b \in Boards : Raise(b))
    BY <1>3 DEF Kill, Raise, AssertLine, hardware
<1>4. CASE UNCHANGED vars
    BY <1>4 DEF vars, hardware
<1> QED
    BY <1>1, <1>2, <1>3, <1>4 DEF Next

\* OnlyOwnersRelease: a claim goes away only while the daemon handles its own holder.
THEOREM OwnersRelease == Spec => OnlyOwnersRelease
<1>1. ASSUME IInv, [Next]_vars, NEW e \in ToSet(claims) \ ToSet(claims')
      PROVE  pc = "client" /\ sock = e.data
    <2>1. PICK j \in DOMAIN claims : e = claims[j]
        BY DEF ToSet
    <2>2. \A i \in DOMAIN claims' : claims'[i] # e
        BY DEF ToSet
    <2>3. claims' # claims
        BY <2>1, <2>2
    <2>4. /\ Len(claims) \in Nat /\ DOMAIN claims = 1..Len(claims)
          /\ claims \in Seq(Table!Claim)
        BY <1>1, ClaimsListed DEF IInv, Typed
    <2>5. CASE ClientHangup
        <3>1. pc = "client" /\ Table!GiveUpAll(sock)
            BY <2>5 DEF ClientHangup
        <3>2. claims[j].data = sock
            BY <1>1, <2>1, <2>2, <3>1, ClaimsGivenUp DEF IInv
        <3> QED
            BY <2>1, <3>1, <3>2
    <2>6. CASE \E m : RequestGranted(m)
        <3>1. PICK m : RequestGranted(m)
            BY <2>6
        <3> DEFINE x == [selector |-> m.selector, data |-> sock]
        <3>2. claims' = Append(claims, x) /\ Receive(m)
            BY <3>1 DEF RequestGranted, Table!Grant
        <3>3. m.selector \in v120irqd_selector /\ sock \in Clients
            BY <1>1, <3>2, ReceiveFacts, ClientInHand DEF Receive, response_buffer
        <3>4. x \in Table!Claim
            BY <3>3, TableOperators DEF Table!Claim
        <3> HIDE DEF x
        <3>5. claims'[j] = claims[j] /\ Len(claims') = Len(claims) + 1
              /\ claims' \in Seq(Table!Claim)
            BY <2>1, <2>4, <3>2, <3>4, AppendFacts
        <3>6. j \in DOMAIN claims'
            BY <2>1, <2>4, <3>5, LenProperties
        <3> QED
            BY <2>1, <2>2, <3>5, <3>6
    <2>7. CASE \E m : ReleaseGranted(m)
        <3>1. PICK m : ReleaseGranted(m)
            BY <2>7
        <3>2. pc = "client" /\ Table!GiveUp(sock, m.selector)
            BY <3>1 DEF ReleaseGranted, Receive
        <3>3. PICK k \in Table!Holding(sock, m.selector) : claims' = Table!RemoveAt(claims, k)
            BY <3>2 DEF Table!GiveUp
        <3>4. k \in 1..Len(claims) /\ claims[k].data = sock /\ claims' = RemoveAt(claims, k)
            BY <2>4, <3>3 DEF Table!Holding, Table!RemoveAt, RemoveAt
        <3>5. /\ claims' \in Seq(Table!Claim)
              /\ Len(claims') = Len(claims) - 1
              /\ \A i \in 1..(Len(claims) - 1) :
                    claims'[i] = IF i < k THEN claims[i] ELSE claims[i + 1]
            <4>1. claims \in Seq(Table!Claim) /\ k \in 1..Len(claims)
                BY <2>4, <3>4
            <4>2. claims' = RemoveAt(claims, k)
                BY <3>4
            <4> QED
                BY <4>1, <4>2, RemoveAtProperties
        <3>6. DOMAIN claims' = 1..(Len(claims) - 1)
            BY <3>5, LenProperties
        <3>7. CASE j < k
            <4>1. j \in 1..(Len(claims) - 1)
                BY <2>1, <2>4, <3>4, <3>7
            <4> QED
                BY <2>1, <2>2, <3>5, <3>6, <3>7, <4>1
        <3>8. CASE j > k
            <4>1. j - 1 \in 1..(Len(claims) - 1) /\ ~(j - 1 < k) /\ (j - 1) + 1 = j
                BY <2>1, <2>4, <3>4, <3>8
            <4>2. claims'[j - 1] = claims[j]
                BY <3>5, <4>1
            <4> QED
                BY <2>1, <2>2, <3>6, <4>1, <4>2
        <3>9. CASE j = k
            BY <2>1, <3>2, <3>4, <3>9
        <3> QED
            BY <2>1, <2>4, <3>4, <3>7, <3>8, <3>9
    <2> QED
        BY <1>1, <2>3, <2>5, <2>6, <2>7, TableSteps
<1>2. IInv /\ [Next]_vars =>
          [\A e \in ToSet(claims) \ ToSet(claims') : pc = "client" /\ sock = e.data]_vars
    BY <1>1
<1> QED
    BY <1>2, Invariance, PTL DEF Spec, OnlyOwnersRelease

\* ClaimedLineStaysEnabled: registrations and hangups of others never disable a line
\* that stays claimed; only process_vme does, for the line in hand.
THEOREM ClaimedLinesStay == Spec => ClaimedLineStaysEnabled
<1>1. ASSUME IInv, [Next]_vars, NEW c \in OpenCrates, NEW i \in irqen[c],
             i \in Registered(claims', c)
      PROVE  i \in irqen'[c] \/ (pc = "disable" /\ crate = c /\ irq = i)
    <2>1. CASE UNCHANGED irqen
        BY <2>1
    <2>2. CASE VmeDisable
        <3>1. pc = "disable" /\ irqen' = [irqen EXCEPT ![crate] = @ \ {irq}]
            BY <2>2 DEF VmeDisable, WriteIrqen
        <3>2. irqen \in [OpenCrates -> SUBSET ANYIRQ]
            BY <1>1 DEF IInv, Typed, HardwareTypeOK
        <3> QED
            BY <3>1, <3>2
    <2>3. CASE disable_unused_interrupts
        <3>1. irqen'[c] = Registered(claims', c)
            BY <2>3 DEF disable_unused_interrupts, WriteIrqen
        <3> QED
            BY <1>1, <3>1
    <2>4. CASE \E sel : enable_interrupts(sel)
        BY <2>4 DEF enable_interrupts, WriteIrqen
    <2> QED
        BY <1>1, <2>1, <2>2, <2>3, <2>4, LineSteps
<1>2. IInv /\ [Next]_vars =>
          [\A c \in OpenCrates : \A i \in irqen[c] :
              (i \in Registered(claims, c) /\ i \in Registered(claims', c)) =>
                  i \in irqen'[c] \/ (pc = "disable" /\ crate = c /\ irq = i)]_vars
    BY <1>1
<1> QED
    BY <1>2, Invariance, PTL DEF Spec, ClaimedLineStaysEnabled

-------------------------------------------------------------------------------
(***************************************************************************)
(* Clients that ask only before they have anything registered.             *)
(***************************************************************************)

\* The clients that may register for an interrupt, and those that have.
Registrar(c) == \E a \in Asks[c] : a[1] = "request"
HasClaims(c) == \E i \in DOMAIN claims : claims[i].data = c

\* A client with a claim has made its one call and only answers interrupts; a request
\* is alone on its connection; an interrupt on its way has the daemon waiting for it,
\* behind the answer to a call that has not returned.
CarefulTalk(c) ==
    /\ HasClaims(c) => /\ Registrar(c) /\ asked[c] # {}
                       /\ \A i \in 1..Len(c2s[c]) : c2s[c][i].msg \in {"ACK", "NAK"}
    /\ \A i \in 1..Len(c2s[c]) :
          c2s[c][i].msg = "REQUEST_IRQ" => Registrar(c) /\ Len(c2s[c]) = 1
    /\ Registrar(c) /\ asked[c] = {} => c2s[c] = <<>>
    /\ \A i \in 1..Len(s2c[c]) : s2c[c][i].msg = "IRQ_SIGNAL" => Awaited(c)
    /\ Awaited(c) => HasClaims(c)
    /\ Awaited(c) /\ call[c] # "none" /\ conn[c] = "up" =>
          s2c[c] # <<>> /\ s2c[c][1].msg # "IRQ_SIGNAL"

CarefulInv == \A c \in Clients : CarefulTalk(c)

\* What is said of a client depends on its connection, its claims and on whether the
\* daemon waits for it.
LEMMA CarefulSame ==
    ASSUME NEW c, CarefulTalk(c),
           asked'[c] = asked[c], c2s'[c] = c2s[c], s2c'[c] = s2c[c],
           conn'[c] = conn[c], call'[c] = call[c],
           Awaited(c)' <=> Awaited(c),
           UNCHANGED claims \/ (~Awaited(c)' /\ (HasClaims(c)' => HasClaims(c)))
    PROVE  CarefulTalk(c)'
    BY DEF CarefulTalk, Registrar, HasClaims

\* Steps of the daemon that touch neither messages nor the table.
LEMMA CarefulQuiet ==
    ASSUME CarefulInv, UNCHANGED <<asked, c2s, s2c, conn, call, claims>>,
           \A c \in Clients : Awaited(c)' <=> Awaited(c)
    PROVE  CarefulInv'
    BY CarefulSame DEF CarefulInv

\* Sending adds one message behind the others, or none.
LEMMA SentMessages ==
    ASSUME Typed, NEW s \in Clients, NEW m \in response_buffer, Send(s, m)
    PROVE  \A i \in 1..Len(s2c'[s]) :
               s2c'[s][i] = m \/ (i \in 1..Len(s2c[s]) /\ s2c'[s][i] = s2c[s][i])
<1>1. s2c \in [Clients -> Seq(response_buffer)] /\ s2c[s] \in Seq(response_buffer)
    BY DEF Typed
<1>2. CASE CanSend(s)
    <2>1. s2c'[s] = Append(s2c[s], m)
        BY <1>1, <1>2 DEF Send
    <2>2. /\ Len(s2c[s]) \in Nat
          /\ Len(Append(s2c[s], m)) = Len(s2c[s]) + 1
          /\ \A i \in 1..Len(s2c[s]) : Append(s2c[s], m)[i] = s2c[s][i]
          /\ Append(s2c[s], m)[Len(s2c[s]) + 1] = m
        BY <1>1, AppendFacts
    <2>3. \A i \in 1..(Len(s2c[s]) + 1) : i \in 1..Len(s2c[s]) \/ i = Len(s2c[s]) + 1
        BY <2>2
    <2> QED
        BY <2>1, <2>2, <2>3
<1>3. CASE ~CanSend(s)
    <2>1. s2c' = s2c
        BY <1>3 DEF Send
    <2> QED
        BY <2>1
<1> QED
    BY <1>2, <1>3

\* What is left on a connection after a message is read was there before.
LEMMA LeftMessages ==
    ASSUME Typed, NEW s \in Clients, c2s[s] # <<>>, c2s' = [c2s EXCEPT ![s] = Tail(@)]
    PROVE  /\ Len(c2s[s]) \in Nat /\ Len(c2s[s]) > 0
           /\ Len(c2s'[s]) = Len(c2s[s]) - 1
           /\ Head(c2s[s]) = c2s[s][1]
           /\ \A i \in 1..Len(c2s'[s]) : i + 1 \in 1..Len(c2s[s]) /\ c2s'[s][i] = c2s[s][i + 1]
           /\ \A c \in Clients \ {s} : c2s'[c] = c2s[c]
<1>1. c2s \in [Clients -> Seq(response_buffer)] /\ c2s[s] \in Seq(response_buffer)
    BY DEF Typed
<1>2. c2s'[s] = Tail(c2s[s]) /\ \A c \in Clients \ {s} : c2s'[c] = c2s[c]
    BY <1>1
<1>3. /\ Len(c2s[s]) \in Nat /\ Len(c2s[s]) > 0
      /\ Head(c2s[s]) = c2s[s][1]
      /\ Len(Tail(c2s[s])) = Len(c2s[s]) - 1
      /\ \A i \in 1..(Len(c2s[s]) - 1) : Tail(c2s[s])[i] = c2s[s][i + 1]
    BY <1>1, TailProperties
<1>4. \A i \in 1..(Len(c2s[s]) - 1) : i + 1 \in 1..Len(c2s[s])
    BY <1>3
<1> QED
    BY <1>2, <1>3, <1>4

\* The client whose message is in hand has made a call, and what is left behind it is
\* no request.
LEMMA CarefulReceive ==
    ASSUME IInv, CarefulInv, NEW m, Receive(m)
    PROVE  /\ Registrar(sock) => asked[sock] # {}
           /\ HasClaims(sock) => /\ m.msg \in {"ACK", "NAK"}
                                 /\ \A i \in 1..Len(c2s'[sock]) : c2s'[sock][i].msg \in {"ACK", "NAK"}
           /\ m.msg = "REQUEST_IRQ" => Registrar(sock) /\ Len(c2s'[sock]) = 0
           /\ \A i \in 1..Len(c2s'[sock]) : c2s'[sock][i].msg # "REQUEST_IRQ"
           /\ \A c \in Clients \ {sock} : c2s'[c] = c2s[c]
<1>1. /\ pc = "client" /\ c2s[sock] # <<>> /\ m = Head(c2s[sock])
      /\ c2s' = [c2s EXCEPT ![sock] = Tail(@)]
    BY DEF Receive
<1>2. sock \in Clients /\ CarefulTalk(sock)
    BY <1>1, ClientInHand DEF CarefulInv
<1>3. /\ Len(c2s[sock]) \in Nat /\ Len(c2s[sock]) > 0
      /\ Len(c2s'[sock]) = Len(c2s[sock]) - 1
      /\ m = c2s[sock][1]
      /\ \A i \in 1..Len(c2s'[sock]) :
            i + 1 \in 1..Len(c2s[sock]) /\ c2s'[sock][i] = c2s[sock][i + 1]
      /\ \A c \in Clients \ {sock} : c2s'[c] = c2s[c]
    BY <1>1, <1>2, LeftMessages DEF IInv
<1>4. 1 \in 1..Len(c2s[sock])
    BY <1>3
<1>5. \A i \in 1..Len(c2s[sock]) :
         c2s[sock][i].msg = "REQUEST_IRQ" => Registrar(sock) /\ Len(c2s[sock]) = 1
    BY <1>2 DEF CarefulTalk
<1>6. ASSUME NEW i \in 1..Len(c2s'[sock]) PROVE c2s'[sock][i].msg # "REQUEST_IRQ"
    <2> DEFINE n == Len(c2s[sock])  left == Len(c2s'[sock])
    <2>1. n \in Nat /\ left = n - 1 /\ i \in 1..left
        BY <1>3
    <2> HIDE DEF n, left
    <2>2. n # 1
        BY <2>1
    <2> QED
        BY <1>3, <1>5, <2>2 DEF n
<1>7. m.msg = "REQUEST_IRQ" => Registrar(sock) /\ Len(c2s'[sock]) = 0
    BY <1>3, <1>4, <1>5
<1>8. HasClaims(sock) => /\ m.msg \in {"ACK", "NAK"}
                         /\ \A i \in 1..Len(c2s'[sock]) : c2s'[sock][i].msg \in {"ACK", "NAK"}
    BY <1>2, <1>3, <1>4 DEF CarefulTalk
<1>9. Registrar(sock) => asked[sock] # {}
    BY <1>1, <1>2 DEF CarefulTalk
<1> QED
    BY <1>3, <1>6, <1>7, <1>8, <1>9

\* A message is answered; only a request that is granted gives its client a claim.
LEMMA CarefulReply ==
    ASSUME IInv, CarefulInv, NEW m, NEW r \in response_buffer, Receive(m), Reply(r),
           r.msg # "IRQ_SIGNAL",
           \A c \in Clients : HasClaims(c)' =>
               HasClaims(c) \/ (c = sock /\ m.msg = "REQUEST_IRQ")
    PROVE  CarefulInv'
<1>1. /\ pc = "client" /\ Send(sock, r) /\ pc' = "dispatch"
      /\ UNCHANGED <<conn, asked, call>>
    BY DEF Receive, Reply, Handled, clients
<1>2. sock \in Clients /\ \A c \in Clients : ~Awaited(c) /\ ~Awaited(c)'
    BY <1>1, ClientInHand DEF Awaited, Waits
<1>3. /\ Registrar(sock) => asked[sock] # {}
      /\ HasClaims(sock) =>
            \A i \in 1..Len(c2s'[sock]) : c2s'[sock][i].msg \in {"ACK", "NAK"}
      /\ m.msg = "REQUEST_IRQ" => Registrar(sock) /\ Len(c2s'[sock]) = 0
      /\ \A i \in 1..Len(c2s'[sock]) : c2s'[sock][i].msg # "REQUEST_IRQ"
      /\ \A c \in Clients \ {sock} : c2s'[c] = c2s[c]
    BY CarefulReceive
<1>4. /\ \A c \in Clients \ {sock} : s2c'[c] = s2c[c]
      /\ \A i \in 1..Len(s2c'[sock]) :
            s2c'[sock][i] = r \/ (i \in 1..Len(s2c[sock]) /\ s2c'[sock][i] = s2c[sock][i])
    BY <1>1, <1>2, SendFacts, SentMessages DEF IInv
<1>5. ASSUME NEW c \in Clients PROVE CarefulTalk(c)'
    <2>1. CarefulTalk(c)
        BY DEF CarefulInv
    <2>2. CASE c # sock
        BY <1>1, <1>2, <1>3, <1>4, <2>1, <2>2, CarefulSame
    <2>3. CASE c = sock
        <3>1. HasClaims(c)' => /\ Registrar(c) /\ asked'[c] # {}
                               /\ \A i \in 1..Len(c2s'[c]) : c2s'[c][i].msg \in {"ACK", "NAK"}
            <4>1. CASE HasClaims(c)
                BY <1>1, <1>3, <2>1, <2>3, <4>1 DEF CarefulTalk
            <4>2. CASE m.msg = "REQUEST_IRQ"
                BY <1>1, <1>3, <2>3, <4>2
            <4> QED
                BY <4>1, <4>2
        <3>2. ~(Registrar(c) /\ asked'[c] = {})
            BY <1>1, <1>3, <2>3
        <3>3. \A i \in 1..Len(s2c'[c]) : s2c'[c][i].msg # "IRQ_SIGNAL"
            BY <1>2, <1>4, <2>1, <2>3 DEF CarefulTalk
        <3> QED
            BY <1>2, <1>3, <2>3, <3>1, <3>2, <3>3 DEF CarefulTalk, Registrar
    <2> QED
        BY <2>2, <2>3
<1> QED
    BY <1>5 DEF CarefulInv

\* The answer the daemon reads is the answer to the interrupt; with it the last
\* interrupt is off the connection.
LEMMA CarefulAnswer ==
    ASSUME IInv, CarefulInv, pc \in Waits, Readable(peer), Consume(peer), pc' \notin Waits,
           UNCHANGED <<conn, s2c, clients, claims>>
    PROVE  CarefulInv'
<1>1. peer \in Clients /\ conn[peer] \in {"up", "hungup"} /\ CarefulTalk(peer) /\ Awaited(peer)
    BY PeerConnected DEF CarefulInv, Awaited
<1>2. UNCHANGED <<conn, s2c, asked, call, claims>>
    BY DEF clients
<1>3. /\ \A c \in Clients : ~Awaited(c)'
      /\ \A c \in Clients \ {peer} : ~Awaited(c) /\ c2s'[c] = c2s[c]
    BY <1>1, ConsumeFacts DEF Awaited, IInv
<1>4. /\ Registrar(peer) /\ asked[peer] # {}
      /\ \A i \in 1..Len(c2s[peer]) : c2s[peer][i].msg \in {"ACK", "NAK"}
    BY <1>1 DEF CarefulTalk
<1>5. \A i \in 1..Len(c2s'[peer]) : c2s'[peer][i].msg \in {"ACK", "NAK"}
    <2>1. CASE sockerr[peer] \/ c2s[peer] = <<>>
        BY <1>1, <1>4, <2>1, ConsumeFacts DEF IInv
    <2>2. CASE ~(sockerr[peer] \/ c2s[peer] = <<>>)
        <3>1. c2s' = [c2s EXCEPT ![peer] = Tail(@)] /\ c2s[peer] # <<>>
            BY <2>2 DEF Consume
        <3> QED
            BY <1>1, <1>4, <3>1, LeftMessages DEF IInv
    <2> QED
        BY <2>1, <2>2
<1>6. \A i \in 1..Len(s2c[peer]) : s2c[peer][i].msg # "IRQ_SIGNAL"
    <2> DEFINE a == Len(s2c[peer])  b == Len(c2s[peer])  h == Len(inhand[peer])
    <2>1. a \in Nat /\ b \in Nat /\ h \in Nat /\ (c2s[peer] = <<>> <=> b = 0)
          /\ (s2c[peer] = <<>> <=> a = 0)
        BY <1>1, Lengths DEF IInv
    <2>2. CASE conn[peer] = "hungup"
        <3>1. s2c[peer] = <<>>
            BY <1>1, <2>2 DEF IInv, Conversation
        <3> QED
            BY <2>1, <3>1
    <2>3. CASE conn[peer] = "up"
        <3>1. c2s[peer] # <<>>
            BY <1>1, <2>3 DEF IInv, Conversation, Readable
        <3>2. a + b + h = (IF call[peer] = "none" THEN 0 ELSE 1) + 1
            BY <1>1, <2>3 DEF IInv, Conversation, Waiters
        <3>3. CASE call[peer] = "none"
            <4>1. (IF call[peer] = "none" THEN 0 ELSE 1) = 0
                BY <3>3
            <4> HIDE DEF a, b, h
            <4>2. a = 0
                BY <2>1, <3>1, <3>2, <4>1
            <4>3. 1..a = {}
                BY <4>2
            <4> QED
                BY <4>3 DEF a
        <3>4. CASE call[peer] # "none"
            <4>1. (IF call[peer] = "none" THEN 0 ELSE 1) = 1
                BY <3>4
            <4>2. s2c[peer] # <<>> /\ s2c[peer][1].msg # "IRQ_SIGNAL"
                BY <1>1, <2>3, <3>4 DEF CarefulTalk
            <4>3. a = 1
                <5> HIDE DEF a, b, h
                <5> QED
                    BY <2>1, <3>1, <3>2, <4>1, <4>2
            <4> QED
                BY <4>2, <4>3
        <3> QED
            BY <3>3, <3>4
    <2> QED
        BY <1>1, <2>2, <2>3
<1>7. ASSUME NEW c \in Clients PROVE CarefulTalk(c)'
    <2>1. CASE c # peer
        BY <1>2, <1>3, <2>1, CarefulSame DEF CarefulInv
    <2>2. CASE c = peer
        <3>1. \A i \in 1..Len(c2s'[c]) : c2s'[c][i].msg # "REQUEST_IRQ"
            BY <1>5, <2>2
        <3> QED
            BY <1>2, <1>3, <1>4, <1>5, <1>6, <2>2, <3>1 DEF CarefulTalk, Registrar, HasClaims
    <2> QED
        BY <2>1, <2>2
<1> QED
    BY <1>7 DEF CarefulInv

\* A client that is sent an interrupt has at most the answer to its one call in front
\* of it.
LEMMA CarefulNotified ==
    ASSUME IInv, CarefulInv, pc \notin Waits, NEW r \in Clients, HasClaims(r), conn[r] = "up",
           NEW sig \in response_buffer, s2c'[r] = Append(s2c[r], sig),
           c2s'[r] = c2s[r], Awaited(r)',
           UNCHANGED <<conn, asked, call, claims>>
    PROVE  CarefulTalk(r)'
<1>1. CarefulTalk(r) /\ ~Awaited(r) /\ inhand[r] = <<>> /\ Conversation(r)
    BY NothingInHand DEF CarefulInv, Awaited, IInv
<1>2. s2c[r] \in Seq(response_buffer)
    BY DEF IInv, Typed
<1>3. /\ Append(s2c[r], sig) # <<>>
      /\ \A i \in 1..Len(s2c[r]) : Append(s2c[r], sig)[i] = s2c[r][i]
    BY <1>2, AppendFacts
<1>4. call[r] # "none" => s2c'[r][1].msg # "IRQ_SIGNAL"
    <2> HAVE call[r] # "none"
    <2> DEFINE a == Len(s2c[r])  b == Len(c2s[r])  h == Len(inhand[r])
    <2>1. a \in Nat /\ b \in Nat /\ h = 0 /\ a + b + h = 1 + 0
        BY <1>1, Lengths DEF IInv, Conversation, Waiters
    <2>2. \A i \in 1..b : FALSE
        BY <1>1 DEF CarefulTalk, Conversation
    <2> HIDE DEF h
    <2>3. a = 1
        <3>1. b # 0 => 1 \in 1..b
            <4> HIDE DEF a, b
            <4> QED
                BY <2>1
        <3> HIDE DEF a, b
        <3> QED
            BY <2>1, <2>2, <3>1
    <2>4. 1 \in 1..Len(s2c[r])
        BY <2>3
    <2> QED
        BY <1>1, <1>3, <2>4 DEF CarefulTalk
<1> QED
    BY <1>1, <1>3, <1>4 DEF CarefulTalk, Registrar, HasClaims


\* Most of what mainloop does is out of sight of the clients: no message, no claim.
LEMMA CarefulMainloop ==
    ASSUME CarefulInv,
           \/ Ppoll \/ TakeUsr1 \/ TakeTerm \/ Dispatch \/ EndPass
           \/ VmeRead \/ VmeDone \/ VmeSearch \/ VmeRecheck \/ VmeDisable
           \/ (\E v \in Vectors : VmeTargetless(v))
           \/ process_newclient \/ ClientError
    PROVE  CarefulInv'
<1>1. pc \notin Waits /\ pc' \notin Waits
    BY DEF Ppoll, TakeUsr1, TakeTerm, Dispatch, EndPass, VmeRead, VmeDone, VmeSearch,
           VmeRecheck, VmeDisable, VmeTargetless, process_newclient, ClientError, Handled,
           loop, Waits
<1>2. \A c \in Clients : ~Awaited(c) /\ ~Awaited(c)'
    BY <1>1 DEF Awaited
<1>3. UNCHANGED <<asked, c2s, s2c, conn, call, claims>>
    <2>1. CASE ClientError
        BY <2>1 DEF ClientError, Consume, clients
    <2>2. CASE process_newclient
        BY <2>2 DEF process_newclient, clients
    <2>3. CASE \/ Ppoll \/ TakeUsr1 \/ TakeTerm \/ Dispatch \/ EndPass
               \/ VmeRead \/ VmeDone \/ VmeSearch \/ VmeRecheck \/ VmeDisable
               \/ (\E v \in Vectors : VmeTargetless(v))
        BY <2>3 DEF Ppoll, TakeUsr1, TakeTerm, Dispatch, EndPass, VmeRead, VmeDone, VmeSearch,
                    VmeRecheck, VmeDisable, VmeTargetless, sockets, clients
    <2> QED
        BY <2>1, <2>2, <2>3
<1> QED
    BY <1>2, <1>3, CarefulQuiet

\* A response nobody waits for is dropped.
LEMMA CarefulBadMessage ==
    ASSUME IInv, CarefulInv, NEW m, BadMessage(m)
    PROVE  CarefulInv'
<1>1. /\ pc = "client" /\ Receive(m) /\ pc' = "dispatch"
      /\ UNCHANGED <<conn, s2c, asked, call, claims>>
    BY DEF BadMessage, Receive, Handled, clients
<1>2. sock \in Clients /\ \A c \in Clients : ~Awaited(c) /\ ~Awaited(c)'
    BY <1>1, ClientInHand DEF Awaited, Waits
<1>3. /\ Registrar(sock) => asked[sock] # {}
      /\ HasClaims(sock) =>
            \A i \in 1..Len(c2s'[sock]) : c2s'[sock][i].msg \in {"ACK", "NAK"}
      /\ \A i \in 1..Len(c2s'[sock]) : c2s'[sock][i].msg # "REQUEST_IRQ"
      /\ \A c \in Clients \ {sock} : c2s'[c] = c2s[c]
    BY <1>1, CarefulReceive
<1>4. ASSUME NEW c \in Clients PROVE CarefulTalk(c)'
    <2>1. CASE c # sock
        BY <1>1, <1>2, <1>3, <2>1, CarefulSame DEF CarefulInv
    <2>2. CASE c = sock
        <3>1. CarefulTalk(c)
            BY DEF CarefulInv
        <3> QED
            BY <1>1, <1>2, <1>3, <2>2, <3>1 DEF CarefulTalk, Registrar, HasClaims
    <2> QED
        BY <2>1, <2>2
<1> QED
    BY <1>4 DEF CarefulInv

\* A granted request gives its client a claim, a release takes one from its client:
\* no claim appears otherwise.
LEMMA CarefulRequests ==
    ASSUME IInv, CarefulInv, NEW m,
           \/ RequestGranted(m) \/ RequestRefused(m) \/ ReleaseGranted(m)
           \/ ReleaseRefused(m) \/ FakeForbidden(m) \/ FakeTargetless(m) \/ ServerStatus(m)
    PROVE  CarefulInv'
<1>1. /\ Plain("ACK") \in response_buffer /\ Plain("ACK").msg = "ACK"
      /\ Plain("NAK") \in response_buffer /\ Plain("NAK").msg = "NAK"
      /\ Plain("SERVER_STATUS") \in response_buffer
      /\ Plain("SERVER_STATUS").msg = "SERVER_STATUS"
    BY PlainTyped DEF v120_irq_message_select
<1>2. Len(claims) \in Nat /\ DOMAIN claims = 1..Len(claims) /\ claims \in Seq(Table!Claim)
    BY ClaimsListed DEF IInv, Typed
<1>3. CASE RequestGranted(m)
    <2> DEFINE e == [selector |-> m.selector, data |-> sock]
    <2>1. /\ Receive(m) /\ Reply(Plain("ACK")) /\ m.msg = "REQUEST_IRQ"
          /\ claims' = Append(claims, e)
        BY <1>3 DEF RequestGranted, Table!Grant
    <2>2. e \in Table!Claim /\ e.data = sock
        BY <2>1, ReceiveFacts, ClientInHand, TableOperators
           DEF Table!Claim, response_buffer, Receive
    <2> HIDE DEF e
    <2>3. /\ claims' \in Seq(Table!Claim)
          /\ Len(claims') = Len(claims) + 1
          /\ \A i \in 1..Len(claims) : claims'[i] = claims[i]
          /\ claims'[Len(claims) + 1] = e
        BY <1>2, <2>1, <2>2, AppendFacts
    <2>4. ASSUME NEW c \in Clients, HasClaims(c)' PROVE HasClaims(c) \/ c = sock
        <3>1. PICK i \in DOMAIN claims' : claims'[i].data = c
            BY <2>4 DEF HasClaims
        <3>2. i \in 1..(Len(claims) + 1)
            BY <2>3, <3>1, LenProperties
        <3>3. i \in 1..Len(claims) \/ i = Len(claims) + 1
            BY <1>2, <3>2
        <3> QED
            BY <1>2, <2>2, <2>3, <3>1, <3>3 DEF HasClaims
    <2> QED
        BY <1>1, <2>1, <2>4, CarefulReply
<1>4. CASE ReleaseGranted(m)
    <2>1. Receive(m) /\ Reply(Plain("ACK")) /\ Table!GiveUp(sock, m.selector)
        BY <1>4 DEF ReleaseGranted
    <2>2. PICK k \in Table!Holding(sock, m.selector) : claims' = Table!RemoveAt(claims, k)
        BY <2>1 DEF Table!GiveUp
    <2>3. k \in 1..Len(claims) /\ claims' = RemoveAt(claims, k)
        BY <1>2, <2>2 DEF Table!Holding, Table!RemoveAt, RemoveAt
    <2>4. /\ claims' \in Seq(Table!Claim)
          /\ Len(claims') = Len(claims) - 1
          /\ \A j \in 1..(Len(claims) - 1) :
                claims'[j] = IF j < k THEN claims[j] ELSE claims[j + 1]
        <3>1. claims \in Seq(Table!Claim)
            BY <1>2
        <3>2. k \in 1..Len(claims)
            BY <2>3
        <3>3. claims' = RemoveAt(claims, k)
            BY <2>3
        <3> QED
            BY <3>1, <3>2, <3>3, RemoveAtProperties
    <2>5. ASSUME NEW c \in Clients, HasClaims(c)' PROVE HasClaims(c)
        <3>1. PICK i \in DOMAIN claims' : claims'[i].data = c
            BY <2>5 DEF HasClaims
        <3>2. i \in 1..(Len(claims) - 1)
            BY <2>4, <3>1, LenProperties
        <3>3. i \in 1..Len(claims) /\ i + 1 \in 1..Len(claims)
            BY <1>2, <3>2
        <3> QED
            BY <1>2, <2>4, <3>1, <3>2, <3>3 DEF HasClaims
    <2> QED
        BY <1>1, <2>1, <2>5, CarefulReply
<1>5. CASE \/ RequestRefused(m) \/ ReleaseRefused(m) \/ FakeForbidden(m)
           \/ FakeTargetless(m) \/ ServerStatus(m)
    <2>1. PICK msg \in {"ACK", "NAK", "SERVER_STATUS"} :
              Receive(m) /\ Reply(Plain(msg)) /\ UNCHANGED claims
        BY <1>5 DEF RequestRefused, ReleaseRefused, FakeForbidden, FakeTargetless, ServerStatus
    <2>2. \A c \in Clients : HasClaims(c)' => HasClaims(c)
        BY <2>1 DEF HasClaims
    <2>3. Plain(msg) \in response_buffer /\ Plain(msg).msg # "IRQ_SIGNAL"
        BY <1>1
    <2> QED
        BY <2>1, <2>2, <2>3, CarefulReply
<1> QED
    BY <1>3, <1>4, <1>5


\* process_vme sends an interrupt to a client that has claims, or to nobody.
LEMMA CarefulVmeNotify ==
    ASSUME IInv, CarefulInv, NEW v \in Vectors, VmeNotify(v)
    PROVE  CarefulInv'
<1> DEFINE sel == Concrete(crate, irq, v)
           r == Table!Recipient(sel)
           m == Signal(sel)
<1>1. /\ pc = "iack" /\ r # 0
      /\ Send(r, m)
      /\ CanSend(r) => pc' = "await" /\ peer' = r
      /\ ~CanSend(r) => pc' = "recheck"
      /\ UNCHANGED <<conn, c2s, asked, call, claims>>
    BY DEF VmeNotify, clients
<1>2. r \in Clients /\ m \in response_buffer /\ HasClaim(claims, r, m.selector)
    <2>1. sel \in v120irqd_selector
        BY <1>1, ConcreteTyped
    <2> HIDE DEF sel
    <2> QED
        BY <2>1, <1>1, RecipientFound DEF IInv
<1> HIDE DEF sel, r, m
<1>3. pc \notin Waits /\ \A c \in Clients : ~Awaited(c)
    BY <1>1 DEF Waits, Awaited
<1>4. CASE ~CanSend(r)
    <2>1. s2c' = s2c /\ \A c \in Clients : ~Awaited(c)'
        BY <1>1, <1>4 DEF Send, Awaited, Waits
    <2> QED
        BY <1>1, <1>3, <2>1, CarefulQuiet
<1>5. CASE CanSend(r)
    <2>1. conn[r] = "up" /\ HasClaims(r)
        BY <1>2, <1>5, SendableIsUp DEF HasClaim, HasClaims
    <2>2. s2c' = [s2c EXCEPT ![r] = Append(@, m)] /\ pc' = "await" /\ peer' = r
        BY <1>1, <1>5 DEF Send
    <2>3. s2c'[r] = Append(s2c[r], m) /\ \A c \in Clients \ {r} : s2c'[c] = s2c[c]
        BY <1>2, <2>2 DEF IInv, Typed
    <2>4. ASSUME NEW c \in Clients PROVE CarefulTalk(c)'
        <3>1. Awaited(c)' <=> c = r
            BY <2>2 DEF Awaited, Waits
        <3>2. CASE c = r
            <4>1. /\ conn[c] = "up" /\ HasClaims(c) /\ s2c'[c] = Append(s2c[c], m)
                  /\ c2s'[c] = c2s[c] /\ Awaited(c)'
                BY <1>1, <2>1, <2>3, <3>1, <3>2
            <4> QED
                BY <1>1, <1>2, <1>3, <4>1, CarefulNotified
        <3>3. CASE c # r
            BY <1>1, <1>3, <2>3, <3>1, <3>3, CarefulSame DEF CarefulInv
        <3> QED
            BY <3>2, <3>3
    <2> QED
        BY <2>4 DEF CarefulInv
<1> QED
    BY <1>4, <1>5

\* A careful client that fakes an interrupt has no claim, so that its own ACK and the
\* interrupt never share a connection.
LEMMA CarefulFakeNotify ==
    ASSUME IInv, CarefulInv, NEW m, FakeNotify(m)
    PROVE  CarefulInv'
<1> DEFINE r == FakeRecipient(m)
           ack == Plain("ACK")
           sig == Signal(m.selector)
           acked == [s2c EXCEPT ![sock] = Append(@, ack)]
<1>1. /\ Receive(m) /\ CanSend(sock) /\ r # 0 /\ m.msg = "IRQ_SIGNAL"
      /\ \/ /\ CanSend(r)
            /\ s2c' = [acked EXCEPT ![r] = Append(@, sig)]
            /\ pc' = "fake" /\ peer' = r
         \/ ~CanSend(r) /\ s2c' = acked /\ Handled
      /\ UNCHANGED <<conn, asked, call, claims>>
    BY DEF FakeNotify, clients
<1>2. pc = "client" /\ sock \in Clients /\ \A c \in Clients : ~Awaited(c)
    BY <1>1, ClientInHand DEF Receive
<1>3. r \in Clients /\ sig \in response_buffer /\ HasClaims(r)
    <2>1. m.selector \in v120irqd_selector
        BY <1>1, ReceiveFacts DEF response_buffer
    <2>2. HasClaim(claims, r, sig.selector) /\ r \in Clients /\ sig \in response_buffer
        BY <1>1, <2>1, RecipientFound DEF IInv, FakeRecipient
    <2> QED
        BY <2>2 DEF HasClaim, HasClaims
<1>4. ack \in response_buffer /\ ack.msg = "ACK"
    BY PlainTyped DEF v120_irq_message_select
<1> HIDE DEF r, ack, sig
<1>5. /\ Registrar(sock) => asked[sock] # {}
      /\ ~HasClaims(sock)
      /\ \A i \in 1..Len(c2s'[sock]) : c2s'[sock][i].msg # "REQUEST_IRQ"
      /\ \A c \in Clients \ {sock} : c2s'[c] = c2s[c]
    BY <1>1, CarefulReceive
<1>6. r # sock
    BY <1>3, <1>5
<1>7. /\ acked[sock] = Append(s2c[sock], ack)
      /\ acked \in [Clients -> Seq(response_buffer)]
      /\ \A c \in Clients \ {sock} : acked[c] = s2c[c]
    <2>1. s2c \in [Clients -> Seq(response_buffer)] /\ s2c[sock] \in Seq(response_buffer)
        BY <1>2 DEF IInv, Typed
    <2>2. Append(s2c[sock], ack) \in Seq(response_buffer)
        BY <1>4, <2>1, AppendFacts
    <2> QED
        BY <1>2, <2>1, <2>2
<1> HIDE DEF acked
<1>8. /\ s2c'[sock] = Append(s2c[sock], ack)
      /\ CanSend(r) => s2c'[r] = Append(s2c[r], sig)
      /\ ~CanSend(r) => s2c'[r] = s2c[r]
      /\ \A c \in Clients \ {sock, r} : s2c'[c] = s2c[c]
    BY <1>1, <1>2, <1>3, <1>6, <1>7
<1>9. \A c \in Clients : Awaited(c)' <=> c = r /\ CanSend(r)
    BY <1>1 DEF Awaited, Waits, Handled
<1>10. ASSUME NEW c \in Clients, c = sock PROVE CarefulTalk(c)'
    <2>1. CarefulTalk(c)
        BY DEF CarefulInv
    <2>2. \A i \in 1..Len(s2c'[c]) : s2c'[c][i].msg # "IRQ_SIGNAL"
        <3>1. s2c[c] \in Seq(response_buffer)
            BY DEF IInv, Typed
        <3>2. /\ Len(s2c[c]) \in Nat
              /\ Len(Append(s2c[c], ack)) = Len(s2c[c]) + 1
              /\ \A i \in 1..Len(s2c[c]) : Append(s2c[c], ack)[i] = s2c[c][i]
              /\ Append(s2c[c], ack)[Len(s2c[c]) + 1] = ack
            BY <1>4, <3>1, AppendFacts
        <3>3. \A i \in 1..(Len(s2c[c]) + 1) : i \in 1..Len(s2c[c]) \/ i = Len(s2c[c]) + 1
            BY <3>2
        <3>4. \A i \in 1..Len(s2c[c]) : s2c[c][i].msg # "IRQ_SIGNAL"
            BY <1>2, <2>1 DEF CarefulTalk
        <3>5. s2c'[c] = Append(s2c[c], ack)
            BY <1>8, <1>10
        <3> QED
            BY <1>4, <3>2, <3>3, <3>4, <3>5
    <2>3. ~HasClaims(c)' /\ ~Awaited(c)' /\ ~(Registrar(c) /\ asked'[c] = {})
        <3>1. ~HasClaims(c)'
            BY <1>1, <1>5, <1>10 DEF HasClaims
        <3> QED
            BY <1>1, <1>5, <1>6, <1>9, <1>10, <3>1
    <2>4. \A i \in 1..Len(c2s'[c]) : c2s'[c][i].msg # "REQUEST_IRQ"
        BY <1>5, <1>10
    <2> QED
        BY <2>2, <2>3, <2>4 DEF CarefulTalk, Registrar
<1>11. ASSUME NEW c \in Clients, c = r PROVE CarefulTalk(c)'
    <2>1. HasClaims(c) /\ c2s'[c] = c2s[c] /\ ~Awaited(c)
        BY <1>2, <1>3, <1>5, <1>6, <1>11
    <2>2. CASE CanSend(r)
        <3>1. conn[c] = "up" /\ pc \notin Waits
            BY <1>2, <1>3, <1>11, <2>2, SendableIsUp DEF Waits
        <3>2. s2c'[c] = Append(s2c[c], sig) /\ Awaited(c)'
            BY <1>8, <1>9, <1>11, <2>2
        <3> QED
            BY <1>1, <1>3, <2>1, <3>1, <3>2, CarefulNotified
    <2>3. CASE ~CanSend(r)
        <3>1. s2c'[c] = s2c[c] /\ ~Awaited(c)'
            BY <1>8, <1>9, <1>11, <2>3
        <3> QED
            BY <1>1, <2>1, <3>1, CarefulSame DEF CarefulInv
    <2> QED
        BY <2>2, <2>3
<1>12. ASSUME NEW c \in Clients, c # sock, c # r PROVE CarefulTalk(c)'
    BY <1>1, <1>2, <1>5, <1>8, <1>9, <1>12, CarefulSame DEF CarefulInv
<1> QED
    BY <1>10, <1>11, <1>12 DEF CarefulInv

\* A client that hangs up takes its own claims along.
LEMMA CarefulClientHangup ==
    ASSUME IInv, CarefulInv, ClientHangup
    PROVE  CarefulInv'
<1>1. /\ pc = "client" /\ pc' = "dispatch" /\ Table!GiveUpAll(sock)
      /\ conn[sock] = "hungup" /\ conn' = [conn EXCEPT ![sock] = "none"]
      /\ UNCHANGED <<c2s, s2c, asked, call>>
    BY DEF ClientHangup, Handled, clients
<1>2. \A c \in Clients : ~Awaited(c) /\ ~Awaited(c)'
    BY <1>1 DEF Awaited, Waits
<1>3. \A c \in Clients : HasClaims(c)' => HasClaims(c)
    <2>1. \A i \in DOMAIN claims' :
              \E j \in DOMAIN claims : claims'[i] = claims[j] /\ claims[j].data # sock
        BY <1>1, ClaimsGivenUp DEF IInv
    <2> QED
        BY <2>1 DEF HasClaims
<1>4. sock \in Clients /\ \A c \in Clients \ {sock} : conn'[c] = conn[c]
    BY <1>1, ClientInHand DEF IInv, Typed
<1>5. ASSUME NEW c \in Clients PROVE CarefulTalk(c)'
    <2>1. CASE c # sock
        BY <1>1, <1>2, <1>3, <1>4, <2>1, CarefulSame DEF CarefulInv
    <2>2. CASE c = sock
        <3>1. CarefulTalk(c)
            BY DEF CarefulInv
        <3> QED
            BY <1>1, <1>2, <1>3, <3>1 DEF CarefulTalk, Registrar
    <2> QED
        BY <2>1, <2>2
<1> QED
    BY <1>5 DEF CarefulInv


\* What one client does: the others, the daemon and the table stay.
LEMMA CarefulClient ==
    ASSUME CarefulInv, NEW c \in Clients, UNCHANGED <<loop, claims>>,
           \A d \in Clients \ {c} :
               /\ conn'[d] = conn[d] /\ c2s'[d] = c2s[d] /\ s2c'[d] = s2c[d]
               /\ asked'[d] = asked[d] /\ call'[d] = call[d],
           CarefulTalk(c)'
    PROVE  CarefulInv'
<1>1. \A d \in Clients : Awaited(d)' <=> Awaited(d)
    BY DEF Awaited, loop
<1>2. ASSUME NEW d \in Clients PROVE CarefulTalk(d)'
    <2>1. CASE d # c
        BY <1>1, <2>1, CarefulSame DEF CarefulInv
    <2>2. CASE d = c
        BY <2>2
    <2> QED
        BY <2>1, <2>2
<1> QED
    BY <1>2 DEF CarefulInv

\* A new connection has asked for nothing and owns nothing.
LEMMA CarefulConnect ==
    ASSUME IInv, CarefulInv, NEW c \in Clients, Connect(c)
    PROVE  CarefulInv'
<1>1. /\ conn[c] = "none" /\ backlog = {}
      /\ conn' = [conn EXCEPT ![c] = "up"]
      /\ asked' = [asked EXCEPT ![c] = {}]
      /\ UNCHANGED <<c2s, s2c, call, loop, claims>>
    BY DEF Connect
<1>2. c \notin ClientFds
    BY <1>1 DEF IInv, PollList
<1>3. ~HasClaims(c)'
    BY <1>1, <1>2 DEF IInv, ClaimsHaveConnections, HasClaims
<1>4. ~Awaited(c)'
    BY <1>1, <1>2 DEF IInv, Dispatched, Awaited, loop
<1>5. c2s'[c] = <<>> /\ s2c'[c] = <<>> /\ Len(c2s'[c]) = 0 /\ Len(s2c'[c]) = 0
    <2>1. c2s'[c] = <<>> /\ s2c'[c] = <<>>
        BY <1>1 DEF IInv, Conversation
    <2> QED
        BY <2>1
<1>6. CarefulTalk(c)'
    BY <1>3, <1>4, <1>5 DEF CarefulTalk
<1>7. \A d \in Clients \ {c} : conn'[d] = conn[d] /\ asked'[d] = asked[d]
    BY <1>1 DEF IInv, Typed
<1> QED
    BY <1>1, <1>6, <1>7, CarefulClient

\* A careful client that may request asks once, on an empty connection; any other
\* never requests.
LEMMA CarefulAsk ==
    ASSUME CarefulAsks, IInv, CarefulInv, NEW c \in Clients, NEW ask \in Asks[c], Ask(c, ask)
    PROVE  CarefulInv'
<1> DEFINE m == MessageOf(ask[1], ask[2])
<1>1. /\ ask \notin asked[c] /\ conn[c] = "up" /\ call[c] = "none" /\ inhand[c] = <<>>
      /\ c2s' = [c2s EXCEPT ![c] = Append(@, m)]
      /\ call' = [call EXCEPT ![c] = ask[1]]
      /\ asked' = [asked EXCEPT ![c] = @ \cup {ask}]
      /\ UNCHANGED <<conn, s2c, loop, claims>>
    BY DEF Ask
<1>2. ask \in Calls \X v120irqd_selector /\ ask[1] \in Calls /\ ask[2] \in v120irqd_selector
    BY DaemonAssumption
<1>3. m \in response_buffer /\ (m.msg = "REQUEST_IRQ" => ask[1] = "request")
    <2>1. Plain("SERVER_STATUS").msg = "SERVER_STATUS"
        BY PlainTyped DEF v120_irq_message_select
    <2> QED
        BY <1>2, <2>1, MessageTyped DEF MessageOf, Calls, WithSelector
<1> HIDE DEF m
<1>4. CarefulTalk(c) /\ asked[c] \subseteq Asks[c] /\ c2s[c] \in Seq(response_buffer)
    BY DEF CarefulInv, IInv, Typed
<1>5. /\ Len(c2s[c]) \in Nat
      /\ Len(Append(c2s[c], m)) = Len(c2s[c]) + 1
      /\ \A i \in 1..Len(c2s[c]) : Append(c2s[c], m)[i] = c2s[c][i]
      /\ Append(c2s[c], m)[Len(c2s[c]) + 1] = m
    BY <1>3, <1>4, AppendFacts
<1>6. /\ c2s'[c] = Append(c2s[c], m) /\ asked'[c] = asked[c] \cup {ask}
      /\ \A d \in Clients \ {c} :
            c2s'[d] = c2s[d] /\ call'[d] = call[d] /\ asked'[d] = asked[d]
    BY <1>1 DEF IInv, Typed
<1>7. Awaited(c)' <=> Awaited(c)
    BY <1>1 DEF Awaited, loop
<1>8. HasClaims(c)' <=> HasClaims(c)
    BY <1>1 DEF HasClaims
<1>9. ~HasClaims(c)
    <2>1. ASSUME HasClaims(c) PROVE FALSE
        <3>1. PICK a \in Asks[c] : a[1] = "request"
            BY <1>4, <2>1 DEF CarefulTalk, Registrar
        <3>2. \A b \in Asks[c] : b = a
            BY <3>1 DEF CarefulAsks
        <3>3. asked[c] # {}
            BY <1>4, <2>1 DEF CarefulTalk
        <3> QED
            BY <1>1, <1>4, <3>2, <3>3
    <2> QED
        BY <2>1
<1>10. Registrar(c) => Len(c2s[c]) = 0
    <2> HAVE Registrar(c)
    <2>1. PICK a \in Asks[c] : a[1] = "request"
        BY DEF Registrar
    <2>2. \A b \in Asks[c] : b = a
        BY <2>1 DEF CarefulAsks
    <2>3. asked[c] = {}
        BY <1>1, <1>4, <2>2
    <2>4. c2s[c] = <<>>
        BY <1>4, <2>3 DEF CarefulTalk
    <2> QED
        BY <2>4
<1>11. ASSUME NEW i \in 1..Len(c2s'[c]), c2s'[c][i].msg = "REQUEST_IRQ"
       PROVE  Registrar(c) /\ Len(c2s'[c]) = 1
    <2>1. i \in 1..Len(c2s[c]) \/ i = Len(c2s[c]) + 1
        BY <1>5, <1>6
    <2>2. Registrar(c)
        <3>1. CASE i \in 1..Len(c2s[c])
            BY <1>4, <1>5, <1>6, <1>11, <3>1 DEF CarefulTalk
        <3>2. CASE i = Len(c2s[c]) + 1
            BY <1>3, <1>5, <1>6, <1>11, <3>2 DEF Registrar
        <3> QED
            BY <2>1, <3>1, <3>2
    <2> QED
        BY <1>5, <1>6, <1>10, <2>2
<1>12. CarefulTalk(c)'
    <2>1. ~HasClaims(c)' /\ ~Awaited(c)' /\ asked'[c] # {} /\ s2c'[c] = s2c[c]
        BY <1>1, <1>4, <1>6, <1>7, <1>8, <1>9 DEF CarefulTalk
    <2> QED
        BY <1>4, <1>7, <1>11, <2>1 DEF CarefulTalk, Registrar
<1> QED
    BY <1>1, <1>6, <1>12, CarefulClient

\* Taking a message leaves the others, and ends a call or turns into an interrupt.
LEMMA CarefulTake ==
    ASSUME IInv, CarefulInv, NEW c \in Clients, Return(c) \/ GetInterrupt(c)
    PROVE  CarefulInv'
<1>1. /\ s2c[c] # <<>> /\ s2c' = [s2c EXCEPT ![c] = Tail(@)]
      /\ UNCHANGED <<conn, c2s, asked, loop, claims>>
      /\ call'[c] = "none" /\ \A d \in Clients \ {c} : call'[d] = call[d]
    BY DEF Return, GetInterrupt, IInv, Typed
<1>2. s2c \in [Clients -> Seq(response_buffer)] /\ s2c[c] \in Seq(response_buffer)
    BY DEF IInv, Typed
<1>3. s2c'[c] = Tail(s2c[c]) /\ \A d \in Clients \ {c} : s2c'[d] = s2c[d]
    BY <1>1, <1>2
<1>4. /\ Len(s2c[c]) \in Nat /\ Len(s2c[c]) > 0
      /\ Len(Tail(s2c[c])) = Len(s2c[c]) - 1
      /\ \A i \in 1..(Len(s2c[c]) - 1) : Tail(s2c[c])[i] = s2c[c][i + 1]
    BY <1>1, <1>2, TailProperties
<1>5. \A i \in 1..(Len(s2c[c]) - 1) : i + 1 \in 1..Len(s2c[c])
    BY <1>4
<1>6. Awaited(c)' <=> Awaited(c)
    BY <1>1 DEF Awaited, loop
<1>7. HasClaims(c)' <=> HasClaims(c)
    BY <1>1 DEF HasClaims
<1>8. CarefulTalk(c)'
    <2>1. CarefulTalk(c)
        BY DEF CarefulInv
    <2>2. \A i \in 1..Len(s2c'[c]) : s2c'[c][i].msg = "IRQ_SIGNAL" => Awaited(c)
        BY <1>3, <1>4, <1>5, <2>1 DEF CarefulTalk
    <2> QED
        BY <1>1, <1>6, <1>7, <2>1, <2>2 DEF CarefulTalk, Registrar
<1> QED
    BY <1>1, <1>3, <1>8, CarefulClient

\* An interrupt in hand is answered: nothing else is on its way to the daemon.
LEMMA CarefulRespond ==
    ASSUME IInv, CarefulInv, NEW c \in Clients, Respond(c)
    PROVE  CarefulInv'
<1>1. PICK m \in {Plain("ACK"), Plain("NAK")} : c2s' = [c2s EXCEPT ![c] = Append(@, m)]
    BY DEF Respond
<1>2. inhand[c] # <<>> /\ UNCHANGED <<conn, s2c, asked, call, loop, claims>>
    BY DEF Respond
<1>3. m \in response_buffer /\ m.msg \in {"ACK", "NAK"}
    BY PlainTyped DEF v120_irq_message_select
<1>4. c2s \in [Clients -> Seq(response_buffer)] /\ c2s[c] \in Seq(response_buffer)
    BY DEF IInv, Typed
<1>5. /\ Len(c2s[c]) \in Nat
      /\ Len(Append(c2s[c], m)) = Len(c2s[c]) + 1
      /\ \A i \in 1..Len(c2s[c]) : Append(c2s[c], m)[i] = c2s[c][i]
      /\ Append(c2s[c], m)[Len(c2s[c]) + 1] = m
    BY <1>3, <1>4, AppendFacts
<1>6. c2s'[c] = Append(c2s[c], m) /\ \A d \in Clients \ {c} : c2s'[d] = c2s[d]
    BY <1>1, <1>4
<1>7. CarefulTalk(c) /\ Awaited(c)
    BY <1>2 DEF IInv, Conversation, CarefulInv
<1>8. (Awaited(c)' <=> Awaited(c)) /\ (HasClaims(c)' <=> HasClaims(c))
    BY <1>2 DEF Awaited, HasClaims, loop
<1>9. \A i \in 1..Len(c2s'[c]) : c2s'[c][i].msg \in {"ACK", "NAK"}
    <2>1. \A i \in 1..Len(c2s[c]) : c2s[c][i].msg \in {"ACK", "NAK"}
        BY <1>7 DEF CarefulTalk
    <2>2. \A i \in 1..(Len(c2s[c]) + 1) : i \in 1..Len(c2s[c]) \/ i = Len(c2s[c]) + 1
        BY <1>5
    <2> QED
        BY <1>3, <1>5, <1>6, <2>1, <2>2
<1>10. CarefulTalk(c)'
    <2>1. \A i \in 1..Len(c2s'[c]) : c2s'[c][i].msg # "REQUEST_IRQ"
        BY <1>9
    <2> QED
        BY <1>2, <1>7, <1>8, <1>9, <2>1 DEF CarefulTalk, Registrar
<1> QED
    BY <1>2, <1>6, <1>10, CarefulClient

\* A client may go at any moment; what it sent stays.
LEMMA CarefulHangup ==
    ASSUME IInv, CarefulInv, NEW c \in Clients, Hangup(c)
    PROVE  CarefulInv'
<1>1. /\ conn' = [conn EXCEPT ![c] = "hungup"]
      /\ s2c' = [s2c EXCEPT ![c] = <<>>]
      /\ call' = [call EXCEPT ![c] = "none"]
      /\ UNCHANGED <<c2s, asked, loop, claims>>
    BY DEF Hangup
<1>2. /\ \A d \in Clients \ {c} : conn'[d] = conn[d] /\ s2c'[d] = s2c[d] /\ call'[d] = call[d]
      /\ s2c'[c] = <<>> /\ call'[c] = "none"
    BY <1>1 DEF IInv, Typed
<1>3. Len(s2c'[c]) = 0
    BY <1>2
<1>4. (Awaited(c)' <=> Awaited(c)) /\ (HasClaims(c)' <=> HasClaims(c))
    BY <1>1 DEF Awaited, HasClaims, loop
<1>5. CarefulTalk(c)'
    BY <1>1, <1>2, <1>3, <1>4 DEF CarefulInv, CarefulTalk, Registrar
<1> QED
    BY <1>1, <1>2, <1>5, CarefulClient


\* Nobody is connected and nothing is claimed at first.
LEMMA CarefulInit == Init => CarefulInv
<1> SUFFICES ASSUME Init PROVE CarefulInv
    OBVIOUS
<1>1. \A c \in Clients : c2s[c] = <<>> /\ s2c[c] = <<>> /\ Len(c2s[c]) = 0 /\ Len(s2c[c]) = 0
    BY DEF Init
<1>2. \A c \in Clients : ~HasClaims(c) /\ ~Awaited(c)
    BY DEF Init, Table!Init, HasClaims, Awaited, Waits
<1> QED
    BY <1>1, <1>2 DEF CarefulInv, CarefulTalk

\* Every step of a daemon with careful clients keeps them apart.
LEMMA CarefulNext ==
    ASSUME CarefulAsks, IInv, CarefulInv, [Next]_vars
    PROVE  CarefulInv'
<1>1. CASE mainloop
    <2>1. CASE Ppoll \/ TakeUsr1 \/ TakeTerm \/ Dispatch \/ EndPass \/ process_newclient
        BY <2>1, CarefulMainloop
    <2>2. CASE process_vme
        <3>1. CASE VmeRead \/ VmeDone \/ VmeSearch \/ VmeRecheck \/ VmeDisable
                   \/ \E v \in Vectors : VmeTargetless(v)
            BY <3>1, CarefulMainloop
        <3>2. CASE \E v \in Vectors : VmeNotify(v)
            BY <3>2, CarefulVmeNotify
        <3>3. CASE VmeAcked
            <4>1. /\ pc \in Waits /\ Readable(peer) /\ Consume(peer) /\ pc' \notin Waits
                  /\ UNCHANGED <<conn, s2c, clients, claims>>
                BY <3>3 DEF VmeAcked, Acknowledged, Readable, Waits
            <4> QED
                BY <4>1, CarefulAnswer
        <3>4. CASE VmeFailed
            <4>1. /\ pc \in Waits /\ Readable(peer) /\ Consume(peer) /\ pc' \notin Waits
                  /\ UNCHANGED <<conn, s2c, clients, claims>>
                BY <3>4 DEF VmeFailed, Waits
            <4> QED
                BY <4>1, CarefulAnswer
        <3> QED
            BY <2>2, <3>1, <3>2, <3>3, <3>4 DEF process_vme
    <2>3. CASE process_client
        <3>1. CASE ClientError
            BY <3>1, CarefulMainloop
        <3>2. CASE ClientHangup
            BY <3>2, CarefulClientHangup
        <3>3. CASE FakeAnswer
            <4>1. /\ pc \in Waits /\ Readable(peer) /\ Consume(peer) /\ pc' \notin Waits
                  /\ UNCHANGED <<conn, s2c, clients, claims>>
                BY <3>3 DEF FakeAnswer, Handled, Waits
            <4> QED
                BY <4>1, CarefulAnswer
        <3>4. CASE \E m : \/ RequestGranted(m) \/ RequestRefused(m)
                          \/ ReleaseGranted(m) \/ ReleaseRefused(m)
                          \/ FakeForbidden(m) \/ FakeTargetless(m) \/ FakeNotify(m)
                          \/ ServerStatus(m) \/ BadMessage(m)
            BY <3>4, CarefulRequests, CarefulFakeNotify, CarefulBadMessage
        <3> QED
            BY <2>3, <3>1, <3>2, <3>3, <3>4 DEF process_client
    <2> QED
        BY <1>1, <2>1, <2>2, <2>3 DEF mainloop
<1>2. CASE \E c \in Clients : Client(c)
    BY <1>2, CarefulConnect, CarefulHangup, CarefulTake, CarefulRespond, CarefulAsk
       DEF Client, ClientServes
<1>3. CASE (\E sig \in Signals : Kill(sig)) \/ (\E b \in Boards : Raise(b)) \/ UNCHANGED vars
    <2>1. UNCHANGED <<sockets, clients, loop, claims>>
        BY <1>3 DEF Kill, Raise, vars
    <2>2. \A c \in Clients : Awaited(c)' <=> Awaited(c)
        BY <2>1 DEF Awaited, loop
    <2> QED
        BY <2>1, <2>2, CarefulQuiet DEF sockets, clients
<1> QED
    BY <1>1, <1>2, <1>3 DEF Next

\* Between careful clients and the daemon the invariants hold together.
LEMMA CarefulInvariance == ASSUME CarefulAsks PROVE Spec => [](IInv /\ CarefulInv)
<1>1. Init => IInv /\ CarefulInv
    BY InitInvariant, CarefulInit
<1>2. (IInv /\ CarefulInv) /\ [Next]_vars => (IInv /\ CarefulInv)'
    BY NextInvariant, CarefulNext
<1> QED
    BY <1>1, <1>2, PTL DEF Spec

\* AnswersOnly: the read in v120irqd_interrupt finds the answer of the client, and not
\* a request it would swallow.
THEOREM AnswersAreRead == ASSUME CarefulAsks PROVE Spec => []AnswersOnly
<1>1. ASSUME IInv, CarefulInv PROVE AnswersOnly
    <2> SUFFICES ASSUME pc \in Waits, c2s[peer] # <<>>
                 PROVE  Head(c2s[peer]).msg \in {"ACK", "NAK"}
        BY DEF AnswersOnly, Waits
    <2>1. peer \in Clients /\ CarefulTalk(peer) /\ Awaited(peer)
        BY <1>1, PeerConnected DEF CarefulInv, Awaited
    <2>2. c2s[peer] \in Seq(response_buffer)
        BY <1>1, <2>1 DEF IInv, Typed
    <2>3. Len(c2s[peer]) \in Nat /\ Len(c2s[peer]) > 0 /\ Head(c2s[peer]) = c2s[peer][1]
        BY <2>2, TailProperties
    <2>4. \A i \in 1..Len(c2s[peer]) : c2s[peer][i].msg \in {"ACK", "NAK"}
        BY <2>1 DEF CarefulTalk
    <2>5. 1 \in 1..Len(c2s[peer])
        BY <2>3
    <2> QED
        BY <2>3, <2>4, <2>5
<1> QED
    BY <1>1, CarefulInvariance, PTL

\* The interrupts on their way are some of the messages, and fewer than all of them
\* when the first one is something else.
LEMMA SignalsCounted ==
    ASSUME NEW q \in Seq(response_buffer)
    PROVE  LET n == Cardinality({i \in DOMAIN q : q[i].msg = "IRQ_SIGNAL"})
           IN  /\ n \in Nat /\ n <= Len(q)
               /\ q # <<>> /\ q[1].msg # "IRQ_SIGNAL" => n <= Len(q) - 1
<1> DEFINE S == {i \in DOMAIN q : q[i].msg = "IRQ_SIGNAL"}
           n == Cardinality(S)
           a == Len(q)
<1>1. a \in Nat /\ DOMAIN q = 1..a /\ (q = <<>> <=> a = 0)
    BY LenProperties, EmptySeq
<1>2. \A k \in {1, 2} : IsFiniteSet(k..a) /\ Cardinality(k..a) = IF k > a THEN 0 ELSE a - k + 1
    BY <1>1, FS_Interval
<1>3. S \in SUBSET (1..a)
    BY <1>1
<1>4. q[1].msg # "IRQ_SIGNAL" => S \in SUBSET (2..a)
    <2> HAVE q[1].msg # "IRQ_SIGNAL"
    <2>1. \A i \in S : i \in 1..a /\ i # 1
        BY <1>1
    <2> QED
        BY <1>1, <2>1
<1> HIDE DEF S
<1>5. n \in Nat /\ n <= Cardinality(1..a)
    <2>1. IsFiniteSet(1..a) /\ IsFiniteSet(S) /\ n <= Cardinality(1..a)
        BY <1>2, <1>3, FS_Subset
    <2> QED
        BY <2>1, FS_CardinalityType
<1>6. q[1].msg # "IRQ_SIGNAL" => n <= Cardinality(2..a)
    BY <1>2, <1>4, FS_Subset
<1> HIDE DEF n, a
<1>7. n <= a
    BY <1>1, <1>2, <1>5
<1>8. q # <<>> /\ q[1].msg # "IRQ_SIGNAL" => n <= a - 1
    BY <1>1, <1>2, <1>5, <1>6
<1> QED
    BY <1>5, <1>7, <1>8 DEF n, a, S

\* OneInterruptAtATime: a client has one interrupt at a time, and only while the daemon
\* waits for its answer, so that an answer is never taken for another interrupt's.
THEOREM OneAtATime == ASSUME CarefulAsks PROVE Spec => []OneInterruptAtATime
<1>1. ASSUME IInv, CarefulInv PROVE OneInterruptAtATime
    <2>1. ASSUME NEW c \in Clients
          PROVE  /\ Undelivered(c) + Cardinality(Responses(c)) > 0 /\ conn[c] = "up" => Awaited(c)
                 /\ Undelivered(c) + Cardinality(Responses(c)) <= 1
        <3> DEFINE a == Len(s2c[c])  b == Len(c2s[c])  h == Len(inhand[c])
                   u == Cardinality({i \in DOMAIN s2c[c] : s2c[c][i].msg = "IRQ_SIGNAL"})
                   r == Cardinality(Responses(c))
                   k == IF call[c] = "none" THEN 0 ELSE 1
        <3>1. Conversation(c) /\ CarefulTalk(c) /\ Typed
            BY <1>1 DEF IInv, CarefulInv
        <3>2. s2c[c] \in Seq(response_buffer) /\ c2s[c] \in Seq(response_buffer)
            BY <3>1 DEF Typed
        <3>3. /\ a \in Nat /\ b \in Nat /\ h \in Nat /\ h <= 1 /\ k \in 0..1
              /\ (c2s[c] = <<>> <=> b = 0) /\ (s2c[c] = <<>> <=> a = 0)
              /\ (inhand[c] = <<>> <=> h = 0)
              /\ DOMAIN s2c[c] = 1..a /\ DOMAIN c2s[c] = 1..b
            BY <3>1, <3>2, Lengths, LenProperties
        <3>4. /\ u \in Nat /\ u <= a
              /\ s2c[c] # <<>> /\ s2c[c][1].msg # "IRQ_SIGNAL" => u <= a - 1
            BY <3>2, SignalsCounted
        <3>5. Responses(c) = {} \/ (Responses(c) = {1} /\ b # 0 /\ (conn[c] = "up" => Awaited(c)))
            <4>1. \A i \in Responses(c) : i = 1 /\ i \in 1..b /\ (conn[c] = "up" => Awaited(c))
                BY <3>1, <3>3 DEF Responses, Conversation
            <4> HIDE DEF b
            <4>2. ASSUME Responses(c) # {} PROVE Responses(c) = {1} /\ b # 0
                BY <3>3, <4>1, <4>2
            <4> QED
                BY <4>1, <4>2
        <3>6. r \in 0..1 /\ (b = 0 => r = 0) /\ (r # 0 /\ conn[c] = "up" => Awaited(c))
            <4>1. Cardinality({}) = 0 /\ Cardinality({1}) = 1
                BY FS_EmptySet, FS_Singleton
            <4>2. CASE Responses(c) = {}
                BY <4>1, <4>2
            <4>3. CASE Responses(c) # {}
                <5>1. r = 1 /\ b # 0 /\ (conn[c] = "up" => Awaited(c))
                    BY <3>5, <4>1, <4>3
                <5> HIDE DEF r, b
                <5> QED
                    BY <5>1
            <4> QED
                BY <4>2, <4>3
        <3>7. Undelivered(c) = u + h
            BY DEF Undelivered
        <3> HIDE DEF a, b, h, u, r, k
        <3>8. CASE conn[c] = "none" \/ conn[c] = "hungup"
            <4>1. a = 0 /\ h = 0
                BY <3>1, <3>3, <3>8 DEF Conversation
            <4>2. u = 0 /\ conn[c] # "up"
                BY <3>3, <3>4, <3>8, <4>1
            <4> QED
                BY <3>6, <3>7, <4>1, <4>2 DEF r
        <3>9. CASE conn[c] = "up" /\ ~Awaited(c)
            <4>1. h = 0 /\ r = 0
                BY <3>1, <3>3, <3>6, <3>9 DEF Conversation
            <4>2. u = 0
                <5>1. \A i \in 1..a : s2c[c][i].msg # "IRQ_SIGNAL"
                    BY <3>1, <3>9 DEF CarefulTalk, a
                <5>2. {i \in DOMAIN s2c[c] : s2c[c][i].msg = "IRQ_SIGNAL"} = {}
                    BY <3>3, <5>1
                <5> QED
                    BY <5>2, FS_EmptySet DEF u
            <4> QED
                BY <3>7, <4>1, <4>2 DEF r
        <3>10. CASE conn[c] = "up" /\ Awaited(c)
            <4>1. a + b + h = k + 1
                BY <3>1, <3>10 DEF Conversation, Waiters, a, b, h, k
            <4>2. k = 1 => u <= a - 1
                BY <3>1, <3>4, <3>10 DEF CarefulTalk, k
            <4>3. u + h + r <= 1
                <5>1. r \in Nat /\ r <= b
                    BY <3>3, <3>6
                <5>2. CASE k = 0
                    BY <3>3, <3>4, <4>1, <5>1, <5>2
                <5>3. CASE k = 1
                    BY <3>3, <3>4, <4>1, <4>2, <5>1, <5>3
                <5> QED
                    BY <3>3, <5>2, <5>3
            <4> QED
                BY <3>7, <3>10, <4>3 DEF r
        <3> QED
            BY <3>1, <3>8, <3>9, <3>10 DEF Typed
    <2> QED
        BY <2>1 DEF OneInterruptAtATime, Awaited, Waits
<1> QED
    BY <1>1, CarefulInvariance, PTL

===============================================================================
