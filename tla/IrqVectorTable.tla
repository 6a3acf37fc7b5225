---------------------------- MODULE IrqVectorTable ----------------------------
(***************************************************************************)
(* v120irqd/irq_vector_table.c: the array that links selectors to clients. *)
(*                                                                         *)
(* The array has vector_table_allocated slots; a slot whose data is 0 is   *)
(* unused, and every traversal stops at the first unused slot.  The array  *)
(* grows by INTERRUPT_VECTOR_INCR slots and never shrinks.  Every          *)
(* operation runs to completion before the next one (the daemon has one    *)
(* thread; with THREADSAFE a mutex gives the same), so each is one action, *)
(* except release_all_interrupts, whose loop is modelled step by step.     *)
(***************************************************************************)
EXTENDS Selector, Ascending

CONSTANTS
    Clients,                \* the irqdata_t values callers use: socket numbers
    Requests,               \* the selectors callers pass
    INTERRUPT_VECTOR_INCR,  \* slots added by one realloc (32 in the code)
    MaxAllocated            \* bound: realloc fails beyond this many slots

ASSUME TableAssumption ==
    /\ Clients \subseteq Nat \ {0}
    /\ Requests \subseteq v120irqd_selector
    /\ INTERRUPT_VECTOR_INCR \in Nat \ {0}
    /\ MaxAllocated \in Nat

VARIABLES
    vector_table,            \* the slots, 1..vector_table_allocated
    vector_table_allocated,
    releasing,               \* argument of the release_all loop, 0 when idle
    ptr,                     \* its position
    ret                      \* what the last completed call returned

vars == <<vector_table, vector_table_allocated, releasing, ptr, ret>>

table_t == [selector : v120irqd_selector, data : Clients]
ZeroEntry == [selector |-> ZeroSelector, data |-> 0]
Results == {"OK", "EINVAL", "EADDRINUSE", "ENOMEM"}

TypeOK ==
    /\ vector_table_allocated \in Nat
    /\ vector_table \in [1..vector_table_allocated -> table_t \cup {ZeroEntry}]
    /\ releasing \in Clients \cup {0}
    /\ ptr \in Nat \ {0}
    /\ ret \in Results

-------------------------------------------------------------------------------
(***************************************************************************)
(* Traversals.                                                             *)
(***************************************************************************)

\* The slots that foreach_vector_st(ptr, start) visits.
foreach_vector_st(start) ==
    {i \in start..vector_table_allocated :
        \A j \in start..i : vector_table[j].data # 0}

\* Where that loop leaves ptr: the first unused slot, or one past the array.
foreach_end(start) ==
    CHOOSE p \in start..(vector_table_allocated + 1) :
        /\ p = vector_table_allocated + 1 \/ vector_table[p].data = 0
        /\ \A j \in start..(p - 1) : vector_table[j].data # 0

First(S) == CHOOSE i \in S : \A j \in S : i <= j

\* Mutated form of locate_interrupt: the search skips the first slot.
locate_interrupt_late(request) ==
    LET hits == {i \in foreach_vector_st(1) \ {1} :
                    hashmatch(vector_table[i].selector, request)}
    IN  IF hits = {} THEN 0 ELSE First(hits)

\* The first entry that matches request, 0 for NULL.
locate_interrupt(request) ==
    LET hits == {i \in foreach_vector_st(1) :
                    hashmatch(vector_table[i].selector, request)}
    IN  IF hits = {} THEN 0 ELSE First(hits)

\* The first entry identical to request, 0 for NULL.
locate_exact(request) ==
    LET hits == {i \in foreach_vector_st(1) :
                    hasheq(vector_table[i].selector, request)}
    IN  IF hits = {} THEN 0 ELSE First(hits)

\* The client that find_interrupt returns, 0 with errno EINVAL for nobody.
find_interrupt(request) ==
    LET i == locate_interrupt(request)
    IN  IF i = 0 THEN 0 ELSE vector_table[i].data

\* Mutated forms of remove_entry: the hole is left open; it is filled with the
\* last entry.
remove_entry_hole(victim) ==
    [vector_table EXCEPT ![victim] = ZeroEntry]

remove_entry_swap(victim) ==
    LET last == foreach_end(victim) - 1
    IN  [vector_table EXCEPT ![victim] = vector_table[last], ![last] = ZeroEntry]

\* The array after remove_entry(victim): everything behind the victim moves
\* down by one and the slot of the last entry is zeroed.
remove_entry(victim) ==
    LET last == foreach_end(victim) - 1
    IN  [i \in 1..vector_table_allocated |->
            IF i \in victim..(last - 1) THEN vector_table[i + 1]
            ELSE IF i = last THEN ZeroEntry
            ELSE vector_table[i]]

-------------------------------------------------------------------------------
(***************************************************************************)
(* Operations.                                                             *)
(***************************************************************************)

Init ==
    /\ vector_table_allocated = 0
    /\ vector_table = [i \in 1..0 |-> ZeroEntry]
    /\ releasing = 0
    /\ ptr = 1
    /\ ret = "OK"

Return(r) == ret' = r

RegisterIllegal(sd, request) ==
    /\ sd = 0 \/ ~LegalRequest(request)
    /\ Return("EINVAL")
    /\ UNCHANGED <<vector_table, vector_table_allocated>>

RegisterTaken(sd, request) ==
    /\ sd # 0 /\ LegalRequest(request)
    /\ locate_interrupt(request) # 0
    /\ Return("EADDRINUSE")
    /\ UNCHANGED <<vector_table, vector_table_allocated>>

RegisterFree(sd, request) ==
    sd # 0 /\ LegalRequest(request) /\ locate_interrupt(request) = 0

\* Push the request into the first unused slot.
RegisterStore(sd, request) ==
    LET p == foreach_end(1)
    IN  /\ RegisterFree(sd, request)
        /\ p <= vector_table_allocated
        /\ vector_table' = [vector_table EXCEPT
                                ![p] = [selector |-> request, data |-> sd]]
        /\ Return("OK")
        /\ UNCHANGED vector_table_allocated

\* Mutated form of RegisterGrow: the new part is not zeroed.
RegisterGrowUnzeroed(sd, request) ==
    LET old_count == vector_table_allocated
        new_count == old_count + INTERRUPT_VECTOR_INCR
    IN  /\ RegisterFree(sd, request)
        /\ foreach_end(1) = old_count + 1
        /\ new_count <= MaxAllocated
        /\ vector_table_allocated' = new_count
        /\ \E garbage \in {-1, 0} :
              vector_table' =
              [i \in 1..new_count |->
                  IF i <= old_count THEN vector_table[i]
                  ELSE IF i = old_count + 1
                       THEN [selector |-> request, data |-> sd]
                       ELSE [selector |-> ZeroSelector, data |-> garbage]]
        /\ Return("OK")

\* No unused slot: enlarge the array, zero the new part, push the request.
RegisterGrow(sd, request) ==
    LET old_count == vector_table_allocated
        new_count == old_count + INTERRUPT_VECTOR_INCR
    IN  /\ RegisterFree(sd, request)
        /\ foreach_end(1) = old_count + 1
        /\ new_count <= MaxAllocated
        /\ vector_table_allocated' = new_count
        /\ vector_table' =
              [i \in 1..new_count |->
                  IF i <= old_count THEN vector_table[i]
                  ELSE IF i = old_count + 1
                       THEN [selector |-> request, data |-> sd]
                       ELSE ZeroEntry]
        /\ Return("OK")

\* realloc returned NULL; the old array is kept.
RegisterNoMemory(sd, request) ==
    /\ RegisterFree(sd, request)
    /\ foreach_end(1) = vector_table_allocated + 1
    /\ Return("ENOMEM")
    /\ UNCHANGED <<vector_table, vector_table_allocated>>

register_interrupt(sd, request) ==
    /\ releasing = 0
    /\ \/ RegisterIllegal(sd, request)
       \/ RegisterTaken(sd, request)
       \/ RegisterStore(sd, request)
       \/ RegisterGrow(sd, request)
       \/ RegisterNoMemory(sd, request)
    /\ UNCHANGED <<releasing, ptr>>

HoldsExactly(sd, request) ==
    locate_exact(request) # 0 /\ vector_table[locate_exact(request)].data = sd

release_interrupt(sd, request) ==
    /\ releasing = 0
    /\ \/ /\ ~HoldsExactly(sd, request)
          /\ Return("EINVAL")
          /\ UNCHANGED vector_table
       \/ /\ HoldsExactly(sd, request)
          /\ vector_table' = remove_entry(locate_exact(request))
          /\ Return("OK")
    /\ UNCHANGED <<vector_table_allocated, releasing, ptr>>

(***************************************************************************)
(* release_all_interrupts(sd): foreach_vector(ptr) with an inner           *)
(* while (ptr->data == sd) remove_entry(ptr).  The loop condition is       *)
(* tested at the start and after each ptr++, not by the inner loop.        *)
(***************************************************************************)
InTable(p) == p <= vector_table_allocated /\ vector_table[p].data # 0

ReleaseAllStart(sd) ==
    /\ releasing = 0
    /\ InTable(1)
    /\ releasing' = sd
    /\ ptr' = 1
    /\ UNCHANGED <<vector_table, vector_table_allocated, ret>>

ReleaseAllEmpty ==
    /\ releasing = 0
    /\ ~InTable(1)
    /\ Return("OK")
    /\ UNCHANGED <<vector_table, vector_table_allocated, releasing, ptr>>

\* Mutated form of ReleaseAllRemove: "if" in place of the inner "while".
ReleaseAllRemoveOnce ==
    /\ releasing # 0
    /\ vector_table[ptr].data = releasing
    /\ vector_table' = remove_entry(ptr)
    /\ IF ptr + 1 <= vector_table_allocated /\ vector_table'[ptr + 1].data # 0
       THEN ptr' = ptr + 1 /\ UNCHANGED <<releasing, ret>>
       ELSE ptr' = 1 /\ releasing' = 0 /\ Return("OK")
    /\ UNCHANGED vector_table_allocated

ReleaseAllRemove ==
    /\ releasing # 0
    /\ vector_table[ptr].data = releasing
    /\ vector_table' = remove_entry(ptr)
    /\ UNCHANGED <<vector_table_allocated, releasing, ptr, ret>>

ReleaseAllAdvance ==
    /\ releasing # 0
    /\ vector_table[ptr].data # releasing
    /\ \/ /\ InTable(ptr + 1)
          /\ ptr' = ptr + 1
          /\ UNCHANGED <<releasing, ret>>
       \/ /\ ~InTable(ptr + 1)
          /\ ptr' = 1
          /\ releasing' = 0
          /\ Return("OK")
    /\ UNCHANGED <<vector_table, vector_table_allocated>>

free_all_interrupts ==
    /\ releasing = 0
    /\ vector_table_allocated' = 0
    /\ vector_table' = [i \in 1..0 |-> ZeroEntry]
    /\ UNCHANGED <<releasing, ptr, ret>>

Next ==
    \/ \E sd \in Clients \cup {0}, r \in Requests : register_interrupt(sd, r)
    \/ \E sd \in Clients, r \in Requests : release_interrupt(sd, r)
    \/ \E sd \in Clients : ReleaseAllStart(sd)
    \/ ReleaseAllEmpty
    \/ ReleaseAllRemove
    \/ ReleaseAllAdvance
    \/ free_all_interrupts

\* The loop of release_all_interrupts runs to its end.
Spec ==
    /\ Init /\ [][Next]_vars
    /\ WF_vars(ReleaseAllRemove \/ ReleaseAllAdvance)
-------------------------------------------------------------------------------
(***************************************************************************)
(* Properties.                                                             *)
(***************************************************************************)

Entries == {i \in 1..vector_table_allocated : vector_table[i].data # 0}

Held(sd) == {vector_table[i].selector : i \in {j \in Entries : vector_table[j].data = sd}}

\* Unused slots are all behind the used ones.  Every foreach_vector loop stops
\* at the first unused slot, so an entry behind a hole would receive nothing,
\* could not be released, and would outlive the client that holds it.
Contiguous ==
    \A i \in Entries : \A j \in 1..i : j \in Entries

\* No entry is hidden by an earlier one: what register_interrupt granted stays
\* reachable in the first-match search, whatever is removed in front of it.
NoShadow ==
    \A i, j \in Entries :
        i < j => ~hashmatch(vector_table[i].selector, vector_table[j].selector)

\* release_interrupt looks up the first identical entry and refuses it when it
\* belongs to someone else; a client can nevertheless always release what it
\* registered, because the entry found is its own.
OwnerCanRelease ==
    releasing = 0 => \A i \in Entries : locate_exact(vector_table[i].selector) = i

\* The release_all_interrupts loop leaves nothing of the client behind: its
\* socket number is about to be closed and reused for the next connection.
ReleaseAllComplete ==
    [][\A sd \in Clients : releasing = sd /\ releasing' = 0 => Held(sd)' = {}]_vars

\* Whatever is registered or released by others, an interrupt that has a
\* recipient keeps it until that recipient gives up an entry.
Interrupts == {Concrete(c, i, v) : c \in Crates, i \in ANYIRQ, v \in Vectors}

RoutingStable ==
    [][\A sd \in Clients :
          (\E x \in Interrupts : find_interrupt(x) = sd /\ find_interrupt(x)' # sd) =>
              /\ Held(sd)' \subseteq Held(sd)
              /\ Held(sd)' # Held(sd)]_vars

-------------------------------------------------------------------------------
(***************************************************************************)
(* The table implements InterruptClaims: the claims are the used slots in  *)
(* order, without the entries a running release_all loop is removing.      *)
(***************************************************************************)
ClaimList ==
    LET kept == {i \in Entries : vector_table[i].data # releasing}
        slot == Ascending(kept)
    IN  IF releasing = 0 THEN [k \in 1..(foreach_end(1) - 1) |-> vector_table[k]]
        ELSE [k \in 1..Cardinality(kept) |-> vector_table[slot[k]]]

Claims == INSTANCE InterruptClaims WITH claims <- ClaimList

\* Every step of the array is a step of the list of claims or changes nothing
\* in it: growing, shifting and zeroing slots never loses, adds or reorders one.
ImplementsClaims == Claims!Spec
===============================================================================
