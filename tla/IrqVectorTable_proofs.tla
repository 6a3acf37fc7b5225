------------------------- MODULE IrqVectorTable_proofs -------------------------
(***************************************************************************)
(* Proofs about the interrupt vector table, for every number of crates,    *)
(* lines, vectors, clients and slots.                                      *)
(***************************************************************************)
EXTENDS IrqVectorTable, Ascending_proofs

(***************************************************************************)
(* Lemmas about searches.                                                  *)
(***************************************************************************)

\* foreach_vector_st(ptr, start) leaves ptr at the first unused slot from start
\* on, or just past the array.
LEMMA ForeachEnd ==
    ASSUME TypeOK, NEW s \in 1..(vector_table_allocated + 1)
    PROVE  /\ foreach_end(s) \in s..(vector_table_allocated + 1)
           /\ \/ foreach_end(s) = vector_table_allocated + 1
              \/ vector_table[foreach_end(s)].data = 0
           /\ \A j \in s..(foreach_end(s) - 1) : vector_table[j].data # 0
<1> DEFINE Stop(p) == p = vector_table_allocated + 1 \/ vector_table[p].data = 0
           U == {p \in s..(vector_table_allocated + 1) : Stop(p)}
<1>1. vector_table_allocated \in Nat
    BY DEF TypeOK
<1>2. U \subseteq Nat /\ vector_table_allocated + 1 \in U
    BY <1>1
<1>3. PICK p \in U : \A q \in U : p <= q
    BY <1>2, LeastNatural, Zenon
<1>4. ASSUME NEW j \in s..(p - 1) PROVE vector_table[j].data # 0
    <2>1. j \in s..(vector_table_allocated + 1) /\ j < p
        BY <1>1, <1>2, <1>3
    <2> QED
        BY <2>1, <1>3, <1>1, <1>2
<1>5. /\ p \in s..(vector_table_allocated + 1)
      /\ Stop(p)
      /\ \A j \in s..(p - 1) : vector_table[j].data # 0
    BY <1>3, <1>4
<1> HIDE DEF U
<1>6. QED
    BY <1>5, Zenon DEF foreach_end

\* First returns a member of the set.
LEMMA FirstMember ==
    ASSUME NEW S, S \subseteq Nat, S # {}
    PROVE  First(S) \in S /\ \A j \in S : First(S) <= j
<1>1. \E x \in S : \A y \in S : x <= y
    BY LeastNatural
<1>2. QED
    BY <1>1, Zenon DEF First

\* With no hole in the table, the used slots are those in front of the place
\* where a traversal from any used slot, or from the first slot, ends.
LEMMA EntriesInterval ==
    ASSUME TypeOK, Contiguous,
           NEW s \in 1..(vector_table_allocated + 1),
           s \in Entries \/ s = 1
    PROVE  Entries = 1..(foreach_end(s) - 1)
<1> DEFINE e == foreach_end(s)
<1>1. /\ vector_table_allocated \in Nat
      /\ e \in s..(vector_table_allocated + 1)
      /\ e = vector_table_allocated + 1 \/ vector_table[e].data = 0
      /\ \A j \in s..(e - 1) : vector_table[j].data # 0
    BY ForeachEnd DEF TypeOK
<1> HIDE DEF e
<1>2. ASSUME NEW i \in 1..(e - 1) PROVE i \in Entries
    <2>1. i \in 1..vector_table_allocated
        BY <1>1
    <2>2. CASE i < s
        BY <2>1, <2>2 DEF Contiguous
    <2>3. CASE i >= s
        BY <2>1, <2>3, <1>1 DEF Entries
    <2> QED
        BY <2>1, <2>2, <2>3
<1>3. ASSUME NEW i \in Entries PROVE i \in 1..(e - 1)
    <2>1. i \in 1..vector_table_allocated
        BY DEF Entries
    <2>2. CASE i >= e
        <3>1. e \in 1..i
            BY <1>1, <2>1, <2>2
        <3>2. e \in Entries
            BY <3>1 DEF Contiguous
        <3> QED
            BY <3>2, <1>1, <2>1, <2>2 DEF Entries
    <2> QED
        BY <2>1, <2>2, <1>1
<1>4. QED
    BY <1>2, <1>3 DEF e

\* A search that returns NULL found no match in any used slot.
LEMMA LocateNone ==
    ASSUME TypeOK, Contiguous, NEW request, locate_interrupt(request) = 0
    PROVE  \A i \in Entries : ~hashmatch(vector_table[i].selector, request)
<1> DEFINE hits == {i \in foreach_vector_st(1) :
                       hashmatch(vector_table[i].selector, request)}
<1>1. hits \subseteq Nat \ {0}
    BY DEF TypeOK, foreach_vector_st
<1>2. hits = {}
    BY <1>1, FirstMember DEF locate_interrupt
<1>3. ASSUME NEW i \in Entries PROVE i \in foreach_vector_st(1)
    BY DEF Entries, Contiguous, foreach_vector_st
<1>4. QED
    BY <1>2, <1>3

-------------------------------------------------------------------------------
(***************************************************************************)
(* The inductive invariant.  NoShadow alone is not inductive: a hole in    *)
(* the array would hide entries from the search that guards a new          *)
(* registration, so Contiguous is needed; and ReleaseAllComplete needs to  *)
(* know what the loop has already left behind it.                          *)
(***************************************************************************)

\* Behind the loop's position no slot belongs to the client being removed.
LoopInv ==
    releasing # 0 =>
        /\ ptr \in 1..vector_table_allocated
        /\ \A j \in 1..(ptr - 1) : vector_table[j].data # releasing

IInv == TypeOK /\ Contiguous /\ NoShadow /\ LoopInv

\* What remove_entry does to a table without holes: the slots behind the victim
\* move down by one and one slot less is used.
LEMMA RemoveEntry ==
    ASSUME TypeOK, Contiguous, NEW v \in Entries
    PROVE  \E last \in v..vector_table_allocated :
              /\ Entries = 1..last
              /\ remove_entry(v) =
                    [i \in 1..vector_table_allocated |->
                        IF i \in v..(last - 1) THEN vector_table[i + 1]
                        ELSE IF i = last THEN ZeroEntry
                        ELSE vector_table[i]]
<1> DEFINE last == foreach_end(v) - 1
<1>1. v \in 1..(vector_table_allocated + 1) /\ vector_table[v].data # 0
    BY DEF Entries, TypeOK
<1>2. /\ vector_table_allocated \in Nat
      /\ foreach_end(v) \in v..(vector_table_allocated + 1)
      /\ foreach_end(v) = vector_table_allocated + 1 \/ vector_table[foreach_end(v)].data = 0
    BY <1>1, ForeachEnd DEF TypeOK
<1>3. Entries = 1..last
    BY <1>1, EntriesInterval
<1>4. v \in 1..last
    BY <1>3
<1>5. last \in v..vector_table_allocated
    BY <1>2, <1>4
<1>6. remove_entry(v) =
          [i \in 1..vector_table_allocated |->
              IF i \in v..(last - 1) THEN vector_table[i + 1]
              ELSE IF i = last THEN ZeroEntry
              ELSE vector_table[i]]
    BY DEF remove_entry
<1> HIDE DEF last
<1>7. QED
    BY <1>3, <1>5, <1>6

\* The slot that the contents of slot i come from when the entry v is removed.
Before(v, i) == IF i < v THEN i ELSE i + 1

\* After a removal one slot less is used, and each holds what it held or what the next
\* one did.
LEMMA RemoveShifts ==
    ASSUME TypeOK, Contiguous, NEW v \in Entries,
           vector_table' = remove_entry(v),
           UNCHANGED vector_table_allocated
    PROVE  \E last \in v..vector_table_allocated :
              /\ Entries = 1..last /\ Entries' = 1..(last - 1)
              /\ DOMAIN vector_table' = 1..vector_table_allocated
              /\ \A i \in 1..(last - 1) : vector_table'[i] = vector_table[Before(v, i)]
              /\ \A i \in last..vector_table_allocated :
                    vector_table'[i] \in {ZeroEntry, vector_table[i]}
<1>1. PICK last \in v..vector_table_allocated :
          /\ Entries = 1..last
          /\ vector_table' =
                [i \in 1..vector_table_allocated |->
                    IF i \in v..(last - 1) THEN vector_table[i + 1]
                    ELSE IF i = last THEN ZeroEntry
                    ELSE vector_table[i]]
    BY RemoveEntry
<1>2. /\ vector_table_allocated \in Nat
      /\ vector_table \in [1..vector_table_allocated -> table_t \cup {ZeroEntry}]
      /\ v \in 1..vector_table_allocated
    BY DEF TypeOK, Entries
<1>3. Entries' = 1..(last - 1)
    <2>1. ASSUME NEW i \in 1..vector_table_allocated
          PROVE  vector_table'[i].data # 0 <=> i < last
        <3>1. CASE i \in v..(last - 1)
            <4>1. vector_table'[i] = vector_table[i + 1] /\ i + 1 \in Entries
                BY <1>1, <1>2, <3>1
            <4> QED
                BY <4>1, <3>1 DEF Entries
        <3>2. CASE i = last
            BY <1>1, <3>2 DEF ZeroEntry
        <3>3. CASE i < v
            <4>1. vector_table'[i] = vector_table[i] /\ i \in Entries
                BY <1>1, <1>2, <3>3
            <4> QED
                BY <4>1, <3>3, <1>1 DEF Entries
        <3>4. CASE i > last
            <4>1. vector_table'[i] = vector_table[i] /\ i \notin Entries
                BY <1>1, <1>2, <3>4
            <4> QED
                BY <4>1, <3>4 DEF Entries
        <3> QED
            BY <3>1, <3>2, <3>3, <3>4, <1>1, <1>2
    <2> QED
        BY <2>1, <1>1, <1>2 DEF Entries
<1>4. \A i \in 1..(last - 1) : vector_table'[i] = vector_table[Before(v, i)]
    BY <1>1, <1>2 DEF Before
<1>5. \A i \in last..vector_table_allocated : vector_table'[i] \in {ZeroEntry, vector_table[i]}
    BY <1>1, <1>2
<1> QED
    BY <1>1, <1>3, <1>4, <1>5

\* Removing an entry keeps the table well-typed, without holes and without
\* hidden entries.
LEMMA RemovePreserves ==
    ASSUME TypeOK, Contiguous, NoShadow, NEW v \in Entries,
           vector_table' = remove_entry(v),
           UNCHANGED vector_table_allocated
    PROVE  /\ vector_table' \in [1..vector_table_allocated' -> table_t \cup {ZeroEntry}]
           /\ Contiguous'
           /\ NoShadow'
           /\ \A i \in 1..(v - 1) : vector_table'[i] = vector_table[i]
<1>1. PICK last \in v..vector_table_allocated :
          /\ Entries = 1..last /\ Entries' = 1..(last - 1)
          /\ DOMAIN vector_table' = 1..vector_table_allocated
          /\ \A i \in 1..(last - 1) : vector_table'[i] = vector_table[Before(v, i)]
          /\ \A i \in last..vector_table_allocated :
                vector_table'[i] \in {ZeroEntry, vector_table[i]}
    BY RemoveShifts
<1>2. /\ vector_table_allocated \in Nat
      /\ vector_table \in [1..vector_table_allocated -> table_t \cup {ZeroEntry}]
      /\ v \in 1..vector_table_allocated
    BY DEF TypeOK, Entries
<1>3. vector_table' \in [1..vector_table_allocated' -> table_t \cup {ZeroEntry}]
    <2>1. \A i \in 1..(last - 1) : Before(v, i) \in 1..vector_table_allocated
        BY <1>2 DEF Before
    <2>2. vector_table' = [i \in 1..vector_table_allocated |-> vector_table'[i]]
        BY DEF remove_entry
    <2>3. \A i \in 1..vector_table_allocated : vector_table'[i] \in table_t \cup {ZeroEntry}
        BY <1>1, <1>2, <2>1
    <2> QED
        BY <2>2, <2>3
<1>4. Contiguous'
    BY <1>1 DEF Contiguous
<1>5. NoShadow'
    <2>1. ASSUME NEW i \in Entries', NEW j \in Entries', i < j
          PROVE  ~hashmatch(vector_table'[i].selector, vector_table'[j].selector)
        <3>1. /\ Before(v, i) \in Entries /\ vector_table'[i] = vector_table[Before(v, i)]
              /\ Before(v, j) \in Entries /\ vector_table'[j] = vector_table[Before(v, j)]
              /\ Before(v, i) < Before(v, j)
            BY <1>1, <1>2, <2>1 DEF Before
        <3>2. ~hashmatch(vector_table[Before(v, i)].selector, vector_table[Before(v, j)].selector)
            BY <3>1 DEF NoShadow
        <3> QED
            BY <3>1, <3>2
    <2> QED
        BY <2>1 DEF NoShadow, hashmatch
<1>6. \A i \in 1..(v - 1) : vector_table'[i] = vector_table[i]
    BY <1>1, <1>2 DEF Before
<1> QED
    BY <1>3, <1>4, <1>5, <1>6

-------------------------------------------------------------------------------
(***************************************************************************)
(* Registration.                                                           *)
(***************************************************************************)

\* Appending an entry that no used slot matches keeps the invariant: n is the
\* number of used slots, new the entry put behind them.
LEMMA AppendPreserves ==
    ASSUME TypeOK, Contiguous, NoShadow,
           NEW n \in Nat, NEW new \in table_t,
           Entries = 1..n,
           \A i \in Entries : ~hashmatch(vector_table[i].selector, new.selector),
           vector_table_allocated' \in Nat, n + 1 <= vector_table_allocated',
           DOMAIN vector_table' = 1..vector_table_allocated',
           \A i \in 1..vector_table_allocated' :
              vector_table'[i] = IF i <= n THEN vector_table[i]
                                 ELSE IF i = n + 1 THEN new ELSE ZeroEntry
    PROVE  /\ Entries' = 1..(n + 1)
           /\ Contiguous'
           /\ NoShadow'
<1>1. new.data # 0
    BY TableAssumption DEF table_t
<1>2. Entries' = 1..(n + 1)
    <2>1. ASSUME NEW i \in 1..vector_table_allocated'
          PROVE  vector_table'[i].data # 0 <=> i <= n + 1
        <3>1. CASE i <= n
            <4>1. i \in Entries
                BY <3>1
            <4> QED
                BY <3>1, <4>1 DEF Entries
        <3>2. CASE i = n + 1
            BY <3>2, <1>1
        <3>3. CASE i > n + 1
            BY <3>3 DEF ZeroEntry
        <3> QED
            BY <3>1, <3>2, <3>3
    <2> QED
        BY <2>1 DEF Entries
<1>3. Contiguous'
    BY <1>2 DEF Contiguous
<1>4. ASSUME NEW i \in Entries', NEW j \in Entries', i < j
      PROVE  ~hashmatch(vector_table'[i].selector, vector_table'[j].selector)
    <2>1. i \in Entries /\ vector_table'[i] = vector_table[i]
        BY <1>2, <1>4
    <2>2. CASE j = n + 1
        BY <2>1, <2>2
    <2>3. CASE j # n + 1
        <3>1. j \in Entries /\ vector_table'[j] = vector_table[j]
            BY <1>2, <2>3
        <3> QED
            BY <2>1, <3>1, <1>4 DEF NoShadow
    <2> QED
        BY <2>2, <2>3
<1>5. NoShadow'
    BY <1>4 DEF NoShadow, hashmatch
<1>6. QED
    BY <1>2, <1>3, <1>5

\* A registration that is granted puts its entry behind all others.
LEMMA RegisterAppends ==
    ASSUME TypeOK, Contiguous, NEW sd \in Clients \cup {0}, NEW r \in Requests,
           RegisterStore(sd, r) \/ RegisterGrow(sd, r)
    PROVE  LET new == [selector |-> r, data |-> sd]
           IN  \E n \in Nat :
                  /\ new \in table_t /\ Entries = 1..n
                  /\ \A i \in Entries : ~hashmatch(vector_table[i].selector, r)
                  /\ vector_table_allocated' \in Nat /\ n + 1 <= vector_table_allocated'
                  /\ vector_table' \in [1..vector_table_allocated' -> table_t \cup {ZeroEntry}]
                  /\ \A i \in 1..vector_table_allocated' :
                        vector_table'[i] = IF i <= n THEN vector_table[i]
                                           ELSE IF i = n + 1 THEN new ELSE ZeroEntry
                  /\ ret' = "OK"
<1> DEFINE n == foreach_end(1) - 1
           new == [selector |-> r, data |-> sd]
<1>1. /\ vector_table_allocated \in Nat
      /\ vector_table \in [1..vector_table_allocated -> table_t \cup {ZeroEntry}]
    BY DEF TypeOK
<1>2. /\ n \in 0..vector_table_allocated
      /\ Entries = 1..n
      /\ foreach_end(1) = n + 1
    <2>1. foreach_end(1) \in 1..(vector_table_allocated + 1)
        BY <1>1, ForeachEnd
    <2>2. Entries = 1..n
        BY <1>1, EntriesInterval
    <2> QED
        BY <2>1, <2>2, <1>1
<1>3. new \in table_t
    BY TableAssumption DEF RegisterStore, RegisterGrow, RegisterFree, table_t
<1>4. \A i \in Entries : ~hashmatch(vector_table[i].selector, r)
    BY LocateNone DEF RegisterStore, RegisterGrow, RegisterFree
<1> HIDE DEF n, new
<1>5. /\ vector_table_allocated' \in Nat
      /\ n + 1 <= vector_table_allocated'
      /\ vector_table' \in [1..vector_table_allocated' -> table_t \cup {ZeroEntry}]
      /\ \A i \in 1..vector_table_allocated' :
            vector_table'[i] = IF i <= n THEN vector_table[i]
                               ELSE IF i = n + 1 THEN new ELSE ZeroEntry
      /\ ret' = "OK"
    <2>1. CASE RegisterStore(sd, r)
        <3>1. /\ n + 1 <= vector_table_allocated
              /\ vector_table' = [vector_table EXCEPT ![n + 1] = new]
              /\ vector_table_allocated' = vector_table_allocated
              /\ ret' = "OK"
            BY <2>1, <1>2 DEF RegisterStore, n, new, Return
        <3>2. ASSUME NEW i \in 1..vector_table_allocated, i > n + 1
              PROVE  vector_table[i] = ZeroEntry
            <4>1. i \notin Entries
                BY <1>2, <3>2
            <4>2. vector_table[i].data = 0
                BY <4>1 DEF Entries
            <4> QED
                BY <4>2, <1>1, TableAssumption DEF table_t
        <3> QED
            BY <3>1, <3>2, <1>1, <1>2, <1>3
    <2>2. CASE RegisterGrow(sd, r)
        <3>1. /\ n = vector_table_allocated
              /\ vector_table_allocated' = vector_table_allocated + INTERRUPT_VECTOR_INCR
              /\ vector_table' =
                    [i \in 1..vector_table_allocated' |->
                        IF i <= n THEN vector_table[i]
                        ELSE IF i = n + 1 THEN new ELSE ZeroEntry]
              /\ ret' = "OK"
            BY <2>2, <1>1 DEF RegisterGrow, n, new, Return
        <3> QED
            BY <3>1, <1>1, <1>3, TableAssumption
    <2> QED
        BY <2>1, <2>2
<1> QED
    BY <1>1, <1>2, <1>3, <1>4, <1>5 DEF new

\* Each way out of register_interrupt keeps the table dense and unshadowed.
LEMMA RegisterPreserves ==
    ASSUME IInv, NEW sd \in Clients \cup {0}, NEW r \in Requests,
           register_interrupt(sd, r)
    PROVE  IInv'
<1> DEFINE new == [selector |-> r, data |-> sd]
<1>1. /\ TypeOK /\ Contiguous /\ NoShadow /\ LoopInv
      /\ vector_table_allocated \in Nat
      /\ vector_table \in [1..vector_table_allocated -> table_t \cup {ZeroEntry}]
    BY DEF IInv, TypeOK
<1>2. releasing = 0 /\ UNCHANGED <<releasing, ptr>>
    BY DEF register_interrupt
<1>3. LoopInv'
    BY <1>2 DEF LoopInv
<1>5. CASE RegisterStore(sd, r) \/ RegisterGrow(sd, r)
    <2>1. PICK n \in Nat :
             /\ new \in table_t /\ Entries = 1..n
             /\ \A i \in Entries : ~hashmatch(vector_table[i].selector, r)
             /\ vector_table_allocated' \in Nat /\ n + 1 <= vector_table_allocated'
             /\ vector_table' \in [1..vector_table_allocated' -> table_t \cup {ZeroEntry}]
             /\ \A i \in 1..vector_table_allocated' :
                   vector_table'[i] = IF i <= n THEN vector_table[i]
                                      ELSE IF i = n + 1 THEN new ELSE ZeroEntry
             /\ ret' = "OK"
        BY <1>1, <1>5, RegisterAppends
    <2>2. new.selector = r
        OBVIOUS
    <2> HIDE DEF new
    <2>4. Contiguous' /\ NoShadow'
        BY <1>1, <2>1, <2>2, AppendPreserves
    <2>5. TypeOK'
        BY <1>1, <1>2, <2>1 DEF TypeOK, Results
    <2> QED
        BY <2>4, <2>5, <1>3 DEF IInv
<1>6. CASE RegisterIllegal(sd, r) \/ RegisterTaken(sd, r) \/ RegisterNoMemory(sd, r)
    <2>1. UNCHANGED <<vector_table, vector_table_allocated>> /\ ret' \in Results
        BY <1>6 DEF RegisterIllegal, RegisterTaken, RegisterNoMemory, Return, Results
    <2>2. TypeOK' /\ Contiguous' /\ NoShadow'
        BY <2>1, <1>1, <1>2 DEF TypeOK, Contiguous, NoShadow, Entries
    <2> QED
        BY <2>2, <1>3 DEF IInv
<1>7. QED
    BY <1>5, <1>6 DEF register_interrupt

-------------------------------------------------------------------------------
(***************************************************************************)
(* Release.                                                                *)
(***************************************************************************)

\* A search that returns a place returns a used slot.
LEMMA LocateExactEntry ==
    ASSUME TypeOK, NEW request, locate_exact(request) # 0
    PROVE  /\ locate_exact(request) \in Entries
           /\ hasheq(vector_table[locate_exact(request)].selector, request)
<1> DEFINE hits == {i \in foreach_vector_st(1) :
                       hasheq(vector_table[i].selector, request)}
<1>1. hits \subseteq Nat
    BY DEF TypeOK, foreach_vector_st
<1>2. locate_exact(request) = IF hits = {} THEN 0 ELSE First(hits)
    BY DEF locate_exact
<1> HIDE DEF hits
<1>3. locate_exact(request) \in hits
    BY <1>1, <1>2, FirstMember
<1>4. \A i \in foreach_vector_st(1) : i \in Entries
    BY DEF foreach_vector_st, Entries
<1>5. QED
    BY <1>3, <1>4 DEF hits

\* So does release_interrupt, whose removal shifts the entries behind.
LEMMA ReleasePreserves ==
    ASSUME IInv, NEW sd \in Clients, NEW r \in Requests,
           release_interrupt(sd, r)
    PROVE  IInv'
<1>1. TypeOK /\ Contiguous /\ NoShadow /\ LoopInv
    BY DEF IInv
<1>2. /\ releasing = 0
      /\ UNCHANGED <<vector_table_allocated, releasing, ptr>>
      /\ ret' \in Results
    BY DEF release_interrupt, Return, Results
<1>3. LoopInv'
    BY <1>2 DEF LoopInv
<1>4. CASE UNCHANGED vector_table
    BY <1>1, <1>2, <1>3, <1>4 DEF IInv, TypeOK, Contiguous, NoShadow, Entries
<1>5. CASE HoldsExactly(sd, r) /\ vector_table' = remove_entry(locate_exact(r))
    <2>1. locate_exact(r) \in Entries
        BY <1>1, <1>5, LocateExactEntry DEF HoldsExactly
    <2>2. /\ vector_table' \in [1..vector_table_allocated' -> table_t \cup {ZeroEntry}]
          /\ Contiguous' /\ NoShadow'
        BY <1>1, <1>2, <1>5, <2>1, RemovePreserves
    <2> QED
        BY <1>1, <1>2, <1>3, <2>2 DEF IInv, TypeOK
<1>6. QED
    BY <1>4, <1>5 DEF release_interrupt

\* One removal of the loop: the slots in front of ptr do not change.
LEMMA ReleaseAllRemovePreserves ==
    ASSUME IInv, ReleaseAllRemove
    PROVE  IInv'
<1>1. TypeOK /\ Contiguous /\ NoShadow /\ LoopInv
    BY DEF IInv
<1>2. /\ releasing # 0
      /\ vector_table[ptr].data = releasing
      /\ vector_table' = remove_entry(ptr)
      /\ UNCHANGED <<vector_table_allocated, releasing, ptr, ret>>
    BY DEF ReleaseAllRemove
<1>3. ptr \in Entries
    BY <1>1, <1>2 DEF LoopInv, Entries
<1>4. /\ vector_table' \in [1..vector_table_allocated' -> table_t \cup {ZeroEntry}]
      /\ Contiguous' /\ NoShadow'
      /\ \A i \in 1..(ptr - 1) : vector_table'[i] = vector_table[i]
    BY <1>1, <1>2, <1>3, RemovePreserves
<1>5. LoopInv'
    BY <1>1, <1>2, <1>4 DEF LoopInv
<1>6. QED
    BY <1>1, <1>2, <1>4, <1>5 DEF IInv, TypeOK

\* The loop ends at ptr only when no used slot is behind ptr.
LEMMA LoopEnd ==
    ASSUME IInv, releasing # 0, vector_table[ptr].data # releasing, ~InTable(ptr + 1)
    PROVE  \A i \in Entries : vector_table[i].data # releasing
<1>1. /\ Contiguous
      /\ vector_table_allocated \in Nat
      /\ ptr \in 1..vector_table_allocated
      /\ \A j \in 1..(ptr - 1) : vector_table[j].data # releasing
    BY DEF IInv, TypeOK, LoopInv
<1>2. ASSUME NEW i \in Entries PROVE i <= ptr
    <2>1. i \in 1..vector_table_allocated
        BY DEF Entries
    <2>2. CASE i > ptr
        <3>1. ptr + 1 \in 1..i
            BY <1>1, <2>1, <2>2
        <3>2. ptr + 1 \in Entries
            BY <1>1, <3>1 DEF Contiguous
        <3>3. InTable(ptr + 1)
            BY <3>2 DEF InTable, Entries
        <3> QED
            BY <3>3
    <2> QED
        BY <2>1, <2>2, <1>1
<1>3. QED
    BY <1>1, <1>2 DEF Entries

\* The pointer of release_all_interrupts moves on only past entries of others.
LEMMA ReleaseAllAdvancePreserves ==
    ASSUME IInv, ReleaseAllAdvance
    PROVE  IInv'
<1>1. /\ TypeOK /\ Contiguous /\ NoShadow /\ LoopInv
      /\ vector_table_allocated \in Nat
    BY DEF IInv, TypeOK
<1>2. /\ releasing # 0
      /\ vector_table[ptr].data # releasing
      /\ UNCHANGED <<vector_table, vector_table_allocated>>
      /\ ret' \in Results
    BY <1>1 DEF ReleaseAllAdvance, Return, Results, TypeOK
<1>3. ptr \in 1..vector_table_allocated
    BY <1>1, <1>2 DEF LoopInv
<1>4. Contiguous' /\ NoShadow'
    BY <1>1, <1>2 DEF Contiguous, NoShadow, Entries
<1>5. CASE InTable(ptr + 1) /\ ptr' = ptr + 1 /\ UNCHANGED <<releasing, ret>>
    <2>1. LoopInv'
        BY <1>1, <1>2, <1>3, <1>5 DEF LoopInv, InTable
    <2>2. TypeOK'
        BY <1>1, <1>2, <1>5 DEF TypeOK
    <2> QED
        BY <1>4, <2>1, <2>2 DEF IInv
<1>6. CASE ptr' = 1 /\ releasing' = 0
    <2>1. LoopInv'
        BY <1>6 DEF LoopInv
    <2>2. TypeOK'
        BY <1>1, <1>2, <1>6 DEF TypeOK
    <2> QED
        BY <1>4, <2>1, <2>2 DEF IInv
<1>7. QED
    BY <1>5, <1>6 DEF ReleaseAllAdvance

-------------------------------------------------------------------------------
(***************************************************************************)
(* The theorems.                                                           *)
(***************************************************************************)

\* An empty table satisfies the invariant.
LEMMA InitIInv == Init => IInv
BY DEF Init, IInv, TypeOK, Contiguous, NoShadow, LoopInv, Entries, Results

\* Every operation of the table keeps it.
LEMMA NextIInv == IInv /\ [Next]_vars => IInv'
<1> SUFFICES ASSUME IInv, [Next]_vars
             PROVE  IInv'
    OBVIOUS
<1>1. ASSUME NEW sd \in Clients \cup {0}, NEW r \in Requests, register_interrupt(sd, r)
      PROVE  IInv'
    BY <1>1, RegisterPreserves
<1>2. ASSUME NEW sd \in Clients, NEW r \in Requests, release_interrupt(sd, r)
      PROVE  IInv'
    BY <1>2, ReleasePreserves
<1>3. ASSUME NEW sd \in Clients, ReleaseAllStart(sd)
      PROVE  IInv'
    BY <1>3, TableAssumption
       DEF ReleaseAllStart, InTable, IInv, TypeOK, Contiguous, NoShadow, LoopInv, Entries
<1>4. CASE ReleaseAllEmpty
    BY <1>4 DEF ReleaseAllEmpty, Return, Results, IInv, TypeOK, Contiguous, NoShadow,
                LoopInv, Entries
<1>5. CASE ReleaseAllRemove
    BY <1>5, ReleaseAllRemovePreserves
<1>6. CASE ReleaseAllAdvance
    BY <1>6, ReleaseAllAdvancePreserves
<1>7. CASE free_all_interrupts
    BY <1>7 DEF free_all_interrupts, IInv, TypeOK, Contiguous, NoShadow, LoopInv, Entries
<1>8. CASE UNCHANGED vars
    BY <1>8 DEF vars, IInv, TypeOK, Contiguous, NoShadow, LoopInv, Entries
<1>9. QED
    BY <1>1, <1>2, <1>3, <1>4, <1>5, <1>6, <1>7, <1>8 DEF Next

\* The inductive invariant holds in every reachable table.
LEMMA Invariance == Spec => []IInv
BY InitIInv, NextIInv, PTL DEF Spec

\* Every slot always holds a whole entry or zeros, and results are documented
\* ones: the array arithmetic of register_interrupt and remove_entry stays
\* inside the allocation.
THEOREM TypeCorrect == Spec => []TypeOK
<1>1. IInv => TypeOK
    BY DEF IInv
<1>2. QED
    BY <1>1, Invariance, PTL

\* The used slots always come first: no traversal misses an entry.
THEOREM NoHole == Spec => []Contiguous
<1>1. IInv => Contiguous
    BY DEF IInv
<1>2. QED
    BY <1>1, Invariance, PTL

\* What register_interrupt granted is never hidden by an entry in front of it.
THEOREM NothingShadowed == Spec => []NoShadow
<1>1. IInv => NoShadow
    BY DEF IInv
<1>2. QED
    BY <1>1, Invariance, PTL

\* A client can always release what it registered: the first identical entry
\* that release_interrupt finds is the client's own.
THEOREM OwnerAlwaysReleases == Spec => []OwnerCanRelease
<1>1. ASSUME TypeOK, Contiguous, NoShadow, NEW i \in Entries
      PROVE  locate_exact(vector_table[i].selector) = i
    <2> DEFINE hits == {k \in foreach_vector_st(1) :
                           hasheq(vector_table[k].selector, vector_table[i].selector)}
    <2>1. i \in hits
        BY <1>1 DEF foreach_vector_st, Entries, Contiguous, hasheq
    <2>2. ASSUME NEW k \in hits PROVE k = i
        <3>1. k \in Entries /\ k \in Nat /\ i \in Nat
            BY <1>1 DEF foreach_vector_st, Entries
        <3>2. /\ hashmatch(vector_table[k].selector, vector_table[i].selector)
              /\ hashmatch(vector_table[i].selector, vector_table[k].selector)
            BY DEF hasheq, hashmatch
        <3> QED
            BY <1>1, <3>1, <3>2 DEF NoShadow
    <2>3. hits = {i} /\ i \in Nat
        BY <2>1, <2>2 DEF Entries
    <2>4. locate_exact(vector_table[i].selector) = IF hits = {} THEN 0 ELSE First(hits)
        BY DEF locate_exact
    <2> HIDE DEF hits
    <2>5. First(hits) \in hits
        BY <2>3, FirstMember
    <2> QED
        BY <2>3, <2>4, <2>5
<1>2. IInv => OwnerCanRelease
    BY <1>1 DEF IInv, OwnerCanRelease
<1>3. QED
    BY <1>2, Invariance, PTL

\* When the loop of release_all_interrupts ends, the client has no entry left.
THEOREM ReleaseAllIsComplete == Spec => ReleaseAllComplete
<1>1. ASSUME IInv, [Next]_vars, NEW sd \in Clients, releasing = sd, releasing' = 0
      PROVE  Held(sd)' = {}
    <2>1. releasing # 0 /\ releasing' # releasing
        BY <1>1, TableAssumption
    <2>2. ReleaseAllAdvance /\ ~InTable(ptr + 1)
        BY <1>1, <2>1 DEF Next, vars, register_interrupt, release_interrupt,
           ReleaseAllStart, ReleaseAllEmpty, ReleaseAllRemove, ReleaseAllAdvance,
           free_all_interrupts
    <2>3. \A i \in Entries : vector_table[i].data # sd
        BY <1>1, <2>1, <2>2, LoopEnd DEF ReleaseAllAdvance
    <2>4. Entries' = Entries /\ vector_table' = vector_table
        BY <2>2 DEF ReleaseAllAdvance, Entries
    <2> QED
        BY <2>3, <2>4 DEF Held
<1>2. IInv /\ [Next]_vars =>
          [\A sd \in Clients : releasing = sd /\ releasing' = 0 => Held(sd)' = {}]_vars
    BY <1>1
<1>3. QED
    BY <1>2, Invariance, PTL DEF Spec, ReleaseAllComplete

-------------------------------------------------------------------------------
(***************************************************************************)
(* Who receives an interrupt.                                              *)
(***************************************************************************)

\* The entry k is the first that matches x.
Receives(k, x) ==
    /\ k \in Entries /\ hashmatch(vector_table[k].selector, x)
    /\ \A j \in Entries : hashmatch(vector_table[j].selector, x) => k <= j

\* find_interrupt returns the holder of the first entry that matches, 0 without one.
FirstReceives ==
    \A x : /\ \A k : Receives(k, x) => find_interrupt(x) = vector_table[k].data
           /\ find_interrupt(x) # 0 => \E k : Receives(k, x)

\* In a table without holes it does.
LEMMA FindInterrupt == TypeOK /\ Contiguous => FirstReceives
<1> SUFFICES ASSUME TypeOK, Contiguous, NEW x
             PROVE  /\ \A k : Receives(k, x) => find_interrupt(x) = vector_table[k].data
                    /\ find_interrupt(x) # 0 => \E k : Receives(k, x)
    BY DEF FirstReceives
<1> DEFINE hits == {i \in foreach_vector_st(1) : hashmatch(vector_table[i].selector, x)}
<1>1. hits = {i \in Entries : hashmatch(vector_table[i].selector, x)} /\ hits \subseteq Nat \ {0}
    BY DEF foreach_vector_st, Entries, Contiguous, TypeOK
<1>2. locate_interrupt(x) = IF hits = {} THEN 0 ELSE First(hits)
    BY DEF locate_interrupt
<1> HIDE DEF hits
<1>3. hits # {} => First(hits) \in hits /\ \A j \in hits : First(hits) <= j
    BY <1>1, FirstMember
<1>4. ASSUME NEW k, Receives(k, x) PROVE find_interrupt(x) = vector_table[k].data
    <2>1. k \in hits /\ \A j \in hits : k <= j
        BY <1>1, <1>4 DEF Receives
    <2>2. First(hits) \in Nat /\ k \in Nat /\ First(hits) <= k /\ k <= First(hits)
        BY <1>1, <1>3, <2>1
    <2>3. k = First(hits) /\ k # 0
        BY <1>1, <2>1, <2>2
    <2> QED
        BY <1>2, <2>1, <2>3 DEF find_interrupt
<1>5. ASSUME find_interrupt(x) # 0 PROVE \E k : Receives(k, x)
    <2>1. hits # {}
        BY <1>2, <1>5 DEF find_interrupt
    <2>2. Receives(First(hits), x)
        BY <1>1, <1>3, <2>1 DEF Receives
    <2> QED
        BY <2>2
<1> QED
    BY <1>4, <1>5

\* The same one step later.
LEMMA FindInterruptNext == (TypeOK /\ Contiguous => FirstReceives)'
BY FindInterrupt, PTL

\* What a step does to the entries: they stay where they are, and one more may come
\* behind them;
EntriesGrow ==
    /\ Entries \subseteq Entries' /\ Entries' \subseteq Nat
    /\ \A i \in Entries : vector_table'[i] = vector_table[i]
    /\ \A i \in Entries, j \in Entries' \ Entries : i < j

\* the entry v is removed;
EntriesShift(v) ==
    \E last \in Nat :
        /\ Entries = 1..last /\ Entries' = 1..(last - 1)
        /\ \A i \in 1..(last - 1) : vector_table'[i] = vector_table[Before(v, i)]

\* or all of them are.
LEMMA EntrySteps ==
    ASSUME IInv, [Next]_vars
    PROVE  EntriesGrow \/ (\E v \in Entries : EntriesShift(v)) \/ Entries' = {}
<1>0. TypeOK /\ Contiguous /\ vector_table_allocated \in Nat
    BY DEF IInv, TypeOK
<1>1. ASSUME UNCHANGED <<vector_table, vector_table_allocated>> PROVE EntriesGrow
    <2>1. Entries' = Entries /\ Entries \subseteq Nat
        BY <1>1 DEF Entries
    <2> QED
        BY <1>1, <2>1 DEF EntriesGrow
<1>2. ASSUME NEW sd \in Clients \cup {0}, NEW r \in Requests,
             RegisterStore(sd, r) \/ RegisterGrow(sd, r)
      PROVE  EntriesGrow
    <2> DEFINE new == [selector |-> r, data |-> sd]
    <2>1. PICK n \in Nat :
             /\ new \in table_t /\ Entries = 1..n
             /\ \A i \in Entries : ~hashmatch(vector_table[i].selector, r)
             /\ vector_table_allocated' \in Nat /\ n + 1 <= vector_table_allocated'
             /\ vector_table' \in [1..vector_table_allocated' -> table_t \cup {ZeroEntry}]
             /\ \A i \in 1..vector_table_allocated' :
                   vector_table'[i] = IF i <= n THEN vector_table[i]
                                      ELSE IF i = n + 1 THEN new ELSE ZeroEntry
        BY <1>0, <1>2, RegisterAppends
    <2>2. new.selector = r
        OBVIOUS
    <2> HIDE DEF new
    <2>3. Entries' = 1..(n + 1)
        BY <1>0, <2>1, <2>2, AppendPreserves DEF IInv
    <2> QED
        BY <2>1, <2>3 DEF EntriesGrow
<1>3. ASSUME NEW v \in Entries, vector_table' = remove_entry(v), UNCHANGED vector_table_allocated
      PROVE  EntriesShift(v)
    <2>1. PICK last \in v..vector_table_allocated :
              /\ Entries = 1..last /\ Entries' = 1..(last - 1)
              /\ \A i \in 1..(last - 1) : vector_table'[i] = vector_table[Before(v, i)]
        BY <1>0, <1>3, RemoveShifts
    <2>2. last \in Nat
        BY <1>0, <2>1 DEF Entries
    <2> QED
        BY <2>1, <2>2 DEF EntriesShift
<1>4. ASSUME NEW sd \in Clients \cup {0}, NEW r \in Requests, register_interrupt(sd, r)
      PROVE  EntriesGrow
    BY <1>1, <1>2, <1>4 DEF register_interrupt, RegisterIllegal, RegisterTaken, RegisterNoMemory
<1>5. ASSUME NEW sd \in Clients, NEW r \in Requests, release_interrupt(sd, r)
      PROVE  EntriesGrow \/ \E v \in Entries : EntriesShift(v)
    <2>1. CASE HoldsExactly(sd, r) /\ vector_table' = remove_entry(locate_exact(r))
        <3>1. locate_exact(r) \in Entries
            BY <1>0, <2>1, LocateExactEntry DEF HoldsExactly
        <3> QED
            BY <1>3, <1>5, <2>1, <3>1 DEF release_interrupt
    <2> QED
        BY <1>1, <1>5, <2>1 DEF release_interrupt
<1>6. ASSUME ReleaseAllRemove PROVE \E v \in Entries : EntriesShift(v)
    <2>1. ptr \in Entries
        BY <1>6 DEF ReleaseAllRemove, IInv, LoopInv, Entries
    <2> QED
        BY <1>3, <1>6, <2>1 DEF ReleaseAllRemove
<1>7. ASSUME free_all_interrupts PROVE Entries' = {}
    BY <1>7 DEF free_all_interrupts, Entries
<1>8. ASSUME ReleaseAllAdvance \/ ReleaseAllEmpty \/ (\E sd \in Clients : ReleaseAllStart(sd))
             \/ UNCHANGED vars
      PROVE  EntriesGrow
    BY <1>1, <1>8 DEF vars, ReleaseAllStart, ReleaseAllEmpty, ReleaseAllAdvance
<1> QED
    BY <1>4, <1>5, <1>6, <1>7, <1>8 DEF Next

\* An interrupt keeps its recipient until that recipient gives up an entry: adding puts
\* nothing in front of what is there, removing another entry keeps the order, and no
\* other entry of the recipient is identical to the one it lost.
THEOREM RoutingIsStable == Spec => RoutingStable
<1>1. ASSUME IInv, IInv', [Next]_vars, NEW sd \in Clients, NEW x \in Interrupts,
             find_interrupt(x) = sd, find_interrupt(x)' # sd
      PROVE  Held(sd)' \subseteq Held(sd) /\ Held(sd)' # Held(sd)
    <2>1. FirstReceives /\ FirstReceives'
        BY <1>1, FindInterrupt, FindInterruptNext DEF IInv
    <2>2. PICK k : Receives(k, x)
        BY <1>1, <2>1, TableAssumption DEF FirstReceives
    <2>3. k \in Entries /\ vector_table[k].data = sd /\ vector_table[k].selector \in Held(sd)
        BY <1>1, <2>1, <2>2 DEF FirstReceives, Receives, Held
    <2>4. \A m : Receives(m, x)' => vector_table'[m].data # sd
        BY <1>1, <2>1 DEF FirstReceives
    <2>5. ASSUME EntriesGrow PROVE FALSE
        <3>1. \A j \in Entries' : hashmatch(vector_table'[j].selector, x) => k <= j
            BY <2>2, <2>3, <2>5 DEF Receives, EntriesGrow
        <3>2. Receives(k, x)'
            BY <2>2, <2>3, <2>5, <3>1 DEF Receives, EntriesGrow, hashmatch
        <3> QED
            BY <2>3, <2>4, <2>5, <3>2 DEF EntriesGrow
    <2>6. ASSUME NEW v \in Entries, EntriesShift(v)
          PROVE  Held(sd)' \subseteq Held(sd) /\ Held(sd)' # Held(sd)
        <3>0. PICK last \in Nat :
                 /\ Entries = 1..last /\ Entries' = 1..(last - 1)
                 /\ \A i \in 1..(last - 1) : vector_table'[i] = vector_table[Before(v, i)]
            BY <2>6 DEF EntriesShift
        <3>1. \A i \in Entries' : /\ Before(v, i) \in Entries \ {v}
                                  /\ vector_table'[i] = vector_table[Before(v, i)]
            BY <3>0 DEF Before
        <3>2. k = v
            <4>1. SUFFICES ASSUME k # v PROVE FALSE
                OBVIOUS
            <4> DEFINE m == IF k < v THEN k ELSE k - 1
            <4>2. m \in Entries' /\ Before(v, m) = k
                BY <2>3, <3>0, <4>1 DEF Before
            <4>3. ASSUME NEW j \in Entries', hashmatch(vector_table'[j].selector, x)
                  PROVE  m <= j
                <5>1. k <= Before(v, j)
                    BY <2>2, <3>1, <4>3 DEF Receives
                <5> QED
                    BY <2>3, <3>0, <4>1, <5>1 DEF Before
            <4> HIDE DEF m
            <4>4. vector_table'[m] = vector_table[k]
                BY <3>1, <4>2
            <4>5. Receives(m, x)'
                BY <2>2, <4>2, <4>3, <4>4 DEF Receives, hashmatch
            <4> QED
                BY <2>3, <2>4, <4>4, <4>5
        <3>3. Held(sd)' \subseteq Held(sd)
            BY <3>1 DEF Held
        <3>4. vector_table[k].selector \notin Held(sd)'
            <4>1. SUFFICES ASSUME NEW i \in Entries',
                                  vector_table'[i].selector = vector_table[k].selector
                           PROVE  FALSE
                BY DEF Held
            <4> DEFINE o == Before(v, i)
            <4>2. o \in Entries /\ o # k /\ vector_table[o].selector = vector_table[k].selector
                BY <3>1, <3>2, <4>1
            <4>3. o \in Nat /\ k \in Nat
                BY <2>3, <3>0, <4>2
            <4> HIDE DEF o
            <4>4. hashmatch(vector_table[o].selector, vector_table[k].selector)
                  /\ hashmatch(vector_table[k].selector, vector_table[o].selector)
                BY <4>2 DEF hashmatch
            <4> QED
                BY <1>1, <2>3, <4>2, <4>3, <4>4 DEF IInv, NoShadow
        <3> QED
            BY <2>3, <3>3, <3>4
    <2>7. ASSUME Entries' = {}
          PROVE  Held(sd)' \subseteq Held(sd) /\ Held(sd)' # Held(sd)
        <3>1. Held(sd)' = {}
            BY <2>7 DEF Held
        <3> QED
            BY <2>3, <3>1
    <2> QED
        BY <1>1, <2>5, <2>6, <2>7, EntrySteps
<1> DEFINE Kept == \A sd \in Clients :
                      (\E x \in Interrupts : find_interrupt(x) = sd /\ find_interrupt(x)' # sd) =>
                          /\ Held(sd)' \subseteq Held(sd)
                          /\ Held(sd)' # Held(sd)
<1>2. IInv /\ IInv' /\ [Next]_vars => [Kept]_vars
    BY <1>1
<1> QED
    BY <1>2, Invariance, PTL DEF Spec, RoutingStable


-------------------------------------------------------------------------------
(***************************************************************************)
(* The table implements the list of claims.                                *)
(***************************************************************************)

\* While no loop runs, the list is the used slots.
IdleClaims ==
    \A n \in Nat : releasing = 0 /\ Entries = 1..n =>
        ClaimList = [k \in 1..n |-> vector_table[k]]

\* While a loop runs, it is those the loop will not remove.
Kept == {i \in Entries : vector_table[i].data # releasing}

LoopClaims ==
    releasing # 0 =>
        ClaimList = [k \in 1..Cardinality(Kept) |-> vector_table[Ascending(Kept)[k]]]

LEMMA ClaimListIs == TypeOK /\ Contiguous => IdleClaims /\ LoopClaims
<1> SUFFICES ASSUME TypeOK, Contiguous PROVE IdleClaims /\ LoopClaims
    OBVIOUS
<1>1. ASSUME NEW n \in Nat, releasing = 0, Entries = 1..n
      PROVE  ClaimList = [k \in 1..n |-> vector_table[k]]
    <2> DEFINE m == foreach_end(1) - 1
    <2>1. vector_table_allocated \in Nat /\ 1 \in 1..(vector_table_allocated + 1)
        BY DEF TypeOK
    <2>2. foreach_end(1) \in 1..(vector_table_allocated + 1) /\ Entries = 1..m
        BY <2>1, ForeachEnd, EntriesInterval
    <2>3. m \in Nat
        BY <2>1, <2>2
    <2>4. ClaimList = [k \in 1..m |-> vector_table[k]]
        BY <1>1 DEF ClaimList
    <2> HIDE DEF m
    <2>5. m = n
        <3>1. m \in 1..n \/ m = 0
            BY <1>1, <2>2, <2>3
        <3>2. n \in 1..m \/ n = 0
            BY <1>1, <2>2, <2>3
        <3> QED
            BY <1>1, <2>2, <2>3, <3>1, <3>2
    <2> QED
        BY <2>4, <2>5
<1>2. LoopClaims
    BY Zenon DEF LoopClaims, ClaimList, Kept
<1> QED
    BY <1>1, <1>2 DEF IdleClaims

\* The same one step later.
LEMMA ClaimListIsNext == (TypeOK /\ Contiguous => IdleClaims /\ LoopClaims)'
BY ClaimListIs, PTL

\* The used slots are an interval, and every claim is well-typed.
LEMMA UsedSlots ==
    ASSUME TypeOK, Contiguous
    PROVE  \E n \in Nat : /\ Entries = 1..n
                          /\ \A k \in 1..n : vector_table[k] \in table_t
<1>1. vector_table_allocated \in Nat /\ 1 \in 1..(vector_table_allocated + 1)
    BY DEF TypeOK
<1>2. foreach_end(1) \in 1..(vector_table_allocated + 1) /\ Entries = 1..(foreach_end(1) - 1)
    BY <1>1, ForeachEnd, EntriesInterval
<1>3. foreach_end(1) - 1 \in Nat
    BY <1>1, <1>2
<1>4. \A k \in Entries : vector_table[k] \in table_t
    BY DEF Entries, TypeOK, ZeroEntry
<1> QED
    BY <1>2, <1>3, <1>4

\* A step that touches neither the slots nor the loop's client changes no claim.
LEMMA SameClaims ==
    ASSUME IInv, IInv', UNCHANGED <<vector_table, vector_table_allocated, releasing>>
    PROVE  ClaimList' = ClaimList
<1>1. TypeOK /\ Contiguous /\ IdleClaims /\ LoopClaims /\ IdleClaims' /\ LoopClaims'
    BY ClaimListIs, ClaimListIsNext DEF IInv
<1>2. Entries' = Entries
    BY DEF Entries
<1>3. Kept' = Kept
    BY <1>2 DEF Kept
<1>4. CASE releasing = 0
    <2>1. PICK n \in Nat : Entries = 1..n
        BY <1>1, UsedSlots
    <2>2. ClaimList = [k \in 1..n |-> vector_table[k]]
        BY <1>1, <1>4, <2>1 DEF IdleClaims
    <2>3. ClaimList' = [k \in 1..n |-> vector_table'[k]]
        BY <1>1, <1>2, <1>4, <2>1 DEF IdleClaims
    <2> QED
        BY <2>2, <2>3
<1>5. CASE releasing # 0
    <2>1. ClaimList' = [k \in 1..Cardinality(Kept') |-> vector_table'[Ascending(Kept')[k]]]
        BY <1>1, <1>5 DEF LoopClaims
    <2>2. ClaimList = [k \in 1..Cardinality(Kept) |-> vector_table[Ascending(Kept)[k]]]
        BY <1>1, <1>5 DEF LoopClaims
    <2> QED
        BY <1>3, <2>1, <2>2
<1> QED
    BY <1>4, <1>5

\* A registration that is granted is a Grant.
LEMMA RegisterGrants ==
    ASSUME IInv, IInv', NEW sd \in Clients \cup {0}, NEW r \in Requests,
           releasing = 0, UNCHANGED releasing,
           RegisterStore(sd, r) \/ RegisterGrow(sd, r)
    PROVE  sd \in Clients /\ Claims!Grant(sd, r)
<1> DEFINE new == [selector |-> r, data |-> sd]
<1>1. TypeOK /\ Contiguous /\ NoShadow /\ IdleClaims /\ IdleClaims'
    BY ClaimListIs, ClaimListIsNext DEF IInv
<1>2. sd \in Clients /\ LegalRequest(r) /\ new.selector = r
    BY DEF RegisterStore, RegisterGrow, RegisterFree
<1>3. PICK n \in Nat :
         /\ new \in table_t /\ Entries = 1..n
         /\ \A i \in Entries : ~hashmatch(vector_table[i].selector, r)
         /\ vector_table_allocated' \in Nat /\ n + 1 <= vector_table_allocated'
         /\ vector_table' \in [1..vector_table_allocated' -> table_t \cup {ZeroEntry}]
         /\ \A i \in 1..vector_table_allocated' :
               vector_table'[i] = IF i <= n THEN vector_table[i]
                                  ELSE IF i = n + 1 THEN new ELSE ZeroEntry
    BY <1>1, RegisterAppends
<1> HIDE DEF new
<1>4. Entries' = 1..(n + 1)
    BY <1>1, <1>2, <1>3, AppendPreserves
<1>5. ClaimList = [k \in 1..n |-> vector_table[k]]
    BY <1>1, <1>3 DEF IdleClaims
<1>6. ClaimList' = [k \in 1..(n + 1) |-> vector_table'[k]]
    <2>1. n + 1 \in Nat /\ releasing' = 0
        BY <1>3
    <2> QED
        BY <1>1, <1>4, <2>1 DEF IdleClaims
<1>7. ClaimList \in Seq(table_t) /\ Len(ClaimList) = n /\ DOMAIN ClaimList = 1..n
    <2>1. \A k \in 1..n : vector_table[k] \in table_t
        BY <1>1, <1>3 DEF Entries, TypeOK, ZeroEntry
    <2> QED
        BY <1>3, <1>5, <2>1
<1>8. ClaimList' = Append(ClaimList, new)
    <2> DEFINE longer == Append(ClaimList, new)
    <2>1. /\ longer \in Seq(table_t) /\ Len(longer) = n + 1
          /\ \A k \in 1..n : longer[k] = ClaimList[k]
          /\ longer[n + 1] = new
        BY <1>3, <1>7, AppendProperties
    <2> HIDE DEF longer
    <2>2. longer = [k \in 1..(n + 1) |-> longer[k]]
        BY <2>1
    <2>3. \A k \in 1..(n + 1) : vector_table'[k] = longer[k]
        BY <1>3, <1>5, <2>1
    <2> QED
        BY <1>6, <2>2, <2>3 DEF longer
<1>9. Claims!Matching(r) = {}
    BY <1>3, <1>5, <1>7 DEF Claims!Matching, Claims!hashmatch, hashmatch
<1> QED
    BY <1>2, <1>8, <1>9 DEF new, Claims!Grant, Claims!LegalRequest, LegalRequest

\* release_interrupt of an entry is a GiveUp of its claim.
LEMMA ReleaseGivesUp ==
    ASSUME IInv, IInv', NEW sd \in Clients, NEW r \in Requests,
           releasing = 0, UNCHANGED <<releasing, vector_table_allocated>>,
           HoldsExactly(sd, r), vector_table' = remove_entry(locate_exact(r))
    PROVE  Claims!GiveUp(sd, r)
<1> DEFINE v == locate_exact(r)
<1>1. TypeOK /\ Contiguous /\ IdleClaims /\ IdleClaims'
    BY ClaimListIs, ClaimListIsNext DEF IInv
<1>2. v \in Entries /\ hasheq(vector_table[v].selector, r) /\ vector_table[v].data = sd
    BY <1>1, LocateExactEntry DEF HoldsExactly
<1> HIDE DEF v
<1>3. PICK last \in v..vector_table_allocated :
          /\ Entries = 1..last /\ Entries' = 1..(last - 1)
          /\ \A i \in 1..(last - 1) : vector_table'[i] = vector_table[Before(v, i)]
    <2>1. vector_table' = remove_entry(v)
        BY DEF v
    <2> QED
        BY <1>1, <1>2, <2>1, RemoveShifts
<1>4. v \in 1..last /\ last \in Nat /\ last - 1 \in Nat
    BY <1>1, <1>2, <1>3 DEF TypeOK
<1>5. ClaimList = [k \in 1..last |-> vector_table[k]]
    BY <1>1, <1>3, <1>4 DEF IdleClaims
<1>6. ClaimList' = [k \in 1..(last - 1) |-> vector_table'[k]]
    BY <1>1, <1>3, <1>4 DEF IdleClaims
<1>7. ClaimList \in Seq(table_t) /\ Len(ClaimList) = last /\ DOMAIN ClaimList = 1..last
    <2>1. \A k \in 1..last : vector_table[k] \in table_t
        BY <1>1, <1>3 DEF Entries, TypeOK, ZeroEntry
    <2> QED
        BY <1>4, <1>5, <2>1
<1>8. ClaimList' = RemoveAt(ClaimList, v)
    <2>1. /\ RemoveAt(ClaimList, v) \in Seq(table_t)
          /\ Len(RemoveAt(ClaimList, v)) = last - 1
          /\ \A k \in 1..(last - 1) :
                RemoveAt(ClaimList, v)[k] = IF k < v THEN ClaimList[k] ELSE ClaimList[k + 1]
        BY <1>4, <1>7, RemoveAtProperties
    <2>2. RemoveAt(ClaimList, v) = [k \in 1..(last - 1) |-> RemoveAt(ClaimList, v)[k]]
        BY <2>1
    <2>3. ASSUME NEW k \in 1..(last - 1) PROVE vector_table'[k] = RemoveAt(ClaimList, v)[k]
        <3>1. k \in 1..last /\ k + 1 \in 1..last
            BY <1>4
        <3>2. ClaimList[k] = vector_table[k] /\ ClaimList[k + 1] = vector_table[k + 1]
            BY <1>5, <3>1
        <3>3. vector_table'[k] = IF k < v THEN vector_table[k] ELSE vector_table[k + 1]
            BY <1>3 DEF Before
        <3> QED
            BY <2>1, <3>2, <3>3
    <2> QED
        BY <1>6, <2>2, <2>3
<1>9. v \in Claims!Holding(sd, r)
    BY <1>2, <1>4, <1>5, <1>7 DEF Claims!Holding, Claims!hasheq, hasheq
<1> QED
    BY <1>8, <1>9 DEF Claims!GiveUp, Claims!RemoveAt, RemoveAt


\* Starting the loop of release_all_interrupts gives up everything the client holds.
LEMMA LoopStartGivesUpAll ==
    ASSUME IInv, IInv', NEW sd \in Clients, ReleaseAllStart(sd)
    PROVE  Claims!GiveUpAll(sd)
<1>1. TypeOK /\ Contiguous /\ IdleClaims /\ LoopClaims'
    BY ClaimListIs, ClaimListIsNext DEF IInv
<1>2. releasing = 0 /\ releasing' = sd /\ sd # 0
      /\ vector_table' = vector_table /\ vector_table_allocated' = vector_table_allocated
    BY TableAssumption DEF ReleaseAllStart
<1>3. PICK n \in Nat : Entries = 1..n
    BY <1>1, UsedSlots
<1>4. ClaimList = [k \in 1..n |-> vector_table[k]]
    BY <1>1, <1>2, <1>3 DEF IdleClaims
<1> DEFINE kept == {i \in DOMAIN ClaimList : ClaimList[i].data # sd}
           list == [k \in 1..Cardinality(kept) |-> ClaimList[Ascending(kept)[k]]]
<1>5. Kept' = kept
    BY <1>2, <1>3, <1>4 DEF Kept, Entries
<1>6. ClaimList' = [k \in 1..Cardinality(kept) |-> vector_table[Ascending(kept)[k]]]
    <2>1. releasing' # 0
        BY <1>2
    <2> QED
        BY <1>1, <1>2, <1>5, <2>1 DEF LoopClaims
<1>7. ASSUME NEW k \in 1..Cardinality(kept)
      PROVE  vector_table[Ascending(kept)[k]] = ClaimList[Ascending(kept)[k]]
    <2>1. kept \subseteq 1..n
        BY <1>4
    <2>2. kept \subseteq Nat /\ IsFiniteSet(kept)
        BY <1>3, <2>1, FS_Interval, FS_Subset
    <2> HIDE DEF kept
    <2>3. Ascending(kept)[k] \in kept
        BY <2>2, AscendingProperties
    <2>4. Ascending(kept)[k] \in 1..n
        BY <2>1, <2>3
    <2> QED
        BY <1>4, <2>4
<1>8. ClaimList' = list
    <2> HIDE DEF kept
    <2> QED
        BY <1>6, <1>7
<1>9. \A S : Claims!Cardinality(S) = Cardinality(S)
    BY Zenon DEF Claims!Cardinality, Cardinality
<1>10. \A S : Claims!Ascending(S) = Ascending(S)
    BY <1>9, Zenon DEF Claims!Ascending, Ascending
<1> QED
    BY <1>8, <1>9, <1>10, Zenon DEF Claims!GiveUpAll

\* Removing an entry inside the loop changes no claim: it was given up already.
LEMMA LoopRemoveSame ==
    ASSUME IInv, IInv', ReleaseAllRemove
    PROVE  ClaimList' = ClaimList
<1>1. TypeOK /\ Contiguous /\ LoopClaims /\ LoopClaims'
    BY ClaimListIs, ClaimListIsNext DEF IInv
<1>2. /\ releasing # 0 /\ releasing' = releasing
      /\ vector_table' = remove_entry(ptr) /\ vector_table_allocated' = vector_table_allocated
      /\ ptr \in Entries /\ vector_table[ptr].data = releasing
    BY DEF ReleaseAllRemove, IInv, LoopInv, Entries
<1>3. PICK last \in ptr..vector_table_allocated :
          /\ Entries = 1..last /\ Entries' = 1..(last - 1)
          /\ \A i \in 1..(last - 1) : vector_table'[i] = vector_table[Before(ptr, i)]
    BY <1>1, <1>2, RemoveShifts
<1>4. ptr \in 1..last /\ last \in Nat
    BY <1>1, <1>2, <1>3 DEF TypeOK
<1> DEFINE m == [i \in Kept' |-> Before(ptr, i)]
<1>5. Kept' \subseteq 1..(last - 1) /\ Kept \subseteq 1..last
      /\ \A i \in 1..(last - 1) : i \in Kept' <=> Before(ptr, i) \in Kept
    BY <1>2, <1>3, <1>4 DEF Kept, Before
<1>6. m \in [Kept' -> Kept] /\ \A x, y \in Kept' : x < y => m[x] < m[y]
    BY <1>4, <1>5 DEF Before
<1>7. ASSUME NEW y \in Kept PROVE \E x \in Kept' : m[x] = y
    <2> DEFINE x == IF y < ptr THEN y ELSE y - 1
    <2>1. y # ptr
        BY <1>2 DEF Kept
    <2>2. x \in 1..(last - 1) /\ Before(ptr, x) = y
        BY <1>4, <1>5, <2>1 DEF Before
    <2> QED
        BY <1>5, <2>2
<1>8. Kept' \subseteq Nat /\ Kept \subseteq Nat /\ IsFiniteSet(Kept')
    <2>1. IsFiniteSet(1..(last - 1))
        BY <1>4, FS_Interval
    <2>2. IsFiniteSet(Kept')
        BY <1>5, <2>1, FS_Subset
    <2> QED
        BY <1>4, <1>5, <2>2
<1> HIDE DEF m
<1>9. /\ Cardinality(Kept) = Cardinality(Kept')
      /\ Ascending(Kept) = Moved(Kept', m)
    <2>1. MovesTo(Kept', Kept, m)
        BY <1>6, <1>7 DEF MovesTo
    <2> QED
        BY <1>8, <2>1, AscendingImage
<1>10. ASSUME NEW k \in 1..Cardinality(Kept)
       PROVE  vector_table'[Ascending(Kept')[k]] = vector_table[Ascending(Kept)[k]]
    <2>1. Ascending(Kept')[k] \in Kept'
        BY <1>8, <1>9, AscendingProperties
    <2>2. vector_table'[Ascending(Kept')[k]] = vector_table[Before(ptr, Ascending(Kept')[k])]
        BY <1>3, <1>5, <2>1
    <2> QED
        BY <1>9, <2>1, <2>2 DEF m, Moved
<1>11. ClaimList' = [k \in 1..Cardinality(Kept') |-> vector_table'[Ascending(Kept')[k]]]
    BY <1>1, <1>2 DEF LoopClaims
<1>12. ClaimList = [k \in 1..Cardinality(Kept) |-> vector_table[Ascending(Kept)[k]]]
    BY <1>1, <1>2 DEF LoopClaims
<1> QED
    BY <1>9, <1>10, <1>11, <1>12

\* Nor does the end of the loop: nothing of the client is left to be skipped.
LEMMA LoopEndSame ==
    ASSUME IInv, IInv', ReleaseAllAdvance, ~InTable(ptr + 1)
    PROVE  ClaimList' = ClaimList
<1>1. TypeOK /\ Contiguous /\ LoopClaims /\ IdleClaims'
    BY ClaimListIs, ClaimListIsNext DEF IInv
<1>2. /\ releasing # 0 /\ releasing' = 0 /\ Entries' = Entries
      /\ vector_table' = vector_table /\ vector_table_allocated' = vector_table_allocated
    BY DEF ReleaseAllAdvance, Entries
<1>3. PICK n \in Nat : Entries = 1..n
    BY <1>1, UsedSlots
<1>4. Kept = 1..n
    <2>1. \A i \in Entries : vector_table[i].data # releasing
        BY <1>2, LoopEnd DEF IInv, ReleaseAllAdvance
    <2> QED
        BY <1>3, <2>1 DEF Kept
<1>5. ClaimList = [k \in 1..n |-> vector_table[k]]
    <2>1. ClaimList = [k \in 1..Cardinality(Kept) |-> vector_table[Ascending(Kept)[k]]]
        BY <1>1, <1>2 DEF LoopClaims
    <2>2. Cardinality(Kept) = n /\ \A k \in 1..n : Ascending(Kept)[k] = k
        BY <1>4, AscendingInterval
    <2> QED
        BY <2>1, <2>2
<1>6. ClaimList' = [k \in 1..n |-> vector_table'[k]]
    BY <1>1, <1>2, <1>3 DEF IdleClaims
<1> QED
    BY <1>2, <1>5, <1>6

\* A table without used slots holds no claim.
LEMMA NoClaims == TypeOK /\ Contiguous /\ releasing = 0 /\ Entries = {} => ClaimList = <<>>
<1> SUFFICES ASSUME TypeOK, Contiguous, releasing = 0, Entries = {} PROVE ClaimList = <<>>
    OBVIOUS
<1>1. Entries = 1..0
    OBVIOUS
<1>2. ClaimList = [k \in 1..0 |-> vector_table[k]]
    BY <1>1, ClaimListIs DEF IdleClaims
<1> QED
    BY <1>2

LEMMA NoClaimsNext ==
    (TypeOK /\ Contiguous /\ releasing = 0 /\ Entries = {} => ClaimList = <<>>)'
BY NoClaims, PTL

\* Every step of the table is a step of the list of claims, or leaves it as it is.
LEMMA ClaimSteps ==
    ASSUME IInv, IInv', [Next]_vars
    PROVE  [Claims!Next]_ClaimList
<1>1. ASSUME NEW sd \in Clients \cup {0}, NEW r \in Requests, register_interrupt(sd, r)
      PROVE  [Claims!Next]_ClaimList
    <2>1. CASE RegisterStore(sd, r) \/ RegisterGrow(sd, r)
        <3>1. sd \in Clients /\ Claims!Grant(sd, r)
            BY <1>1, <2>1, RegisterGrants DEF register_interrupt
        <3> QED
            BY <3>1 DEF Claims!Next
    <2>2. CASE RegisterIllegal(sd, r) \/ RegisterTaken(sd, r) \/ RegisterNoMemory(sd, r)
        BY <1>1, <2>2, SameClaims
           DEF register_interrupt, RegisterIllegal, RegisterTaken, RegisterNoMemory
    <2> QED
        BY <1>1, <2>1, <2>2 DEF register_interrupt
<1>2. ASSUME NEW sd \in Clients, NEW r \in Requests, release_interrupt(sd, r)
      PROVE  [Claims!Next]_ClaimList
    <2>1. CASE HoldsExactly(sd, r) /\ vector_table' = remove_entry(locate_exact(r))
        <3>1. Claims!GiveUp(sd, r)
            BY <1>2, <2>1, ReleaseGivesUp DEF release_interrupt
        <3> QED
            BY <3>1 DEF Claims!Next
    <2>2. CASE UNCHANGED vector_table
        BY <1>2, <2>2, SameClaims DEF release_interrupt
    <2> QED
        BY <1>2, <2>1, <2>2 DEF release_interrupt
<1>3. ASSUME NEW sd \in Clients, ReleaseAllStart(sd) PROVE [Claims!Next]_ClaimList
    BY <1>3, LoopStartGivesUpAll DEF Claims!Next
<1>4. ASSUME ReleaseAllRemove PROVE [Claims!Next]_ClaimList
    BY <1>4, LoopRemoveSame
<1>5. ASSUME ReleaseAllAdvance PROVE [Claims!Next]_ClaimList
    <2>1. CASE ~InTable(ptr + 1)
        BY <1>5, <2>1, LoopEndSame
    <2>2. CASE InTable(ptr + 1)
        BY <1>5, <2>2, SameClaims DEF ReleaseAllAdvance
    <2> QED
        BY <2>1, <2>2
<1>6. ASSUME free_all_interrupts PROVE [Claims!Next]_ClaimList
    <2>1. Entries' = {} /\ releasing' = 0
        BY <1>6 DEF free_all_interrupts, Entries
    <2>2. ClaimList' = <<>>
        BY <2>1, NoClaimsNext DEF IInv
    <2> QED
        BY <2>2 DEF Claims!Next, Claims!Clear
<1>7. ASSUME ReleaseAllEmpty \/ UNCHANGED vars PROVE [Claims!Next]_ClaimList
    BY <1>7, SameClaims DEF ReleaseAllEmpty, vars
<1> QED
    BY <1>1, <1>2, <1>3, <1>4, <1>5, <1>6, <1>7 DEF Next

\* The array with its growing, shifting, zeroing and its two-level loop does exactly what
\* the list of claims promises.
THEOREM TableImplementsClaims == Spec => ImplementsClaims
<1>1. Init => Claims!Init
    <2>1. Init => Entries = {} /\ releasing = 0
        BY DEF Init, Entries
    <2> QED
        BY <2>1, InitIInv, NoClaims DEF IInv, Claims!Init
<1>2. IInv /\ IInv' /\ [Next]_vars => [Claims!Next]_ClaimList
    BY ClaimSteps
<1> QED
    BY <1>1, <1>2, Invariance, PTL DEF Spec, ImplementsClaims, Claims!Spec

===============================================================================
