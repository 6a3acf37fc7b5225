-------------------------- MODULE V120Browser_proofs ---------------------------
(***************************************************************************)
(* What V120Browser keeps for every length of the map, every set of names, *)
(* every hash function and whatever RNM files contain.                     *)
(*                                                                         *)
(* The first part is about RnmTable: what the lines of a file make of the  *)
(* array and of the hash table.  The second is the invariant of the page.  *)
(***************************************************************************)
EXTENDS V120Browser, Ascending_proofs

-------------------------------------------------------------------------------
(***************************************************************************)
(* Tables                                                                  *)
(***************************************************************************)
Entry(top) == [rh_hash : Nat, rh_idx : 0 .. top]

Bucket(table, name) == table.r_hash[Hash[name] % RNM_HASH_SIZE]

\* Every register that has a name has an entry of its own in that name's bucket.
Findable(table, i) ==
    table.r_mdata[i] # NoName =>
        \E k \in DOMAIN Bucket(table, table.r_mdata[i]) :
            /\ Bucket(table, table.r_mdata[i])[k].rh_hash = Hash[table.r_mdata[i]]
            /\ Bucket(table, table.r_mdata[i])[k].rh_idx = i

TableType(top) ==
    [r_len : {top}, r_dwidth : Nat, bad : BOOLEAN,
     r_mdata : [0 .. top -> Names \cup {NoName}],
     r_hash : [0 .. RNM_HASH_SIZE - 1 -> Seq(Entry(top))]]

\* What holds of a table while its file is read: top is the highest index.
TableInv(table, top) ==
    /\ table \in TableType(top)
    /\ ~table.bad => table.r_dwidth \in {2, 4}
    /\ \A i \in 0 .. top : Findable(table, i)

\* The four kinds of line linedata meets.
LEMMA LineKinds ==
    ASSUME NEW line \in RnmLine
    PROVE  \/ line = <<"bad">>
           \/ \E n \in Nat : line = <<"W", n>>
           \/ \E n \in Nat : line = <<"reg", n>>
           \/ \E n \in Nat, name \in Names : line = <<"reg", n, name>>
<1>1. CASE line \in {"W"} \X Nat
    BY <1>1
<1>2. CASE line \in {"reg"} \X Nat
    BY <1>2
<1>3. CASE line \in {"reg"} \X Nat \X Names
    BY <1>3
<1>4. CASE line = <<"bad">>
    BY <1>4
<1> QED
    BY <1>1, <1>2, <1>3, <1>4 DEF RnmLine

\* maxoffs is a bound of every index in the file, so rnmparse allocates enough.
LEMMA MaxoffsBounds ==
    ASSUME NEW file \in Seq(RnmLine)
    PROVE  /\ maxoffs(file) \in Nat
           /\ \A i \in DOMAIN file : IsRegister(file[i]) => file[i][2] \in 0 .. maxoffs(file)
<1> DEFINE D == {j \in DOMAIN file : IsRegister(file[j])}
           I == {file[i][2] : i \in D}
           T == {0} \cup I
<1>1. \A i \in D : file[i][2] \in Nat
    <2> SUFFICES ASSUME NEW i \in D PROVE file[i][2] \in Nat
        OBVIOUS
    <2>1. file[i] \in RnmLine /\ file[i][1] = "reg"
        BY DEF IsRegister
    <2> QED
        BY <2>1, LineKinds
<1>2. IsFiniteSet(I)
    <2>1. IsFiniteSet(1 .. Len(file))
        BY FS_Interval
    <2>2. D \subseteq 1 .. Len(file)
        OBVIOUS
    <2>3. IsFiniteSet(D)
        BY <2>1, <2>2, FS_Subset
    <2> DEFINE f == [i \in D |-> file[i][2]]
    <2>4. f \in Surjection(D, I)
        BY DEF Surjection
    <2> HIDE DEF D, I, f
    <2> QED
        BY <2>3, <2>4, FS_Surjection
<1>3. IsFiniteSet(T)
    <2> HIDE DEF I
    <2>1. IsFiniteSet({0})
        BY FS_Singleton
    <2> QED
        BY <1>2, <2>1, FS_Union
<1>4. T \subseteq Nat /\ T # {}
    BY <1>1
<1>5. \E x \in T : \A y \in T : x >= y
    <2> HIDE DEF T
    <2> QED
        BY <1>3, <1>4, GreatestNatural
<1>6. maxoffs(file) \in T /\ \A y \in T : maxoffs(file) >= y
    BY <1>5 DEF maxoffs, Max
<1> QED
    <2> SUFFICES ASSUME NEW i \in DOMAIN file, IsRegister(file[i])
                 PROVE  maxoffs(file) \in Nat /\ file[i][2] \in 0 .. maxoffs(file)
        BY <1>4, <1>6
    <2>1. file[i][2] \in T /\ file[i][2] \in Nat
        BY <1>1
    <2>2. maxoffs(file) \in Nat /\ maxoffs(file) >= file[i][2]
        BY <1>4, <1>6, <2>1
    <2> QED
        BY <2>1, <2>2

\* The hash of a name picks one of the buckets.
LEMMA BucketInRange ==
    ASSUME NEW name \in Names
    PROVE  Hash[name] \in Nat /\ Hash[name] % RNM_HASH_SIZE \in 0 .. RNM_HASH_SIZE - 1
<1>1. Hash[name] \in Nat /\ RNM_HASH_SIZE \in Nat \ {0}
    BY RnmAssumption
<1> DEFINE h == Hash[name]
<1> HIDE DEF h
<1>2. h \in Nat => h % RNM_HASH_SIZE \in 0 .. RNM_HASH_SIZE - 1
    BY <1>1
<1> QED
    BY <1>1, <1>2 DEF h

\* add2hash adds an entry that is found, and loses none of those in the table.
LEMMA Add2hashKeeps ==
    ASSUME NEW top \in Nat, NEW table \in TableType(top), NEW name \in Names, NEW index \in 0 .. top
    PROVE  /\ add2hash(table, name, index) \in TableType(top)
           /\ add2hash(table, name, index).bad = table.bad
           /\ add2hash(table, name, index).r_dwidth = table.r_dwidth
           /\ add2hash(table, name, index).r_mdata = table.r_mdata
           /\ \E k \in DOMAIN Bucket(add2hash(table, name, index), name) :
                Bucket(add2hash(table, name, index), name)[k]
                    = [rh_hash |-> Hash[name], rh_idx |-> index]
           /\ \A other \in Names : \A k \in DOMAIN Bucket(table, other) :
                /\ k \in DOMAIN Bucket(add2hash(table, name, index), other)
                /\ Bucket(add2hash(table, name, index), other)[k] = Bucket(table, other)[k]
<1> DEFINE b == Hash[name] % RNM_HASH_SIZE
           e == [rh_hash |-> Hash[name], rh_idx |-> index]
           old == table.r_hash[b]
           app == Append(old, e)
           new == [table.r_hash EXCEPT ![b] = app]
           t == [table EXCEPT !.r_hash = new]
<1>1. b \in 0 .. RNM_HASH_SIZE - 1 /\ Hash[name] \in Nat
    BY BucketInRange
<1>2. e \in Entry(top)
    BY <1>1 DEF Entry
<1>3. table.r_hash \in [0 .. RNM_HASH_SIZE - 1 -> Seq(Entry(top))]
    BY DEF TableType
<1>4. old \in Seq(Entry(top))
    BY <1>1, <1>3
<1>5. add2hash(table, name, index) = t
    BY DEF add2hash
<1> HIDE DEF b, e
<1>6. /\ app \in Seq(Entry(top))
      /\ Len(app) = Len(old) + 1
      /\ \A k \in 1 .. Len(old) : app[k] = old[k]
      /\ app[Len(old) + 1] = e
    BY <1>2, <1>4
<1> HIDE DEF app
<1>7. new \in [0 .. RNM_HASH_SIZE - 1 -> Seq(Entry(top))]
    BY <1>1, <1>3, <1>6
<1>8. /\ t \in TableType(top)
      /\ t.bad = table.bad /\ t.r_dwidth = table.r_dwidth /\ t.r_mdata = table.r_mdata
      /\ t.r_hash = new
    <2> HIDE DEF new
    <2> QED
        BY <1>7 DEF TableType
<1>9. new[b] = app /\ \A c \in 0 .. RNM_HASH_SIZE - 1 : c # b => new[c] = table.r_hash[c]
    BY <1>1, <1>3
<1>10. DOMAIN app = 1 .. Len(old) + 1 /\ DOMAIN old = 1 .. Len(old) /\ Len(old) \in Nat
    BY <1>4, <1>6
<1> HIDE DEF t, old
<1>11. \E k \in DOMAIN Bucket(t, name) : Bucket(t, name)[k] = e
    <2>1. Bucket(t, name) = app
        BY <1>8, <1>9 DEF Bucket, b
    <2> QED
        BY <1>6, <1>10, <2>1
<1>12. ASSUME NEW other \in Names, NEW k \in DOMAIN Bucket(table, other)
       PROVE  k \in DOMAIN Bucket(t, other) /\ Bucket(t, other)[k] = Bucket(table, other)[k]
    <2>1. Hash[other] % RNM_HASH_SIZE \in 0 .. RNM_HASH_SIZE - 1
        BY BucketInRange
    <2>2. CASE Hash[other] % RNM_HASH_SIZE = b
        <3>1. Bucket(table, other) = old /\ Bucket(t, other) = app
            BY <2>2, <1>8, <1>9 DEF Bucket, old
        <3> QED
            BY <3>1, <1>6, <1>10
    <2>3. CASE Hash[other] % RNM_HASH_SIZE # b
        <3>1. Bucket(t, other) = Bucket(table, other)
            BY <2>1, <2>3, <1>8, <1>9 DEF Bucket
        <3> QED
            BY <3>1
    <2> QED
        BY <2>2, <2>3
<1> QED
    BY <1>5, <1>8, <1>11, <1>12 DEF e

\* A register stays findable while neither its name nor the hash table changes.
LEMMA FindableSame ==
    ASSUME NEW table, NEW t, NEW i, t.r_mdata[i] = table.r_mdata[i], t.r_hash = table.r_hash,
           Findable(table, i)
    PROVE  Findable(t, i)
<1>1. Bucket(t, table.r_mdata[i]) = Bucket(table, table.r_mdata[i])
    BY DEF Bucket
<1> QED
    BY <1>1 DEF Findable

\* A line that linedata meets keeps every named register findable.
LEMMA LinedataKeeps ==
    ASSUME NEW top \in Nat, NEW table, TableInv(table, top), NEW line \in RnmLine,
           IsRegister(line) => line[2] \in 0 .. top
    PROVE  TableInv(linedata(table, line), top)
<1>1. /\ table \in TableType(top)
      /\ ~table.bad => table.r_dwidth \in {2, 4}
      /\ \A i \in 0 .. top : Findable(table, i)
    BY DEF TableInv
<1> DEFINE named(name) == [table EXCEPT !.r_mdata[line[2]] = name]
<1>2. CASE table.bad \/ line[1] = "bad"
    <2> DEFINE t == [table EXCEPT !.bad = TRUE]
    <2>1. linedata(table, line) = t
        BY <1>2 DEF linedata
    <2>2. /\ t \in TableType(top) /\ t.bad
          /\ t.r_mdata = table.r_mdata /\ t.r_hash = table.r_hash
        BY <1>1 DEF TableType
    <2> HIDE DEF t
    <2>3. \A i \in 0 .. top : Findable(t, i)
        BY <1>1, <2>2, FindableSame
    <2> QED
        BY <1>1, <2>1, <2>2, <2>3 DEF TableInv
<1>3. CASE ~table.bad /\ line[1] = "W"
    <2> DEFINE t == [table EXCEPT !.r_dwidth = line[2], !.bad = line[2] \notin {2, 4}]
    <2>1. linedata(table, line) = t
        BY <1>3 DEF linedata
    <2>2. line[2] \in Nat
        BY <1>3, LineKinds
    <2>3. /\ t \in TableType(top)
          /\ ~t.bad => t.r_dwidth \in {2, 4}
          /\ t.r_mdata = table.r_mdata /\ t.r_hash = table.r_hash
        BY <1>1, <2>2 DEF TableType
    <2> HIDE DEF t
    <2>4. \A i \in 0 .. top : Findable(t, i)
        BY <1>1, <2>3, FindableSame
    <2> QED
        BY <1>1, <2>1, <2>3, <2>4 DEF TableInv
<1>4. CASE ~table.bad /\ IsRegister(line)
    <2>1. line[1] = "reg" /\ line[2] \in 0 .. top
        BY <1>4 DEF IsRegister
    <2>2. ASSUME NEW name \in Names \cup {NoName}
          PROVE  /\ named(name) \in TableType(top)
                 /\ named(name).bad = table.bad /\ named(name).r_dwidth = table.r_dwidth
                 /\ named(name).r_hash = table.r_hash
                 /\ named(name).r_mdata[line[2]] = name
                 /\ \A i \in 0 .. top : i # line[2] => named(name).r_mdata[i] = table.r_mdata[i]
        BY <1>1, <2>1 DEF TableType
    <2>3. CASE Len(line) = 2
        <3> DEFINE t == named(NoName)
        <3>1. linedata(table, line) = t
            BY <1>4, <2>1, <2>3 DEF linedata
        <3>2. /\ t \in TableType(top)
              /\ t.bad = table.bad /\ t.r_dwidth = table.r_dwidth
              /\ t.r_hash = table.r_hash
              /\ t.r_mdata[line[2]] = NoName
              /\ \A i \in 0 .. top : i # line[2] => t.r_mdata[i] = table.r_mdata[i]
            BY <2>2
        <3> HIDE DEF t
        <3>3. ASSUME NEW i \in 0 .. top PROVE Findable(t, i)
            <4>1. CASE i = line[2]
                BY <4>1, <3>2 DEF Findable
            <4>2. CASE i # line[2]
                BY <4>2, <3>2, <1>1, FindableSame
            <4> QED
                BY <4>1, <4>2
        <3> QED
            BY <1>1, <3>1, <3>2, <3>3 DEF TableInv
    <2>4. CASE Len(line) # 2
        <3>1. line[3] \in Names
            BY <2>1, <2>4, LineKinds
        <3> DEFINE name == line[3]
                   t == named(name)
                   u == add2hash(t, name, line[2])
        <3>2. linedata(table, line) = u
            BY <1>4, <2>1, <2>4 DEF linedata, IsRegister
        <3>3. /\ t \in TableType(top)
              /\ t.bad = table.bad /\ t.r_dwidth = table.r_dwidth
              /\ t.r_hash = table.r_hash
              /\ t.r_mdata[line[2]] = name
              /\ \A i \in 0 .. top : i # line[2] => t.r_mdata[i] = table.r_mdata[i]
            BY <2>2, <3>1
        <3> HIDE DEF t, name
        <3>4. /\ u \in TableType(top)
              /\ u.bad = t.bad
              /\ u.r_dwidth = t.r_dwidth
              /\ u.r_mdata = t.r_mdata
              /\ \E k \in DOMAIN Bucket(u, name) :
                    Bucket(u, name)[k] = [rh_hash |-> Hash[name], rh_idx |-> line[2]]
              /\ \A other \in Names : \A k \in DOMAIN Bucket(t, other) :
                    /\ k \in DOMAIN Bucket(u, other)
                    /\ Bucket(u, other)[k] = Bucket(t, other)[k]
            BY <3>1, <3>3, <2>1, Add2hashKeeps DEF name
        <3> HIDE DEF u
        <3>5. ASSUME NEW i \in 0 .. top PROVE Findable(u, i)
            <4>1. CASE i = line[2]
                <5>1. u.r_mdata[i] = name
                    BY <4>1, <3>3, <3>4
                <5> QED
                    BY <4>1, <5>1, <3>4 DEF Findable
            <4>2. CASE i # line[2]
                <5>1. u.r_mdata[i] = table.r_mdata[i]
                    BY <4>2, <3>3, <3>4
                <5>2. CASE table.r_mdata[i] = NoName
                    BY <5>1, <5>2 DEF Findable
                <5>3. CASE table.r_mdata[i] # NoName
                    <6> DEFINE other == table.r_mdata[i]
                    <6>1. other \in Names
                        BY <5>3, <1>1 DEF TableType
                    <6>2. Bucket(t, other) = Bucket(table, other)
                        BY <3>3 DEF Bucket
                    <6>3. PICK k \in DOMAIN Bucket(table, other) :
                             /\ Bucket(table, other)[k].rh_hash = Hash[other]
                             /\ Bucket(table, other)[k].rh_idx = i
                        BY <5>3, <1>1 DEF Findable
                    <6>4. k \in DOMAIN Bucket(u, other) /\ Bucket(u, other)[k] = Bucket(table, other)[k]
                        BY <6>1, <6>2, <6>3, <3>4
                    <6> QED
                        BY <5>1, <6>3, <6>4 DEF Findable
                <5> QED
                    BY <5>2, <5>3
            <4> QED
                BY <4>1, <4>2
        <3> QED
            BY <1>1, <3>2, <3>3, <3>4, <3>5 DEF TableInv
    <2> QED
        BY <2>3, <2>4
<1>5. line[1] = "bad" \/ line[1] = "W" \/ IsRegister(line)
    BY LineKinds DEF IsRegister
<1> QED
    BY <1>2, <1>3, <1>4, <1>5


\* f lists the tables after each of the first n lines of a file.
Fills(file, n, f) ==
    f = [m \in 0 .. n |-> IF m = 0 THEN EmptyTable(file) ELSE linedata(f[m - 1], file[m])]

\* filldata's recursion is well defined, however many lines there are.
LEMMA FillsExists ==
    ASSUME NEW file, NEW n \in Nat
    PROVE  \E f : Fills(file, n, f)
<1> DEFINE Bad == {m \in Nat : ~ \E f : Fills(file, m, f)}
<1> SUFFICES ASSUME Bad # {} PROVE FALSE
    OBVIOUS
<1>1. PICK k \in Bad : \A m \in Bad : k <= m
    <2>1. Bad \subseteq Nat
        OBVIOUS
    <2> HIDE DEF Bad
    <2> QED
        BY <2>1, LeastNatural
<1>2. k \in Nat /\ ~ \E f : Fills(file, k, f)
    OBVIOUS
<1>3. CASE k = 0
    <2> DEFINE g == [m \in 0 .. 0 |-> EmptyTable(file)]
    <2>1. g = [m \in 0 .. 0 |-> IF m = 0 THEN EmptyTable(file) ELSE linedata(g[m - 1], file[m])]
        BY \A m \in 0 .. 0 : m = 0
    <2>2. Fills(file, 0, g)
        BY <2>1 DEF Fills
    <2> QED
        BY <1>2, <1>3, <2>2
<1>4. CASE k # 0
    <2>1. k - 1 \in Nat /\ k - 1 \notin Bad
        BY <1>1, <1>2, <1>4
    <2>2. PICK f : Fills(file, k - 1, f)
        BY <2>1
    <2> DEFINE Next(h, m) == IF m = 0 THEN EmptyTable(file) ELSE linedata(h[m - 1], file[m])
               g == [m \in 0 .. k |-> Next(f, m)]
    <2>3. \A m \in 0 .. k - 1 : f[m] = Next(f, m)
        BY <2>2 DEF Fills
    <2>4. \A m \in 0 .. k - 1 : g[m] = f[m]
        <3>1. \A m \in 0 .. k - 1 : m \in 0 .. k
            BY <1>2
        <3> HIDE DEF Next
        <3> QED
            BY <2>3, <3>1
    <2>5. \A m \in 0 .. k : Next(f, m) = Next(g, m)
        <3> SUFFICES ASSUME NEW m \in 0 .. k PROVE Next(f, m) = Next(g, m)
            OBVIOUS
        <3>1. m # 0 => m - 1 \in 0 .. k - 1
            BY <1>2
        <3>2. m # 0 => g[m - 1] = f[m - 1]
            BY <2>4, <3>1
        <3> HIDE DEF g
        <3> QED
            BY <3>2
    <2>6. g = [m \in 0 .. k |-> Next(g, m)]
        <3> HIDE DEF Next
        <3> QED
            BY <2>5
    <2>7. Fills(file, k, g)
        BY <2>6, Zenon DEF Fills
    <2> QED
        BY <1>2, <2>7
<1> QED
    BY <1>3, <1>4

\* The table rnmparse allocates has no name to find.
LEMMA EmptyTableSound ==
    ASSUME NEW file \in Seq(RnmLine)
    PROVE  TableInv(EmptyTable(file), maxoffs(file))
<1> DEFINE top == maxoffs(file)
           t == EmptyTable(file)
<1>1. top \in Nat
    BY MaxoffsBounds
<1>2. <<>> \in Seq(Entry(top))
    OBVIOUS
<1> HIDE DEF top
<1>3. t \in TableType(top) /\ t.r_dwidth = 2 /\ \A i \in 0 .. top : t.r_mdata[i] = NoName
    BY <1>1, <1>2 DEF EmptyTable, TableType, top
<1> HIDE DEF t
<1>4. \A i \in 0 .. top : Findable(t, i)
    BY <1>3 DEF Findable
<1>5. TableInv(t, top)
    BY <1>3, <1>4 DEF TableInv
<1> QED
    BY <1>5 DEF t, top

\* Whatever a file contains, the table filldata makes of it has the size that
\* was allocated, a width of two or four bytes unless the file was refused, and
\* every named register in the hash table.
LEMMA FilldataSound ==
    ASSUME NEW file \in Seq(RnmLine)
    PROVE  TableInv(filldata(file), maxoffs(file))
<1> DEFINE top == maxoffs(file)
           last == Len(file)
<1>1. last \in Nat /\ DOMAIN file = 1 .. last /\ top \in Nat
    BY MaxoffsBounds
<1>2. PICK f : Fills(file, last, f) /\ filldata(file) = f[last]
    <2> DEFINE F == CHOOSE f : Fills(file, Len(file), f)
    <2>1. filldata(file) = F[Len(file)]
        BY DEF filldata, Fills
    <2>2. Fills(file, Len(file), F)
        BY <1>1, FillsExists
    <2> HIDE DEF F
    <2> QED
        BY <2>1, <2>2
<1> DEFINE Bad == {m \in 0 .. last : ~TableInv(f[m], top)}
<1>3. \A m \in 0 .. last :
         f[m] = IF m = 0 THEN EmptyTable(file) ELSE linedata(f[m - 1], file[m])
    BY <1>2 DEF Fills
<1> SUFFICES ASSUME Bad # {} PROVE FALSE
    <2>1. last \in 0 .. last
        BY <1>1
    <2> QED
        BY <1>2, <2>1
<1> HIDE DEF last
<1>4. PICK k \in Bad : \A m \in Bad : k <= m
    <2>1. Bad \subseteq Nat
        BY <1>1
    <2> HIDE DEF Bad
    <2> QED
        BY <2>1, LeastNatural
<1>5. k \in 0 .. last /\ ~TableInv(f[k], top)
    OBVIOUS
<1>6. CASE k = 0
    BY <1>3, <1>5, <1>6, EmptyTableSound
<1>7. CASE k # 0
    <2>1. k - 1 \in 0 .. last /\ k - 1 \notin Bad /\ k \in DOMAIN file
        BY <1>1, <1>4, <1>5, <1>7
    <2>2. TableInv(f[k - 1], top)
        BY <2>1
    <2>3. file[k] \in RnmLine /\ (IsRegister(file[k]) => file[k][2] \in 0 .. top)
        BY <2>1, MaxoffsBounds
    <2>4. f[k] = linedata(f[k - 1], file[k])
        BY <1>3, <1>5, <1>7
    <2> HIDE DEF Bad, top
    <2>5. TableInv(linedata(f[k - 1], file[k]), top)
        BY <1>1, <2>2, <2>3, LinedataKeeps
    <2> QED
        BY <1>5, <2>4, <2>5
<1> QED
    BY <1>6, <1>7


\* rnmsearch finds every name that a register carries, and what it finds carries
\* the name, whatever shares the bucket.
LEMMA RnmsearchFinds ==
    ASSUME NEW top \in Nat, NEW table, TableInv(table, top), NEW name \in Names
    PROVE  /\ rnmsearch(table, name) \in Int
           /\ rnmsearch(table, name) >= 0 =>
                /\ rnmsearch(table, name) \in 0 .. top
                /\ table.r_mdata[rnmsearch(table, name)] = name
           /\ \A i \in 0 .. top : table.r_mdata[i] = name => rnmsearch(table, name) >= 0
<1> DEFINE bucket == Bucket(table, name)
           hits == {k \in DOMAIN bucket : /\ bucket[k].rh_hash = Hash[name]
                                          /\ table.r_mdata[bucket[k].rh_idx] = name}
           found == rnmsearch(table, name)
<1>1. found = IF hits = {} THEN -1 ELSE bucket[Min(hits)].rh_idx
    BY DEF rnmsearch, Bucket
<1>2. /\ table.r_hash \in [0 .. RNM_HASH_SIZE - 1 -> Seq(Entry(top))]
      /\ \A i \in 0 .. top : Findable(table, i)
    BY DEF TableInv, TableType
<1>3. bucket \in Seq(Entry(top))
    BY <1>2, BucketInRange DEF Bucket
<1>4. \A k \in DOMAIN bucket : bucket[k].rh_idx \in 0 .. top
    <2> SUFFICES ASSUME NEW k \in DOMAIN bucket PROVE bucket[k].rh_idx \in 0 .. top
        OBVIOUS
    <2> HIDE DEF bucket
    <2>1. bucket[k] \in Entry(top)
        BY <1>3
    <2> QED
        BY <2>1 DEF Entry
<1>5. hits \subseteq Nat /\ hits \subseteq DOMAIN bucket
    <2> HIDE DEF bucket
    <2> QED
        BY <1>3
<1>6. ASSUME hits # {} PROVE Min(hits) \in hits
    <2> HIDE DEF hits
    <2>1. \E x \in hits : \A y \in hits : x <= y
        BY <1>5, <1>6, LeastNatural
    <2> QED
        BY <2>1 DEF Min
<1>7. ASSUME NEW i \in 0 .. top, table.r_mdata[i] = name PROVE hits # {}
    <2>1. name # NoName
        BY RnmAssumption
    <2>2. PICK k \in DOMAIN bucket : bucket[k].rh_hash = Hash[name] /\ bucket[k].rh_idx = i
        BY <1>2, <1>7, <2>1 DEF Findable
    <2> HIDE DEF bucket
    <2>3. k \in hits
        BY <2>2, <1>7
    <2> QED
        BY <2>3
<1>8. CASE hits = {}
    <2>1. found = -1
        BY <1>1, <1>8
    <2> HIDE DEF hits, found
    <2> QED
        BY <2>1, <1>7, <1>8 DEF found
<1>9. CASE hits # {}
    <2>1. found = bucket[Min(hits)].rh_idx
        BY <1>1, <1>9
    <2>2. table.r_mdata[bucket[Min(hits)].rh_idx] = name
        BY <1>6, <1>9
    <2>3. bucket[Min(hits)].rh_idx \in 0 .. top
        <3> HIDE DEF hits, bucket
        <3> QED
            BY <1>4, <1>5, <1>6, <1>9
    <2> HIDE DEF hits, bucket, found
    <2>4. found \in 0 .. top /\ table.r_mdata[found] = name
        BY <2>1, <2>2, <2>3
    <2> QED
        BY <2>4 DEF found
<1> QED
    BY <1>8, <1>9

\* What a browser relies on in the table it keeps.
TableSound(table) ==
    /\ table.r_len \in Nat
    /\ TableInv(table, table.r_len)
    /\ table.r_dwidth \in {2, 4}
    /\ DOMAIN table.r_mdata = 0 .. table.r_len
    /\ 4 * (table.r_len + 1) <= MapLen

\* Every table that rnmparse returns is sound.
LEMMA TablesSound ==
    ASSUME NEW table \in Tables
    PROVE  TableSound(table)
<1>1. PICK file \in Versions : table = rnmparse(file) /\ table \notin {NoRnm, Aborts}
    BY DEF Tables
<1>2. file \in Seq(RnmLine) /\ 4 * (maxoffs(file) + 1) <= MapLen
    BY BrowserAssumption
<1>3. table = filldata(file) /\ ~table.bad
    BY <1>1 DEF rnmparse
<1>4. TableInv(table, maxoffs(file)) /\ maxoffs(file) \in Nat
    BY <1>2, <1>3, FilldataSound, MaxoffsBounds
<1>5. table \in TableType(maxoffs(file)) /\ table.r_dwidth \in {2, 4}
    BY <1>3, <1>4 DEF TableInv
<1>6. table.r_len = maxoffs(file) /\ DOMAIN table.r_mdata = 0 .. maxoffs(file)
    BY <1>5 DEF TableType
<1> QED
    BY <1>2, <1>4, <1>5, <1>6 DEF TableSound

-------------------------------------------------------------------------------
(***************************************************************************)
(* Pages                                                                   *)
(***************************************************************************)
\* A row is sixteen bytes in either width, and the map is a number q of rows.
LEMMA Geometry ==
    ASSUME rows \in RowCounts
    PROVE  \E q \in Nat :
             /\ rows \in Nat /\ rows >= 4 /\ rows <= q
             /\ MapLen = 16 * q /\ MapLen \div 2 = 8 * q /\ MapLen \div 4 = 4 * q
             /\ Columns(2) = 8 /\ Columns(4) = 4
             /\ brarraylen(2) = 8 * rows /\ brarraylen(4) = 4 * rows
             /\ broffmax(2) = 8 * (q - rows) /\ broffmax(4) = 4 * (q - rows)
<1>1. MapLen \in Nat /\ MapLen % 16 = 0 /\ rows \in Nat /\ rows >= 4 /\ 16 * rows <= MapLen
    BY BrowserAssumption
<1>2. PICK q \in Nat : MapLen = 16 * q
    <2>1. MapLen \div 16 \in Nat /\ MapLen = 16 * (MapLen \div 16)
        BY <1>1
    <2> QED
        BY <2>1
<1>3. MapLen \div 2 = 8 * q /\ MapLen \div 4 = 4 * q /\ rows <= q
    BY <1>1, <1>2
<1>4. Columns(2) = 8 /\ Columns(4) = 4
    BY DEF Columns
<1>5. brarraylen(2) = 8 * rows /\ brarraylen(4) = 4 * rows
    BY <1>1, <1>4 DEF brarraylen
<1>6. broffmax(2) = 8 * (q - rows) /\ broffmax(4) = 4 * (q - rows)
    BY <1>1, <1>3, <1>5 DEF broffmax
<1> QED
    BY <1>1, <1>2, <1>3, <1>4, <1>5, <1>6

\* Wherever it is called, brcheckpos leaves the page on the map and at the start
\* of a row; it leaves the selection on the page when it was at most a row off,
\* and moves nothing that was in place.
LEMMA CheckposLands ==
    ASSUME rows \in RowCounts, NEW dwidth \in {2, 4}, NEW sel \in Int, NEW offs \in Int
    PROVE  LET p == brcheckpos(sel, offs, dwidth)
           IN  /\ p.sel \in Int /\ p.offs \in Int
               /\ p.offs \in 0 .. broffmax(dwidth)
               /\ offs % Columns(dwidth) = 0 => p.offs % Columns(dwidth) = 0
               /\ sel \in 0 - Columns(dwidth) .. brarraylen(dwidth) + Columns(dwidth) - 1 =>
                    p.sel \in 0 .. brarraylen(dwidth) - 1
               /\ sel \in 0 .. brarraylen(dwidth) - 1 /\ offs \in 0 .. broffmax(dwidth) =>
                    p = At(sel, offs)
<1>1. PICK q \in Nat :
             /\ rows \in Nat /\ rows >= 4 /\ rows <= q
             /\ Columns(2) = 8 /\ Columns(4) = 4
             /\ brarraylen(2) = 8 * rows /\ brarraylen(4) = 4 * rows
             /\ broffmax(2) = 8 * (q - rows) /\ broffmax(4) = 4 * (q - rows)
    BY Geometry
<1> DEFINE p == brcheckpos(sel, offs, dwidth)
           s == p.sel
           o == p.offs
           c == Columns(dwidth)
           a == brarraylen(dwidth)
           m == broffmax(dwidth)
           Landed ==
             /\ s \in Int /\ o \in Int
             /\ o \in 0 .. m
             /\ offs % c = 0 => o % c = 0
             /\ sel \in 0 - c .. a + c - 1 => s \in 0 .. a - 1
             /\ sel \in 0 .. a - 1 /\ offs \in 0 .. m => p = At(sel, offs)
<1>2. \/ /\ s = 0 /\ o = 0 /\ p = At(0, 0)
         /\ \/ sel < 0 /\ offs - c < 0
            \/ offs < 0
      \/ /\ s = a - 1 /\ o = m /\ p = At(a - 1, m)
         /\ \/ sel >= a /\ offs + c > m
            \/ offs > m
      \/ sel < 0 /\ s = sel + c /\ o = offs - c /\ o >= 0 /\ ~(o > m)
      \/ sel >= 0 /\ sel >= a /\ s = sel - c /\ o = offs + c /\ o >= 0 /\ ~(o > m)
      \/ sel >= 0 /\ ~(sel >= a) /\ s = sel /\ o = offs /\ o >= 0 /\ ~(o > m) /\ p = At(sel, offs)
    BY <1>1 DEF brcheckpos, Start, End, At
<1>3. c \in {4, 8} /\ a = c * rows /\ m = c * (q - rows)
    BY <1>1
<1> HIDE DEF p, s, o, c, a, m
<1>4. ASSUME c = 8 PROVE Landed
    BY <1>1, <1>2, <1>3, <1>4
<1>5. ASSUME c = 4 PROVE Landed
    BY <1>1, <1>2, <1>3, <1>5
<1> QED
    <2>1. Landed
        BY <1>3, <1>4, <1>5
    <2> QED
        BY <2>1 DEF p, s, o, c, a, m


\* Changing the width puts the page at the start of a row and on the map, keeps
\* a selection on the page that was on it, and only scales a page that was on
\* the map.
LEMMA ToggledLands ==
    ASSUME rows \in RowCounts, NEW dwidth \in {2, 4}, NEW sel \in Int, NEW offs \in Int
    PROVE  LET p == Toggled(At(sel, offs), dwidth)
               other == OtherWidth(dwidth)
           IN  /\ other \in {2, 4} /\ OtherWidth(other) = dwidth
               /\ p = At(p.sel, p.offs)
               /\ p.sel \in Int /\ p.offs \in Int
               /\ p.offs \in 0 .. broffmax(other)
               /\ offs % Columns(dwidth) = 0 => p.offs % Columns(other) = 0
               /\ sel \in 0 .. brarraylen(dwidth) - 1 => p.sel \in 0 .. brarraylen(other) - 1
               /\ sel \in 0 .. brarraylen(dwidth) - 1 /\ offs \in 0 .. broffmax(dwidth) =>
                    p = At(Scaled(sel, dwidth), Scaled(offs, dwidth))
<1>1. PICK q \in Nat :
             /\ rows \in Nat /\ rows >= 4 /\ rows <= q
             /\ Columns(2) = 8 /\ Columns(4) = 4
             /\ brarraylen(2) = 8 * rows /\ brarraylen(4) = 4 * rows
             /\ broffmax(2) = 8 * (q - rows) /\ broffmax(4) = 4 * (q - rows)
    BY Geometry
<1> DEFINE other == OtherWidth(dwidth)
           s == Scaled(sel, dwidth)
           o == Scaled(offs, dwidth)
           p == brcheckpos(s, o, other)
<1>2. other \in {2, 4} /\ OtherWidth(other) = dwidth /\ other # dwidth
    BY DEF OtherWidth
<1>3. Toggled(At(sel, offs), dwidth) = p
    BY DEF Toggled, At
<1>4. s \in Int /\ o \in Int
    BY DEF Scaled
<1>5. /\ offs % Columns(dwidth) = 0 => o % Columns(other) = 0
      /\ sel \in 0 .. brarraylen(dwidth) - 1 => s \in 0 .. brarraylen(other) - 1
      /\ offs \in 0 .. broffmax(dwidth) => o \in 0 .. broffmax(other)
    <2>1. CASE dwidth = 2
        <3>1. other = 4 /\ s = sel \div 2 /\ o = offs \div 2
            BY <2>1 DEF OtherWidth, Scaled
        <3> HIDE DEF s, o, other
        <3>2. offs % 8 = 0 => (offs \div 2) % 4 = 0
            OBVIOUS
        <3>3. sel \in 0 .. 8 * rows - 1 => sel \div 2 \in 0 .. 4 * rows - 1
            BY <1>1
        <3>4. offs \in 0 .. 8 * (q - rows) => offs \div 2 \in 0 .. 4 * (q - rows)
            BY <1>1
        <3> QED
            BY <1>1, <2>1, <3>1, <3>2, <3>3, <3>4
    <2>2. CASE dwidth = 4
        <3>1. other = 2 /\ s = sel * 2 /\ o = offs * 2
            BY <2>2 DEF OtherWidth, Scaled
        <3> HIDE DEF s, o, other
        <3>2. offs % 4 = 0 => (offs * 2) % 8 = 0
            OBVIOUS
        <3> QED
            BY <1>1, <2>2, <3>1, <3>2
    <2> QED
        BY <2>1, <2>2
<1> HIDE DEF s, o, other
<1>6. sel \in 0 .. brarraylen(dwidth) - 1 => s \in 0 - Columns(other) .. brarraylen(other) + Columns(other) - 1
    BY <1>1, <1>2, <1>4, <1>5
<1>7. /\ p.sel \in Int /\ p.offs \in Int
      /\ p.offs \in 0 .. broffmax(other)
      /\ o % Columns(other) = 0 => p.offs % Columns(other) = 0
      /\ s \in 0 - Columns(other) .. brarraylen(other) + Columns(other) - 1 =>
           p.sel \in 0 .. brarraylen(other) - 1
      /\ s \in 0 .. brarraylen(other) - 1 /\ o \in 0 .. broffmax(other) => p = At(s, o)
    BY <1>2, <1>4, CheckposLands
<1>8. p = At(p.sel, p.offs)
    BY DEF brcheckpos, Start, End, At
<1> HIDE DEF p
<1>9. /\ other \in {2, 4} /\ OtherWidth(other) = dwidth
      /\ p = At(p.sel, p.offs)
      /\ p.sel \in Int /\ p.offs \in Int
      /\ p.offs \in 0 .. broffmax(other)
      /\ offs % Columns(dwidth) = 0 => p.offs % Columns(other) = 0
      /\ sel \in 0 .. brarraylen(dwidth) - 1 => p.sel \in 0 .. brarraylen(other) - 1
      /\ sel \in 0 .. brarraylen(dwidth) - 1 /\ offs \in 0 .. broffmax(dwidth) => p = At(s, o)
    BY <1>2, <1>5, <1>6, <1>7, <1>8
<1> QED
    BY <1>3, <1>9 DEF s, o, other

\* The page and the selection that brjump makes for byte v.
JumpPage(v) == LET reg == v \div br_dwidth
                   page == (reg \div 16) * 16
                   over == page - broffmax(br_dwidth)
                   ncols == Columns(br_dwidth)
               IN  page - IF over > 0 THEN ((over + ncols - 1) \div ncols) * ncols ELSE 0

\* brjump keeps the page on the map and the register of byte v on the page.
LEMMA JumpLands ==
    ASSUME rows \in RowCounts, br_dwidth \in {2, 4}, NEW v \in 0 .. MapLen - 1
    PROVE  /\ brjump(v) <=> MoveTo(At(v \div br_dwidth - JumpPage(v), JumpPage(v)))
           /\ v \div br_dwidth \in Nat
           /\ JumpPage(v) \in 0 .. broffmax(br_dwidth)
           /\ JumpPage(v) % Columns(br_dwidth) = 0
           /\ v \div br_dwidth - JumpPage(v) \in 0 .. brarraylen(br_dwidth) - 1
<1>1. PICK q \in Nat :
             /\ rows \in Nat /\ rows >= 4 /\ rows <= q
             /\ MapLen = 16 * q
             /\ Columns(2) = 8 /\ Columns(4) = 4
             /\ brarraylen(2) = 8 * rows /\ brarraylen(4) = 4 * rows
             /\ broffmax(2) = 8 * (q - rows) /\ broffmax(4) = 4 * (q - rows)
    BY Geometry
<1> DEFINE reg == v \div br_dwidth
           page == (reg \div 16) * 16
           m == broffmax(br_dwidth)
           over == page - m
           c == Columns(br_dwidth)
           back == IF over > 0 THEN ((over + c - 1) \div c) * c ELSE 0
           a == brarraylen(br_dwidth)
<1>2. reg \in Nat /\ c \in {4, 8} /\ a = c * rows /\ m = c * (q - rows) /\ reg < c * q
    <2>1. CASE br_dwidth = 2
        BY <1>1, <2>1
    <2>2. CASE br_dwidth = 4
        BY <1>1, <2>2
    <2> QED
        BY <2>1, <2>2
<1>3. JumpPage(v) = page - back
    BY DEF JumpPage
<1> HIDE DEF reg, m, c, a
<1>4. page \in Nat /\ page <= reg /\ reg - page <= 15 /\ page % 8 = 0 /\ page % 4 = 0
    BY <1>2
<1> HIDE DEF page
<1>5. over > 0 => page - back = m
    <2>1. ASSUME over > 0 PROVE back = over
        <3>1. CASE c = 8
            <4>1. over \in Int /\ over % 8 = 0
                BY <1>1, <1>2, <1>4, <3>1
            <4> HIDE DEF over
            <4>2. ((over + 8 - 1) \div 8) * 8 = over
                BY <4>1
            <4> QED
                BY <2>1, <3>1, <4>2
        <3>2. CASE c = 4
            <4>1. over \in Int /\ over % 4 = 0
                BY <1>1, <1>2, <1>4, <3>2
            <4> HIDE DEF over
            <4>2. ((over + 4 - 1) \div 4) * 4 = over
                BY <4>1
            <4> QED
                BY <2>1, <3>2, <4>2
        <3> QED
            BY <1>2, <3>1, <3>2
    <2> HIDE DEF back
    <2> QED
        BY <1>2, <1>4, <2>1
<1>6. ~(over > 0) => page - back = page
    BY <1>4
<1>7. m % c = 0
    <2>1. CASE c = 8
        BY <1>1, <1>2, <2>1
    <2>2. CASE c = 4
        BY <1>1, <1>2, <2>2
    <2> QED
        BY <1>2, <2>1, <2>2
<1> DEFINE o == page - back
<1>8. over > 0 \/ page <= m
    BY <1>1, <1>2, <1>4
<1>9. (o = m /\ page > m) \/ (o = page /\ page <= m)
    <2>1. over > 0 => page > m
        BY <1>1, <1>2, <1>4
    <2>2. over > 0 => o = m
        BY <1>5
    <2>3. ~(over > 0) => o = page
        BY <1>6
    <2> HIDE DEF over, o
    <2> QED
        BY <1>8, <2>1, <2>2, <2>3
<1> HIDE DEF back, o
<1>10. o \in 0 .. m /\ o % c = 0 /\ reg - o \in 0 .. a - 1
    <2>1. CASE c = 8
        BY <1>1, <1>2, <1>4, <1>7, <1>9, <2>1
    <2>2. CASE c = 4
        BY <1>1, <1>2, <1>4, <1>7, <1>9, <2>2
    <2> QED
        BY <1>2, <2>1, <2>2
<1>11. reg - page + back = reg - o
    <2>1. back \in Int
        <3>1. over \in Int /\ c \in Int
            BY <1>1, <1>2, <1>4
        <3> HIDE DEF over
        <3> QED
            BY <3>1, <1>2 DEF back
    <2> QED
        BY <1>2, <1>4, <2>1 DEF o
<1>12. brjump(v) <=> MoveTo(At(reg - page + back, page - back))
    BY DEF brjump, reg, page, back, c, m
<1> QED
    BY <1>2, <1>3, <1>10, <1>11, <1>12 DEF o, reg, m, c, a


-------------------------------------------------------------------------------
(***************************************************************************)
(* The invariant                                                           *)
(***************************************************************************)
\* br_dwshift says which of the two widths, the one shown and the file's own, is
\* the wider.
ShiftFits == br_dwshift = ShiftFor(br_dwidth, rnm)

\* A page starts at the start of a row: brchmod may halve and double br_offs.
PageAtRow == br_offs % Columns(br_dwidth) = 0

\* A write goes to the selected register or lies inside the map, unless a number
\* behind the end of the map was given for it.
Bounded(w) ==
    \/ w[1] \in 0 .. MapLen - w[2]
    \/ w[3] = "number" /\ w[1] >= MapLen

WroteSelected ==
    wrote # <<>> =>
        \/ wrote = <<Selected * br_dwidth, br_dwidth, "selection">>
        \/ Bounded(wrote)

IInv ==
    /\ BrowserTypeOK
    /\ ShiftFits
    /\ PageAtRow
    /\ br_topoffs <= MapLen
    /\ WroteSelected

\* The table of a browser with names is sound.
LEMMA TableIsSound ==
    ASSUME BrowserTypeOK, HasNames
    PROVE  TableSound(Table) /\ rnm = <<Table>> /\ Table \in Tables
<1>1. PICK table \in Tables : rnm = <<table>>
    BY DEF BrowserTypeOK, HasNames
<1>2. Table = table
    BY <1>1 DEF Table
<1> QED
    BY <1>1, <1>2, TablesSound

\* The shift takes one of three values, zero when the widths agree.
LEMMA ShiftCases ==
    ASSUME NEW dwidth \in {2, 4}, NEW names \in {<<>>} \cup {<<table>> : table \in Tables}
    PROVE  /\ ShiftFor(dwidth, names) \in {-1, 0, 1}
           /\ names = <<>> => ShiftFor(dwidth, names) = 0
           /\ names # <<>> =>
                /\ names[1].r_dwidth \in {2, 4}
                /\ (ShiftFor(dwidth, names) = 0) <=> (dwidth = names[1].r_dwidth)
                /\ (ShiftFor(dwidth, names) = 1) <=> (dwidth < names[1].r_dwidth)
<1>1. CASE names = <<>>
    BY <1>1 DEF ShiftFor
<1>2. CASE names # <<>>
    <2>1. PICK table \in Tables : names = <<table>>
        BY <1>2
    <2>2. names[1].r_dwidth \in {2, 4}
        BY <2>1, TablesSound DEF TableSound
    <2> DEFINE own == names[1].r_dwidth
    <2>3. ShiftFor(dwidth, names) = CASE dwidth > own -> -1 [] dwidth < own -> 1 [] OTHER -> 0
        BY <1>2 DEF ShiftFor
    <2> HIDE DEF own
    <2>4. own \in {2, 4}
        BY <2>2 DEF own
    <2>5. CASE dwidth = own
        BY <1>2, <2>3, <2>4, <2>5 DEF own
    <2>6. CASE dwidth = 2 /\ own = 4
        BY <1>2, <2>3, <2>4, <2>6 DEF own
    <2>7. CASE dwidth = 4 /\ own = 2
        BY <1>2, <2>3, <2>4, <2>7 DEF own
    <2> QED
        BY <2>4, <2>5, <2>6, <2>7
<1> QED
    BY <1>1, <1>2

\* A browser starts at the start of the map, in its card's own width.
LEMMA InitIInv == BrowserInit => IInv
<1> SUFFICES ASSUME BrowserInit PROVE IInv
    OBVIOUS
<1>1. PICK names \in {<<>>} \cup {<<table>> : table \in Tables} : browsernew(names)
    BY DEF BrowserInit
<1>2. /\ rows \in RowCounts /\ disk \in [Paths -> Versions] /\ g_rnms = <<>>
      /\ wrote = <<>> /\ running = TRUE
    BY DEF BrowserInit
<1>3. rnm = names /\ br_sel = 0 /\ br_offs = 0 /\ br_dwshift = 0
    BY <1>1 DEF browsernew
<1>4. CASE names = <<>>
    <2>1. br_dwidth = 2 /\ br_topoffs = UnnamedTop
        BY <1>1, <1>4 DEF browsernew
    <2>2. br_topoffs \in Nat /\ br_topoffs <= MapLen
        BY <2>1, BrowserAssumption
    <2>3. 0 % Columns(br_dwidth) = 0
        BY <2>1 DEF Columns
    <2>4. ShiftFor(br_dwidth, rnm) = 0
        BY <1>3, <1>4 DEF ShiftFor
    <2>5. g_rnms \in Seq([path : Paths, rnm : Tables])
        BY <1>2
    <2> QED
        BY <1>2, <1>3, <1>4, <2>1, <2>2, <2>3, <2>4, <2>5
           DEF IInv, BrowserTypeOK, ShiftFits, PageAtRow, WroteSelected
<1>5. CASE names # <<>>
    <2>1. PICK table \in Tables : names = <<table>>
        BY <1>5
    <2>2. br_dwidth = table.r_dwidth /\ br_topoffs = table.r_len * table.r_dwidth
        BY <1>1, <1>5, <2>1 DEF browsernew
    <2>3. table.r_dwidth \in {2, 4} /\ table.r_len \in Nat /\ 4 * (table.r_len + 1) <= MapLen
        BY TablesSound DEF TableSound
    <2>4. br_topoffs \in Nat /\ br_topoffs <= MapLen
        <3>1. MapLen \in Nat
            BY BrowserAssumption
        <3>2. CASE table.r_dwidth = 2
            BY <2>2, <2>3, <3>1, <3>2
        <3>3. CASE table.r_dwidth = 4
            BY <2>2, <2>3, <3>1, <3>3
        <3> QED
            BY <2>3, <3>2, <3>3
    <2>5. 0 % Columns(br_dwidth) = 0
        BY <2>2, <2>3 DEF Columns
    <2>6. ShiftFor(br_dwidth, rnm) = 0
        BY <1>3, <1>5, <2>1, <2>2, <2>3, ShiftCases
    <2>7. g_rnms \in Seq([path : Paths, rnm : Tables])
        BY <1>2
    <2> QED
        BY <1>2, <1>3, <2>1, <2>2, <2>3, <2>4, <2>5, <2>6, <2>7
           DEF IInv, BrowserTypeOK, ShiftFits, PageAtRow, WroteSelected
<1> QED
    BY <1>4, <1>5

\* A key that moves the cursor keeps the invariant when it lands at the start of
\* a row.
LEMMA MoveKeeps ==
    ASSUME IInv, NEW sel \in Int, NEW offs \in Nat, offs % Columns(br_dwidth) = 0,
           MoveTo(At(sel, offs))
    PROVE  /\ IInv' /\ br_sel' = sel /\ br_offs' = offs /\ br_dwidth' = br_dwidth
           /\ rows' = rows /\ wrote' = <<>>
<1>1. /\ br_sel' = sel /\ br_offs' = offs /\ wrote' = <<>>
      /\ UNCHANGED <<br_dwidth, br_dwshift, rnm, rows, disk, g_rnms, running, br_topoffs>>
    BY DEF MoveTo, Quiet, At
<1>2. BrowserTypeOK'
    BY <1>1 DEF IInv, BrowserTypeOK
<1>3. ShiftFits' /\ WroteSelected'
    BY <1>1 DEF IInv, ShiftFits, ShiftFor, WroteSelected
<1>4. PageAtRow'
    BY <1>1 DEF PageAtRow, Columns
<1>5. br_topoffs' <= MapLen
    BY <1>1 DEF IInv
<1> QED
    BY <1>1, <1>2, <1>3, <1>4, <1>5 DEF IInv

\* brcheckpos after a key that moved the page by whole rows.
LEMMA CheckedKeeps ==
    ASSUME IInv, NEW sel \in Int, NEW offs \in Int, offs % Columns(br_dwidth) = 0,
           Checked(sel, offs)
    PROVE  /\ IInv' /\ rows' = rows /\ br_dwidth' = br_dwidth /\ wrote' = <<>>
           /\ br_offs' \in 0 .. broffmax(br_dwidth)
           /\ sel \in 0 - Columns(br_dwidth) .. brarraylen(br_dwidth) + Columns(br_dwidth) - 1 =>
                br_sel' \in 0 .. brarraylen(br_dwidth) - 1
<1> DEFINE p == brcheckpos(sel, offs, br_dwidth)
<1>1. rows \in RowCounts /\ br_dwidth \in {2, 4}
    BY DEF IInv, BrowserTypeOK
<1>2. /\ p.sel \in Int /\ p.offs \in Int
      /\ p.offs \in 0 .. broffmax(br_dwidth)
      /\ p.offs % Columns(br_dwidth) = 0
      /\ sel \in 0 - Columns(br_dwidth) .. brarraylen(br_dwidth) + Columns(br_dwidth) - 1 =>
           p.sel \in 0 .. brarraylen(br_dwidth) - 1
    BY <1>1, CheckposLands
<1>3. p = At(p.sel, p.offs)
    BY DEF brcheckpos, Start, End, At
<1>4. MoveTo(p)
    BY DEF Checked
<1> HIDE DEF p
<1>5. p.offs \in Nat
    BY <1>2
<1>6. /\ IInv' /\ br_sel' = p.sel /\ br_offs' = p.offs /\ br_dwidth' = br_dwidth
      /\ rows' = rows /\ wrote' = <<>>
    BY <1>2, <1>3, <1>4, <1>5, MoveKeeps
<1> QED
    BY <1>2, <1>6

\* The scrolling keys move the selection by at most a row, or the page by a
\* screenful.
LEMMA ScrollKeys ==
    ASSUME IInv, brleft \/ brright \/ brup \/ brdn \/ brpgup \/ brpgdn
    PROVE  /\ IInv' /\ rows' = rows /\ br_dwidth' = br_dwidth /\ wrote' = <<>>
           /\ br_offs' \in 0 .. broffmax(br_dwidth)
           /\ Visible => br_sel' \in 0 .. brarraylen(br_dwidth) - 1
<1> DEFINE c == Columns(br_dwidth)
           a == brarraylen(br_dwidth)
<1>1. /\ br_sel \in Int /\ br_offs \in Nat /\ br_offs % c = 0 /\ br_dwidth \in {2, 4}
      /\ rows \in RowCounts
    BY DEF IInv, BrowserTypeOK, PageAtRow
<1>2. rows \in Nat /\ rows >= 4 /\ c \in {4, 8} /\ a = c * rows /\ a \in Nat
    BY <1>1, Geometry
<1>3. (br_offs + a) % c = 0 /\ (br_offs - a) % c = 0
    <2> HIDE DEF c, a
    <2>1. CASE c = 8
        BY <1>1, <1>2, <2>1
    <2>2. CASE c = 4
        BY <1>1, <1>2, <2>2
    <2> QED
        BY <1>2, <2>1, <2>2
<1>4. Visible <=> br_sel \in 0 .. a - 1
    BY DEF Visible
<1>5. ASSUME NEW sel \in Int, NEW offs \in Int, offs % c = 0, Checked(sel, offs),
             Visible => sel \in 0 - c .. a + c - 1
      PROVE  /\ IInv' /\ rows' = rows /\ br_dwidth' = br_dwidth /\ wrote' = <<>>
             /\ br_offs' \in 0 .. broffmax(br_dwidth)
             /\ Visible => br_sel' \in 0 .. a - 1
    BY <1>5, CheckedKeeps
<1> HIDE DEF c, a
<1>6. CASE brleft
    <2>1. Checked(br_sel - 1, br_offs)
        BY <1>6 DEF brleft
    <2>2. br_sel - 1 \in Int /\ (Visible => br_sel - 1 \in 0 - c .. a + c - 1)
        BY <1>1, <1>2, <1>4
    <2> QED
        BY <1>1, <1>5, <2>1, <2>2 DEF a
<1>7. CASE brright
    <2>1. Checked(br_sel + 1, br_offs)
        BY <1>7 DEF brright
    <2>2. br_sel + 1 \in Int /\ (Visible => br_sel + 1 \in 0 - c .. a + c - 1)
        BY <1>1, <1>2, <1>4
    <2> QED
        BY <1>1, <1>5, <2>1, <2>2 DEF a
<1>8. CASE brup
    <2>1. Checked(br_sel - c, br_offs)
        BY <1>8 DEF brup, c
    <2>2. br_sel - c \in Int /\ (Visible => br_sel - c \in 0 - c .. a + c - 1)
        BY <1>1, <1>2, <1>4
    <2> QED
        BY <1>1, <1>5, <2>1, <2>2 DEF a
<1>9. CASE brdn
    <2>1. Checked(br_sel + c, br_offs)
        BY <1>9 DEF brdn, c
    <2>2. br_sel + c \in Int /\ (Visible => br_sel + c \in 0 - c .. a + c - 1)
        BY <1>1, <1>2, <1>4
    <2> QED
        BY <1>1, <1>5, <2>1, <2>2 DEF a
<1>10. Visible => br_sel \in 0 - c .. a + c - 1
    BY <1>1, <1>2, <1>4
<1>11. CASE brpgup
    <2>1. Checked(br_sel, br_offs - a)
        BY <1>11 DEF brpgup, a
    <2>2. br_offs - a \in Int
        BY <1>1, <1>2
    <2> QED
        BY <1>1, <1>3, <1>5, <1>10, <2>1, <2>2 DEF a
<1>12. CASE brpgdn
    <2>1. Checked(br_sel, br_offs + a)
        BY <1>12 DEF brpgdn, a
    <2>2. br_offs + a \in Int
        BY <1>1, <1>2
    <2> QED
        BY <1>1, <1>3, <1>5, <1>10, <2>1, <2>2 DEF a
<1> QED
    BY <1>6, <1>7, <1>8, <1>9, <1>11, <1>12


\* A key that settles the page leaves it on the map, keeps a visible selection
\* visible, and keeps the selected byte's register when it changes the width.
Settles ==
    /\ rows' = rows
    /\ br_offs' \in 0 .. broffmax(br_dwidth')
    /\ Visible => br_sel' \in 0 .. brarraylen(br_dwidth') - 1
    /\ br_dwidth' # br_dwidth /\ OnPage(br_dwidth) =>
         Selected' * br_dwidth' = ((Selected * br_dwidth) \div br_dwidth') * br_dwidth'

\* brgoto and brgotoname, which jump to a byte of the map.
LEMMA JumpKeeps ==
    ASSUME IInv, NEW v \in 0 .. MapLen - 1, brjump(v)
    PROVE  IInv' /\ Settles /\ Selected' = v \div br_dwidth
<1>1. rows \in RowCounts /\ br_dwidth \in {2, 4}
    BY DEF IInv, BrowserTypeOK
<1> DEFINE o == JumpPage(v)
           reg == v \div br_dwidth
<1>2. /\ MoveTo(At(reg - o, o))
      /\ reg \in Nat
      /\ o \in 0 .. broffmax(br_dwidth)
      /\ o % Columns(br_dwidth) = 0
      /\ reg - o \in 0 .. brarraylen(br_dwidth) - 1
    BY <1>1, JumpLands
<1> HIDE DEF o, reg
<1>3. o \in Nat /\ reg - o \in Int
    BY <1>2
<1>4. /\ IInv' /\ br_sel' = reg - o /\ br_offs' = o /\ br_dwidth' = br_dwidth
      /\ rows' = rows
    BY <1>2, <1>3, MoveKeeps
<1>5. Settles
    BY <1>2, <1>4 DEF Settles
<1>6. Selected' = reg
    <2>1. Selected' = br_sel' + br_offs'
        BY DEF Selected
    <2> QED
        BY <1>2, <1>3, <1>4, <2>1
<1> QED
    BY <1>4, <1>5, <1>6 DEF reg

\* brgotoname: the index of the name is a register of the map in either width.
LEMMA GotoNameKeeps ==
    ASSUME IInv, NEW name \in Names, brgotoname(name)
    PROVE  /\ IInv' /\ Settles
           /\ rnmsearch(Table, name) \in 0 .. Table.r_len
           /\ Selected' = rnmsearch(Table, name)
<1> DEFINE i == rnmsearch(Table, name)
<1>1. HasNames /\ i >= 0 /\ brjump(i * br_dwidth)
    BY DEF brgotoname
<1>2. TableSound(Table) /\ br_dwidth \in {2, 4}
    BY <1>1, TableIsSound DEF IInv, BrowserTypeOK
<1>3. i \in 0 .. Table.r_len
    BY <1>1, <1>2, RnmsearchFinds DEF TableSound
<1>4. Table.r_len \in Nat /\ 4 * (Table.r_len + 1) <= MapLen /\ MapLen \in Nat
    BY <1>2, BrowserAssumption DEF TableSound
<1> HIDE DEF i
<1>5. i * br_dwidth \in 0 .. MapLen - 1 /\ (i * br_dwidth) \div br_dwidth = i
    <2>1. CASE br_dwidth = 2
        BY <1>3, <1>4, <2>1
    <2>2. CASE br_dwidth = 4
        BY <1>3, <1>4, <2>2
    <2> QED
        BY <1>2, <2>1, <2>2
<1>6. IInv' /\ Settles /\ Selected' = (i * br_dwidth) \div br_dwidth
    BY <1>1, <1>5, JumpKeeps
<1> QED
    BY <1>3, <1>5, <1>6 DEF i

\* brchmod: the page, a multiple of a row, and the selection scale together.
LEMMA ChmodKeeps ==
    ASSUME IInv, brchmod
    PROVE  IInv' /\ Settles
<1> DEFINE p == Toggled(At(br_sel, br_offs), br_dwidth)
           other == OtherWidth(br_dwidth)
<1>1. /\ br_sel \in Int /\ br_offs \in Nat /\ br_offs % Columns(br_dwidth) = 0
      /\ br_dwidth \in {2, 4} /\ rows \in RowCounts
    BY DEF IInv, BrowserTypeOK, PageAtRow
<1>2. /\ br_sel' = p.sel /\ br_offs' = p.offs /\ br_dwidth' = other
      /\ br_dwshift' = ShiftFor(other, rnm) /\ wrote' = <<>>
      /\ UNCHANGED <<rnm, rows, disk, g_rnms, running, br_topoffs>>
    BY DEF brchmod, Quiet
<1>3. /\ other \in {2, 4} /\ p.sel \in Int /\ p.offs \in Int
      /\ p.offs \in 0 .. broffmax(other)
      /\ p.offs % Columns(other) = 0
      /\ br_sel \in 0 .. brarraylen(br_dwidth) - 1 => p.sel \in 0 .. brarraylen(other) - 1
      /\ br_sel \in 0 .. brarraylen(br_dwidth) - 1 /\ br_offs \in 0 .. broffmax(br_dwidth) =>
           p = At(Scaled(br_sel, br_dwidth), Scaled(br_offs, br_dwidth))
    BY <1>1, ToggledLands
<1> HIDE DEF p
<1>4. IInv'
    <2>1. rnm \in {<<>>} \cup {<<table>> : table \in Tables}
        BY DEF IInv, BrowserTypeOK
    <2>2. ShiftFor(other, rnm) \in {-1, 0, 1}
        BY <1>3, <2>1, ShiftCases
    <2> HIDE DEF other
    <2>3. BrowserTypeOK'
        BY <1>2, <1>3, <2>2 DEF IInv, BrowserTypeOK
    <2>4. ShiftFits' /\ PageAtRow' /\ WroteSelected'
        BY <1>2, <1>3 DEF ShiftFits, ShiftFor, PageAtRow, Columns, WroteSelected
    <2> QED
        BY <1>2, <2>3, <2>4 DEF IInv
<1>5. ASSUME OnPage(br_dwidth)
      PROVE  Selected' * br_dwidth' = ((Selected * br_dwidth) \div br_dwidth') * br_dwidth'
    <2>1. p = At(Scaled(br_sel, br_dwidth), Scaled(br_offs, br_dwidth))
        BY <1>3, <1>5 DEF OnPage
    <2>2. br_sel' = Scaled(br_sel, br_dwidth) /\ br_offs' = Scaled(br_offs, br_dwidth)
        BY <1>2, <2>1 DEF At
    <2>3. Selected' = Scaled(br_sel, br_dwidth) + Scaled(br_offs, br_dwidth)
          /\ Selected = br_sel + br_offs
        BY <2>2 DEF Selected
    <2>4. CASE br_dwidth = 2
        <3>1. br_dwidth' = 4 /\ Selected' = br_sel \div 2 + br_offs \div 2
            BY <1>2, <2>3, <2>4 DEF OtherWidth, Scaled
        <3>2. br_offs % 8 = 0
            BY <1>1, <2>4 DEF Columns
        <3>3. ((br_sel + br_offs) * 2) \div 4 = br_sel \div 2 + br_offs \div 2
            BY <1>1, <3>2
        <3> QED
            BY <2>3, <2>4, <3>1, <3>3
    <2>5. CASE br_dwidth = 4
        <3>1. br_dwidth' = 2 /\ Selected' = br_sel * 2 + br_offs * 2
            BY <1>2, <2>3, <2>5 DEF OtherWidth, Scaled
        <3>2. (((br_sel + br_offs) * 4) \div 2) * 2 = (br_sel * 2 + br_offs * 2) * 2
            BY <1>1
        <3> QED
            BY <2>3, <2>5, <3>1, <3>2
    <2> QED
        BY <1>1, <2>4, <2>5
<1>6. Settles
    <2> HIDE DEF other
    <2> QED
        BY <1>2, <1>3, <1>5 DEF Settles, Visible
<1> QED
    BY <1>4, <1>6

\* braddrnm changes the width twice, which brings the shift up to date for the
\* new names and leaves the width as it was.
LEMMA NewNamesKeep ==
    ASSUME IInv, NEW names \in {<<>>} \cup {<<table>> : table \in Tables}, WithNewNames(names),
           wrote' = <<>>, g_rnms' = g_rnms, UNCHANGED <<rows, disk, br_topoffs, running>>
    PROVE  IInv' /\ Settles
<1> DEFINE other == OtherWidth(br_dwidth)
           once == Toggled(At(br_sel, br_offs), br_dwidth)
           twice == Toggled(once, other)
<1>1. /\ br_sel \in Int /\ br_offs \in Nat /\ br_offs % Columns(br_dwidth) = 0
      /\ br_dwidth \in {2, 4} /\ rows \in RowCounts
    BY DEF IInv, BrowserTypeOK, PageAtRow
<1>2. /\ rnm' = names /\ br_sel' = twice.sel /\ br_offs' = twice.offs
      /\ br_dwshift' = ShiftFor(br_dwidth, names) /\ br_dwidth' = br_dwidth
    BY DEF WithNewNames
<1>3. /\ other \in {2, 4} /\ OtherWidth(other) = br_dwidth /\ once = At(once.sel, once.offs)
      /\ once.sel \in Int /\ once.offs \in Int
      /\ once.offs % Columns(other) = 0
      /\ br_sel \in 0 .. brarraylen(br_dwidth) - 1 => once.sel \in 0 .. brarraylen(other) - 1
    BY <1>1, ToggledLands
<1> HIDE DEF once, other
<1>4. /\ twice.sel \in Int /\ twice.offs \in Int
      /\ twice.offs \in 0 .. broffmax(br_dwidth)
      /\ twice.offs % Columns(br_dwidth) = 0
      /\ once.sel \in 0 .. brarraylen(other) - 1 => twice.sel \in 0 .. brarraylen(br_dwidth) - 1
    <2> DEFINE q == Toggled(At(once.sel, once.offs), other)
    <2>1. /\ q.sel \in Int /\ q.offs \in Int
          /\ q.offs \in 0 .. broffmax(OtherWidth(other))
          /\ once.offs % Columns(other) = 0 => q.offs % Columns(OtherWidth(other)) = 0
          /\ once.sel \in 0 .. brarraylen(other) - 1 =>
               q.sel \in 0 .. brarraylen(OtherWidth(other)) - 1
        BY <1>1, <1>3, ToggledLands
    <2>2. q = twice
        BY <1>3
    <2> HIDE DEF q, twice
    <2> QED
        BY <1>3, <2>1, <2>2
<1> HIDE DEF twice
<1>5. ShiftFor(br_dwidth, names) \in {-1, 0, 1}
    BY <1>1, ShiftCases
<1>6. BrowserTypeOK'
    BY <1>1, <1>2, <1>4, <1>5 DEF IInv, BrowserTypeOK
<1>7. ShiftFits' /\ PageAtRow' /\ WroteSelected' /\ br_topoffs' <= MapLen
    BY <1>2, <1>4 DEF IInv, ShiftFits, ShiftFor, PageAtRow, Columns, WroteSelected
<1>8. Settles
    BY <1>2, <1>3, <1>4 DEF Settles, Visible
<1> QED
    BY <1>6, <1>7, <1>8 DEF IInv

\* A file read is empty, refused or a sound table, cached or not.
LEMMA ReadGives ==
    ASSUME BrowserTypeOK, NEW path \in Paths
    PROVE  Read(path) \in Tables \cup {NoRnm, Aborts}
<1>1. CASE Cached(path) = {}
    BY <1>1 DEF Read, BrowserTypeOK, Tables
<1>2. CASE Cached(path) # {}
    <2>1. g_rnms \in Seq([path : Paths, rnm : Tables])
        BY DEF BrowserTypeOK
    <2>2. Cached(path) \subseteq Nat /\ Cached(path) \subseteq DOMAIN g_rnms
        BY <2>1 DEF Cached
    <2>3. Min(Cached(path)) \in Cached(path)
        <3>1. \E x \in Cached(path) : \A y \in Cached(path) : x <= y
            BY <1>2, <2>2, LeastNatural
        <3> QED
            BY <3>1 DEF Min
    <2>4. g_rnms[Min(Cached(path))] \in [path : Paths, rnm : Tables]
        <3> DEFINE R == [path : Paths, rnm : Tables]
                   i == Min(Cached(path))
        <3>1. g_rnms \in Seq(R) /\ i \in DOMAIN g_rnms
            BY <2>1, <2>2, <2>3
        <3> HIDE DEF R, i
        <3>2. g_rnms[i] \in R
            BY <3>1
        <3> QED
            BY <3>2 DEF R, i
    <2>5. g_rnms[Min(Cached(path))].rnm \in Tables
        BY <2>4
    <2> QED
        BY <1>2, <2>5 DEF Read
<1> QED
    BY <1>1, <1>2

\* The cursor and everything else the invariant reads stay as they are.
LEMMA StillKeeps ==
    ASSUME IInv, UNCHANGED <<files, cursor, br_topoffs>>, rows' \in RowCounts,
           running' \in BOOLEAN, WroteSelected'
    PROVE  IInv'
<1>1. BrowserTypeOK'
    BY DEF IInv, BrowserTypeOK, files, cursor
<1>2. ShiftFits' /\ PageAtRow' /\ br_topoffs' <= MapLen
    BY DEF IInv, ShiftFits, ShiftFor, PageAtRow, Columns, files, cursor
<1> QED
    BY <1>1, <1>2 DEF IInv

\* add-rnm keeps the invariant, whether the file can be used or ends the program.
LEMMA AddrnmKeeps ==
    ASSUME IInv, NEW path \in Paths, braddrnm(path)
    PROVE  IInv' /\ (Settles \/ (UNCHANGED cursor /\ rows' = rows))
<1>1. Read(path) \in Tables \cup {NoRnm, Aborts}
    BY ReadGives DEF IInv
<1>2. wrote' = <<>> /\ UNCHANGED <<rows, disk, br_topoffs>>
    BY DEF braddrnm
<1>3. CASE running' = FALSE /\ UNCHANGED <<g_rnms, rnm, cursor>>
    <2>1. WroteSelected'
        BY <1>2 DEF WroteSelected
    <2>2. rows' \in RowCounts /\ running' \in BOOLEAN
        BY <1>2, <1>3 DEF IInv, BrowserTypeOK
    <2>3. UNCHANGED <<files, cursor, br_topoffs>>
        BY <1>2, <1>3 DEF files
    <2> QED
        BY <1>2, <1>3, <2>1, <2>2, <2>3, StillKeeps
<1>4. CASE WithNewNames(<<>>) /\ UNCHANGED <<g_rnms, running>>
    BY <1>2, <1>4, NewNamesKeep
<1>5. CASE Read(path) \notin {Aborts, NoRnm} /\ WithNewNames(<<Read(path)>>)
           /\ rnmadd2path(path) /\ UNCHANGED running
    <2>1. <<Read(path)>> \in {<<>>} \cup {<<table>> : table \in Tables}
        BY <1>1, <1>5
    <2> QED
        BY <1>2, <1>5, <2>1, NewNamesKeep DEF rnmadd2path
<1> QED
    BY <1>3, <1>4, <1>5 DEF braddrnm


\* A write changes nothing that the page shows.
LEMMA WriteStill ==
    ASSUME NEW byte, NEW width, NEW by, Writes(byte, width, by)
    PROVE  /\ UNCHANGED <<files, cursor, br_topoffs>> /\ rows' = rows /\ running' = running
           /\ wrote' = <<byte, width, by>>
    BY DEF Writes

\* An offset that is not negative, rounded down to a register of the file's width:
\* the register lies on the map, or as a whole behind its end.
LEMMA RoundedDown ==
    ASSUME NEW own \in {2, 4}, NEW offs \in Nat
    PROVE  /\ offs < MapLen => (offs \div own) * own \in 0 .. MapLen - own
           /\ offs >= MapLen => (offs \div own) * own >= MapLen
<1>1. MapLen \in Nat /\ MapLen % 16 = 0
    BY BrowserAssumption
<1>2. CASE own = 2
    BY <1>1, <1>2
<1>3. CASE own = 4
    BY <1>1, <1>3
<1> QED
    BY <1>2, <1>3

\* write-reg: what is named goes to the map, and so does a number below its length.
LEMMA WriteAtKeeps ==
    ASSUME IInv, NEW offs \in Nat, NEW by, WriteAt(offs, by),
           offs < MapLen \/ by = "number"
    PROVE  IInv' /\ UNCHANGED cursor /\ rows' = rows
<1> DEFINE own == Table.r_dwidth
           byte == (offs \div own) * own
<1>1. HasNames /\ Writes(byte, own, by)
    BY DEF WriteAt
<1>2. own \in {2, 4}
    BY <1>1, TableIsSound DEF IInv, TableSound
<1>3. byte \in 0 .. MapLen - own \/ (by = "number" /\ byte >= MapLen)
    <2>1. /\ offs < MapLen => byte \in 0 .. MapLen - own
          /\ offs >= MapLen => byte >= MapLen
        BY <1>2, RoundedDown
    <2>2. MapLen \in Nat
        BY BrowserAssumption
    <2> HIDE DEF byte, own
    <2> QED
        BY <2>1, <2>2
<1> HIDE DEF own, byte
<1>4. /\ UNCHANGED <<files, cursor, br_topoffs>> /\ rows' = rows /\ running' = running
      /\ wrote' = <<byte, own, by>>
    BY <1>1, WriteStill
<1>5. WroteSelected'
    <2>1. wrote'[1] = byte /\ wrote'[2] = own /\ wrote'[3] = by
        BY <1>4
    <2> QED
        BY <1>3, <2>1 DEF WroteSelected, Bounded
<1>6. rows' \in RowCounts /\ running' \in BOOLEAN
    BY <1>4 DEF IInv, BrowserTypeOK
<1> QED
    BY <1>4, <1>5, <1>6, StillKeeps

\* The key that writes, whatever the selection.
LEMMA SelectedWriteKeeps ==
    ASSUME IInv, brwrite1
    PROVE  IInv' /\ UNCHANGED cursor /\ rows' = rows
<1>1. /\ UNCHANGED <<files, cursor, br_topoffs>> /\ rows' = rows /\ running' = running
      /\ wrote' = <<(br_sel + br_offs) * br_dwidth, br_dwidth, "selection">>
    BY WriteStill DEF brwrite1
<1>2. UNCHANGED <<br_sel, br_offs, br_dwidth>>
    BY <1>1 DEF cursor
<1>3. WroteSelected'
    BY <1>1, <1>2 DEF WroteSelected, Selected
<1>4. rows' \in RowCounts /\ running' \in BOOLEAN
    BY <1>1 DEF IInv, BrowserTypeOK
<1> QED
    BY <1>1, <1>3, <1>4, StillKeeps

\* The command that writes by name or number, with names or without.
LEMMA NamedWriteKeeps ==
    ASSUME IInv, brwrite2name
    PROVE  IInv' /\ UNCHANGED cursor /\ rows' = rows
<1>1. CASE NoNamesFault
    <2>1. /\ UNCHANGED <<files, cursor, br_topoffs>> /\ rows' = rows /\ running' = FALSE
          /\ wrote' = <<>>
        BY <1>1 DEF NoNamesFault
    <2>3. WroteSelected'
        BY <2>1 DEF WroteSelected
    <2>4. rows' \in RowCounts /\ running' \in BOOLEAN
        BY <2>1 DEF IInv, BrowserTypeOK
    <2> QED
        BY <2>1, <2>3, <2>4, StillKeeps
<1>2. ASSUME NEW n \in WriteOffsets, WriteNumber(n)
      PROVE  IInv' /\ UNCHANGED cursor /\ rows' = rows
    <2>1. n \in Nat /\ WriteAt(n, "number")
        BY <1>2, BrowserAssumption DEF WriteNumber
    <2> QED
        BY <2>1, WriteAtKeeps
<1>3. ASSUME NEW name \in Names, WriteNamed(name) PROVE IInv' /\ UNCHANGED cursor /\ rows' = rows
    <2> DEFINE i == rnmsearch(Table, name)
    <2>1. HasNames /\ i >= 0 /\ WriteAt(i * br_dwidth, "name")
        BY <1>3 DEF WriteNamed
    <2>2. TableSound(Table) /\ br_dwidth \in {2, 4}
        BY <2>1, TableIsSound DEF IInv, BrowserTypeOK
    <2>3. i \in 0 .. Table.r_len
        BY <2>1, <2>2, RnmsearchFinds DEF TableSound
    <2>4. Table.r_len \in Nat /\ 4 * (Table.r_len + 1) <= MapLen /\ MapLen \in Nat
        BY <2>2, BrowserAssumption DEF TableSound
    <2> HIDE DEF i
    <2>5. i * br_dwidth \in Nat /\ i * br_dwidth < MapLen
        <3>1. CASE br_dwidth = 2
            BY <2>3, <2>4, <3>1
        <3>2. CASE br_dwidth = 4
            BY <2>3, <2>4, <3>2
        <3> QED
            BY <2>2, <3>1, <3>2
    <2> QED
        BY <2>1, <2>5, WriteAtKeeps
<1> QED
    BY <1>1, <1>2, <1>3 DEF brwrite2name

\* Every step keeps the invariant, and either settles the page or leaves the
\* cursor alone; with a new terminal size it leaves the cursor alone.
LEMMA StepKeeps ==
    ASSUME IInv, BrowserNext
    PROVE  IInv' /\ (Settles \/ UNCHANGED cursor)
<1>1. CASE brleft \/ brright \/ brup \/ brdn \/ brpgup \/ brpgdn
    <2>1. /\ IInv' /\ rows' = rows /\ br_dwidth' = br_dwidth
          /\ br_offs' \in 0 .. broffmax(br_dwidth)
          /\ Visible => br_sel' \in 0 .. brarraylen(br_dwidth) - 1
        BY <1>1, ScrollKeys
    <2> QED
        BY <2>1 DEF Settles
<1>2. CASE brchmod
    BY <1>2, ChmodKeeps
<1>3. CASE brwrite1
    BY <1>3, SelectedWriteKeeps
<1>4. CASE brwrite2name
    BY <1>4, NamedWriteKeeps
<1>5. ASSUME NEW v \in 0 .. MapLen - 1, brgoto(v) PROVE IInv' /\ Settles
    BY <1>5, JumpKeeps DEF brgoto
<1>6. ASSUME NEW name \in Names, brgotoname(name) PROVE IInv' /\ Settles
    BY <1>6, GotoNameKeeps
<1>7. ASSUME NEW path \in Paths, braddrnm(path) PROVE IInv' /\ (Settles \/ UNCHANGED cursor)
    BY <1>7, AddrnmKeeps
<1>8. CASE Resize
    <2>1. rows' \in RowCounts /\ wrote' = <<>> /\ UNCHANGED <<files, cursor, br_topoffs, running>>
        BY <1>8 DEF Resize
    <2>2. WroteSelected' /\ running' \in BOOLEAN
        BY <2>1 DEF WroteSelected, IInv, BrowserTypeOK
    <2> QED
        BY <2>1, <2>2, StillKeeps
<1>9. ASSUME NEW path \in Paths, EditFile(path) PROVE IInv' /\ UNCHANGED cursor
    <2>1. PICK version \in Versions : disk' = [disk EXCEPT ![path] = version]
        BY <1>9 DEF EditFile
    <2>2. wrote' = <<>> /\ UNCHANGED <<rows, g_rnms, rnm, cursor, br_topoffs, running>>
        BY <1>9 DEF EditFile
    <2>3. BrowserTypeOK'
        BY <2>1, <2>2 DEF IInv, BrowserTypeOK, cursor
    <2>4. ShiftFits' /\ PageAtRow' /\ br_topoffs' <= MapLen /\ WroteSelected'
        BY <2>2 DEF IInv, ShiftFits, ShiftFor, PageAtRow, Columns, WroteSelected, cursor
    <2> QED
        BY <2>2, <2>3, <2>4 DEF IInv
<1> QED
    BY <1>1, <1>2, <1>3, <1>4, <1>5, <1>6, <1>7, <1>8, <1>9 DEF BrowserNext, Key

\* A step that changes nothing keeps the invariant.
LEMMA StutterKeeps ==
    ASSUME IInv, UNCHANGED browser
    PROVE  IInv'
<1>1. UNCHANGED <<rows, disk, g_rnms, rnm, br_sel, br_offs, br_dwidth, br_dwshift, br_topoffs,
                  wrote, running>>
    BY DEF browser, files, cursor
<1> QED
    BY <1>1 DEF IInv, BrowserTypeOK, ShiftFits, ShiftFor, PageAtRow, Columns, WroteSelected, Bounded,
               Selected

\* The inductive invariant of the browser page: its shift fits its width and its
\* names, and its pages start at the start of a row, whatever the keys, the
\* files and the terminal do.
THEOREM BrowserInvariance == BrowserSpec => []IInv
<1>1. BrowserInit => IInv
    BY InitIInv
<1>2. IInv /\ [BrowserNext]_browser => IInv'
    BY StepKeeps, StutterKeeps
<1> QED
    BY <1>1, <1>2, PTL DEF BrowserSpec

\* The state of the browser is always well formed: the page never starts before
\* the map, the shift is one of three, and the tables are tables that rnmparse
\* returns.  About browsernew and every key.
THEOREM BrowserTypeCorrect == BrowserSpec => []BrowserTypeOK
<1>1. IInv => BrowserTypeOK
    BY DEF IInv
<1> QED
    BY <1>1, BrowserInvariance, PTL

\* The name drawn beside a register is the one the file gives to the register at
\* that byte.  About idxchk and the br_dwshift that brchmod, braddrnm and
\* browsernew maintain.
THEOREM NamesAreRight == BrowserSpec => []NameShownIsRight
<1>1. ASSUME IInv, HasNames
      PROVE  Table.r_mdata[idxchk(Selected)]
                = Table.r_mdata[(Selected * br_dwidth) \div Table.r_dwidth]
    <2> DEFINE own == Table.r_dwidth
               n == Selected
    <2>1. /\ br_dwidth \in {2, 4} /\ n \in Int
          /\ rnm \in {<<>>} \cup {<<table>> : table \in Tables}
          /\ br_dwshift = ShiftFor(br_dwidth, rnm)
        BY <1>1 DEF IInv, BrowserTypeOK, ShiftFits, Selected
    <2>2. rnm # <<>> /\ Table = rnm[1]
        BY <1>1 DEF HasNames, Table
    <2>3. /\ own \in {2, 4}
          /\ br_dwshift \in {-1, 0, 1}
          /\ (br_dwshift = 0) <=> (br_dwidth = own)
          /\ (br_dwshift = 1) <=> (br_dwidth < own)
        BY <2>1, <2>2, ShiftCases
    <2> HIDE DEF own, n
    <2>4. CASE br_dwidth = own
        <3>1. idxchk(n) = n
            BY <2>3, <2>4 DEF idxchk
        <3>2. (n * br_dwidth) \div own = n
            BY <2>1, <2>3, <2>4
        <3> QED
            BY <3>1, <3>2 DEF n, own
    <2>5. CASE br_dwidth = 2 /\ own = 4
        <3>1. idxchk(n) = n \div 2
            BY <2>3, <2>5 DEF idxchk
        <3>2. (n * br_dwidth) \div own = n \div 2
            BY <2>1, <2>5
        <3> QED
            BY <3>1, <3>2 DEF n, own
    <2>6. CASE br_dwidth = 4 /\ own = 2
        <3>1. br_dwshift = -1
            BY <2>3, <2>6
        <3>2. idxchk(n) = n * 2
            BY <3>1 DEF idxchk
        <3>3. (n * br_dwidth) \div own = n * 2
            BY <2>1, <2>6
        <3> QED
            BY <3>2, <3>3 DEF n, own
    <2> QED
        BY <2>1, <2>3, <2>4, <2>5, <2>6
<1>2. IInv => NameShownIsRight
    BY <1>1 DEF NameShownIsRight
<1> QED
    BY <1>2, BrowserInvariance, PTL

\* A settled page lies on the map, and so does a selection that is visible on it.
LEMMA SettledOnMap ==
    ASSUME IInv', Settles
    PROVE  Visible => OnPage(br_dwidth)' /\ SelectionOnMap' /\ Visible'
<1>1. rows' \in RowCounts /\ rows' = rows /\ br_dwidth' \in {2, 4}
    BY DEF IInv, BrowserTypeOK, Settles
<1> DEFINE d == br_dwidth'
<1>2. PICK q \in Nat :
             /\ rows \in Nat /\ rows >= 4 /\ rows <= q
             /\ MapLen \div 2 = 8 * q /\ MapLen \div 4 = 4 * q
             /\ brarraylen(2) = 8 * rows /\ brarraylen(4) = 4 * rows
             /\ broffmax(2) = 8 * (q - rows) /\ broffmax(4) = 4 * (q - rows)
    BY <1>1, Geometry
<1>3. brarraylen(br_dwidth)' = brarraylen(d) /\ broffmax(br_dwidth)' = broffmax(d)
    BY <1>1 DEF brarraylen, broffmax
<1>4. br_offs' \in 0 .. broffmax(d) /\ (Visible => br_sel' \in 0 .. brarraylen(d) - 1)
    BY DEF Settles
<1>5. Selected' = br_sel' + br_offs'
    BY DEF Selected
<1> SUFFICES ASSUME Visible PROVE OnPage(br_dwidth)' /\ SelectionOnMap' /\ Visible'
    OBVIOUS
<1>6. OnPage(br_dwidth)' /\ Visible'
    BY <1>3, <1>4 DEF OnPage, Visible
<1>7. Selected' \in 0 .. MapLen \div d - 1
    <2>1. CASE d = 2
        BY <1>2, <1>4, <1>5, <2>1
    <2>2. CASE d = 4
        BY <1>2, <1>4, <1>5, <2>2
    <2> QED
        BY <1>1, <2>1, <2>2
<1> QED
    BY <1>6, <1>7 DEF SelectionOnMap

\* A write made while the selection is on the map is inside the map, unless it
\* went to a number behind its end.
LEMMA WroteOnMap ==
    ASSUME IInv, SelectionOnMap, wrote # <<>>
    PROVE  Bounded(wrote)
<1>1. CASE wrote = <<Selected * br_dwidth, br_dwidth, "selection">>
    <2>1. MapLen \in Nat /\ MapLen % 16 = 0 /\ br_dwidth \in {2, 4}
        BY BrowserAssumption DEF IInv, BrowserTypeOK
    <2>2. Selected \in 0 .. MapLen \div br_dwidth - 1
        BY DEF SelectionOnMap
    <2> DEFINE n == Selected
    <2> HIDE DEF n
    <2>3. n \in 0 .. MapLen \div br_dwidth - 1 => n * br_dwidth \in 0 .. MapLen - br_dwidth
        <3>1. CASE br_dwidth = 2
            BY <2>1, <3>1
        <3>2. CASE br_dwidth = 4
            BY <2>1, <3>2
        <3> QED
            BY <2>1, <3>1, <3>2
    <2>4. wrote[1] = n * br_dwidth /\ wrote[2] = br_dwidth
        BY <1>1 DEF n
    <2> QED
        BY <2>2, <2>3, <2>4 DEF n, Bounded
<1> QED
    BY <1>1 DEF IInv, WroteSelected

\* A selection on the screen and on the map stays there, and every write to it or
\* to a named register is inside the map, until the terminal shrinks; a write to a
\* number is on the map or behind it, whatever numbers are given.  About
\* brcheckpos, brjump and brchmod, the only bounds before the pointer arithmetic of
\* brwrite1, and about brwrite2name, which has none but zero.
THEOREM WritesAreOnMap == BrowserSpec => WritesStayOnMap
<1> DEFINE OnMapStep ==
        Visible /\ SelectionOnMap =>
         /\ SelectionOnMap'
         /\ rows' >= rows => Visible'
         /\ wrote' # <<>> =>
              \/ wrote'[1] \in 0 .. MapLen - wrote'[2]
              \/ wrote'[3] = "number" /\ wrote'[1] >= MapLen
<1>1. ASSUME IInv, BrowserNext PROVE OnMapStep
    <2>1. IInv' /\ (Settles \/ UNCHANGED cursor)
        BY <1>1, StepKeeps
    <2>2. ASSUME Visible, SelectionOnMap PROVE SelectionOnMap' /\ (rows' >= rows => Visible')
        <3>1. CASE Settles
            BY <2>1, <2>2, <3>1, SettledOnMap
        <3>2. CASE UNCHANGED cursor
            <4>1. UNCHANGED <<br_sel, br_offs, br_dwidth>>
                BY <3>2 DEF cursor
            <4>2. SelectionOnMap'
                BY <4>1, <2>2 DEF SelectionOnMap, Selected
            <4>3. ASSUME rows' >= rows PROVE Visible'
                <5>1. br_dwidth \in {2, 4} /\ br_sel \in Int /\ rows \in Nat /\ rows' \in Nat
                    BY <1>1, <2>1, BrowserAssumption DEF IInv, BrowserTypeOK
                <5>2. br_sel \in 0 .. rows * Columns(br_dwidth) - 1 /\ Columns(br_dwidth) \in {4, 8}
                    BY <2>2, <5>1 DEF Visible, brarraylen, Columns
                <5>3. br_sel \in 0 .. rows' * Columns(br_dwidth) - 1
                    <6>1. CASE Columns(br_dwidth) = 4
                        <7>1. br_sel \in 0 .. rows * 4 - 1
                            BY <5>2, <6>1
                        <7>2. \A m, n \in Nat : m <= n => 0 .. m * 4 - 1 \subseteq 0 .. n * 4 - 1
                            OBVIOUS
                        <7>3. rows <= rows'
                            BY <4>3, <5>1
                        <7>4. br_sel \in 0 .. rows' * 4 - 1
                            BY <5>1, <7>1, <7>2, <7>3
                        <7> QED
                            BY <6>1, <7>4
                    <6>2. CASE Columns(br_dwidth) = 8
                        <7>1. br_sel \in 0 .. rows * 8 - 1
                            BY <5>2, <6>2
                        <7>2. \A m, n \in Nat : m <= n => 0 .. m * 8 - 1 \subseteq 0 .. n * 8 - 1
                            OBVIOUS
                        <7>3. rows <= rows'
                            BY <4>3, <5>1
                        <7>4. br_sel \in 0 .. rows' * 8 - 1
                            BY <5>1, <7>1, <7>2, <7>3
                        <7> QED
                            BY <6>2, <7>4
                    <6> QED
                        BY <5>2, <6>1, <6>2
                <5> QED
                    BY <4>1, <5>3 DEF Visible, brarraylen, Columns
            <4> QED
                BY <4>2, <4>3
        <3> QED
            BY <2>1, <3>1, <3>2
    <2>3. ASSUME SelectionOnMap', wrote' # <<>>
          PROVE  \/ wrote'[1] \in 0 .. MapLen - wrote'[2]
                 \/ wrote'[3] = "number" /\ wrote'[1] >= MapLen
        <3>1. (IInv /\ SelectionOnMap /\ wrote # <<>> => Bounded(wrote))'
            BY WroteOnMap, PTL
        <3> QED
            BY <2>1, <2>3, <3>1 DEF Bounded
    <2> QED
        BY <2>2, <2>3
<1>2. IInv /\ [BrowserNext]_browser => [OnMapStep]_browser
    BY <1>1
<1> QED
    BY <1>2, BrowserInvariance, PTL DEF BrowserSpec, WritesStayOnMap

\* Only a new terminal size takes the selection off the page or the page off the
\* map.  About brcheckpos, which scrolls one row whatever the distance, and about
\* the assertion in brjump's closing comment.
THEOREM KeysStayOnPage == BrowserSpec => NoKeyLeavesPage
<1> DEFINE PageStep == OnPage(br_dwidth) /\ rows' = rows => OnPage(br_dwidth)'
<1>1. ASSUME IInv, BrowserNext, OnPage(br_dwidth), rows' = rows PROVE OnPage(br_dwidth)'
    <2>1. IInv' /\ (Settles \/ UNCHANGED cursor)
        BY <1>1, StepKeeps
    <2>2. CASE Settles
        <3>1. Visible
            BY <1>1 DEF OnPage, Visible
        <3> QED
            BY <2>1, <2>2, <3>1, SettledOnMap
    <2>3. CASE UNCHANGED cursor
        BY <1>1, <2>3 DEF cursor, OnPage, brarraylen, broffmax, Columns
    <2> QED
        BY <2>1, <2>2, <2>3
<1>2. IInv /\ [BrowserNext]_browser => [PageStep]_browser
    BY <1>1
<1> QED
    BY <1>2, BrowserInvariance, PTL DEF BrowserSpec, NoKeyLeavesPage

\* A change of width stays on the register of the selected byte.  About brchmod,
\* whose scaling and whose brcheckpos both move the selection.
THEOREM WidthKeepsRegister == BrowserSpec => ChmodKeepsRegister
<1> DEFINE ChmodStep ==
        OnPage(br_dwidth) /\ br_dwidth' # br_dwidth =>
            Selected' * br_dwidth' = ((Selected * br_dwidth) \div br_dwidth') * br_dwidth'
<1>1. ASSUME IInv, BrowserNext PROVE ChmodStep
    <2>1. Settles \/ UNCHANGED cursor
        BY <1>1, StepKeeps
    <2> QED
        BY <2>1 DEF Settles, cursor
<1>2. IInv /\ [BrowserNext]_browser => [ChmodStep]_browser
    BY <1>1
<1> QED
    BY <1>2, BrowserInvariance, PTL DEF BrowserSpec, ChmodKeepsRegister

\* goto-name and write-reg find every name some register carries, and in the card's
\* own width they go and write to a register of that name.  About add2hash,
\* rnmsearch, brgotoname and brwrite2name.
THEOREM NamesAreFound == BrowserSpec => GotoNameLands
<1> DEFINE GotoStep ==
        \A name \in Names :
         /\ HasNames => \A i \in DOMAIN Table.r_mdata :
                Table.r_mdata[i] = name => rnmsearch(Table, name) >= 0
         /\ br_dwshift = 0 /\ brgotoname(name) => Table.r_mdata[Selected'] = name
         /\ br_dwshift = 0 /\ WriteNamed(name) =>
                Table.r_mdata[wrote'[1] \div Table.r_dwidth] = name
<1>1. ASSUME IInv PROVE GotoStep
    <2> SUFFICES ASSUME NEW name \in Names
                 PROVE  /\ HasNames => \A i \in DOMAIN Table.r_mdata :
                              Table.r_mdata[i] = name => rnmsearch(Table, name) >= 0
                        /\ br_dwshift = 0 /\ brgotoname(name) => Table.r_mdata[Selected'] = name
                        /\ br_dwshift = 0 /\ WriteNamed(name) =>
                               Table.r_mdata[wrote'[1] \div Table.r_dwidth] = name
        OBVIOUS
    <2>1. HasNames => TableSound(Table)
        BY <1>1, TableIsSound DEF IInv
    <2>2. HasNames => \A i \in DOMAIN Table.r_mdata :
              Table.r_mdata[i] = name => rnmsearch(Table, name) >= 0
        BY <2>1, RnmsearchFinds DEF TableSound
    <2>3. ASSUME brgotoname(name) PROVE Table.r_mdata[Selected'] = name
        <3>1. Selected' = rnmsearch(Table, name) /\ rnmsearch(Table, name) \in 0 .. Table.r_len
            BY <1>1, <2>3, GotoNameKeeps
        <3>2. HasNames /\ rnmsearch(Table, name) >= 0
            BY <2>3 DEF brgotoname
        <3> QED
            BY <2>1, <3>1, <3>2, RnmsearchFinds DEF TableSound
    <2>4. ASSUME br_dwshift = 0, WriteNamed(name)
          PROVE  Table.r_mdata[wrote'[1] \div Table.r_dwidth] = name
        <3> DEFINE own == Table.r_dwidth
                   i == rnmsearch(Table, name)
        <3>1. /\ HasNames /\ i >= 0
              /\ wrote' = <<((i * br_dwidth) \div own) * own, own, "name">>
            BY <2>4 DEF WriteNamed, WriteAt, Writes
        <3>2. own \in {2, 4} /\ br_dwidth = own
            <4>1. /\ br_dwidth \in {2, 4} /\ rnm \in {<<>>} \cup {<<table>> : table \in Tables}
                  /\ br_dwshift = ShiftFor(br_dwidth, rnm) /\ rnm # <<>> /\ Table = rnm[1]
                BY <1>1, <3>1 DEF IInv, BrowserTypeOK, ShiftFits, HasNames, Table
            <4> QED
                BY <2>4, <4>1, ShiftCases
        <3>3. i \in Nat /\ Table.r_mdata[i] = name
            BY <2>1, <3>1, RnmsearchFinds DEF TableSound
        <3> HIDE DEF own, i
        <3>4. (((i * own) \div own) * own) \div own = i
            <4>1. CASE own = 2
                BY <3>3, <4>1
            <4>2. CASE own = 4
                BY <3>3, <4>2
            <4> QED
                BY <3>2, <4>1, <4>2
        <3>5. wrote'[1] \div own = i
            BY <3>1, <3>2, <3>4
        <3> QED
            BY <3>3, <3>5 DEF own
    <2> QED
        BY <2>2, <2>3, <2>4
<1>2. IInv /\ [BrowserNext]_browser => [GotoStep]_browser
    BY <1>1
<1> QED
    BY <1>2, BrowserInvariance, PTL DEF BrowserSpec, GotoNameLands

===============================================================================
