-------------------------------- MODULE RnmTable -------------------------------
(***************************************************************************)
(* v120_tui/rnm.c: the register names of a card, read from an RNM file     *)
(* into an array indexed by register and a hash table that finds a         *)
(* register by its name.                                                   *)
(*                                                                         *)
(* A file is the sequence of its lines, each already stripped and split:   *)
(* <<"W", width>>, <<"reg", index>>, <<"reg", index, name>>, or <<"bad">>  *)
(* for a line linedata refuses.  Comments and the lines E and A, which     *)
(* nothing reads later, are left out.                                      *)
(***************************************************************************)
EXTENDS Integers, Sequences, SequencesExt, FiniteSets, FiniteSetsExt

CONSTANTS
    Names,          \* register names
    Hash,           \* hashstring, a number for each name
    RNM_HASH_SIZE

NoName == ""

ASSUME RnmAssumption ==
    /\ Hash \in [Names -> Nat]
    /\ RNM_HASH_SIZE \in Nat \ {0}
    /\ NoName \notin Names

\* What linedata makes of a line.
RnmLine == ({"W"} \X Nat) \cup ({"reg"} \X Nat) \cup ({"reg"} \X Nat \X Names) \cup {<<"bad">>}

\* What rnmparse returns for a file it cannot use, and what becomes of the
\* program when filldata refuses a line: rnmfree releases r_mdata and r_path,
\* and the exit path then releases them again.
NoRnm == [r_len |-> 0]
Aborts == [r_len |-> -1]

-------------------------------------------------------------------------------
IsRegister(line) == line[1] = "reg"

\* The highest index of the file, zero when no line starts with a digit.
maxoffs(file) == Max({0} \cup {file[i][2] : i \in {j \in DOMAIN file : IsRegister(file[j])}})

\* Mutated form of add2hash: a full bucket is overwritten.
add2hash_overwrite(rnm, name, index) ==
    [rnm EXCEPT !.r_hash[Hash[name] % RNM_HASH_SIZE] =
        <<[rh_hash |-> Hash[name], rh_idx |-> index]>>]

\* A new entry goes to the end of its bucket's collision list.  rh_name points
\* into r_mdata, so it is the name that register has when the table is searched.
add2hash(rnm, name, index) ==
    [rnm EXCEPT !.r_hash[Hash[name] % RNM_HASH_SIZE] =
        Append(@, [rh_hash |-> Hash[name], rh_idx |-> index])]

\* linedata: a register line first forgets the name its register had.
linedata(rnm, line) ==
    LET named(name) == [rnm EXCEPT !.r_mdata[line[2]] = name]
    IN  IF rnm.bad \/ line[1] = "bad" THEN [rnm EXCEPT !.bad = TRUE]
        ELSE IF line[1] = "W" THEN [rnm EXCEPT !.r_dwidth = line[2], !.bad = line[2] \notin {2, 4}]
        ELSE IF Len(line) = 2 THEN named(NoName)
        ELSE add2hash(named(line[3]), line[3], line[2])

\* What rnmparse allocates, two bytes wide until a line says otherwise.
EmptyTable(file) ==
    [r_len |-> maxoffs(file), r_dwidth |-> 2, bad |-> FALSE,
     r_mdata |-> [i \in 0 .. maxoffs(file) |-> NoName],
     r_hash |-> [b \in 0 .. RNM_HASH_SIZE - 1 |-> <<>>]]

\* filldata: the lines in order, up to the first that is refused.
filldata(file) ==
    LET after[n \in 0 .. Len(file)] ==
            IF n = 0 THEN EmptyTable(file) ELSE linedata(after[n - 1], file[n])
    IN  after[Len(file)]

\* rnmparse of a file that is not cached.  r_len is the highest index, although
\* r_mdata has one element more.
rnmparse(file) ==
    IF maxoffs(file) = 0 THEN NoRnm
    ELSE IF filldata(file).bad THEN Aborts
    ELSE filldata(file)

\* rnmsearch: the first entry of the bucket with this hash and this name.
rnmsearch(rnm, name) ==
    LET bucket == rnm.r_hash[Hash[name] % RNM_HASH_SIZE]
        hits == {i \in DOMAIN bucket : /\ bucket[i].rh_hash = Hash[name]
                                       /\ rnm.r_mdata[bucket[i].rh_idx] = name}
    IN  IF hits = {} THEN -1 ELSE bucket[Min(hits)].rh_idx
===============================================================================
