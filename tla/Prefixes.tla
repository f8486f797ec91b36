------------------------------ MODULE Prefixes ------------------------------
(***************************************************************************)
(* prefix.c of diStorm: which bytes are prefixes, where the last prefix of *)
(* each type is, which ones an instruction did not use.  A set of flags is *)
(* a set of their names; the letters of vrex are the bits of REX and VEX.  *)
(***************************************************************************)
EXTENDS Integers, Sequences

CONSTANT MaximumSize  \* INST_MAXIMUM_SIZE, 15 in the code

ASSUME MaximumSizeAssumption == MaximumSize \in Nat \ {0}

Modes == {16, 32, 64}
Bytes == 0 .. 255

\* The prefixes of one byte, and the type of each (_PrefixIndexer).
Flag ==
    [b \in {240, 242, 243, 46, 54, 62, 38, 100, 101, 102, 103} \cup 64 .. 79 |->
       CASE b = 240 -> "LOCK" [] b = 242 -> "REPNZ" [] b = 243 -> "REP"
         [] b = 46 -> "CS" [] b = 54 -> "SS" [] b = 62 -> "DS" [] b = 38 -> "ES"
         [] b = 100 -> "FS" [] b = 101 -> "GS"
         [] b = 102 -> "OP_SIZE" [] b = 103 -> "ADDR_SIZE"
         [] OTHER -> "REX"]
VEX2 == 197
VEX3 == 196
WAIT == 155
DividedModRM == 192

Reps == {"REPNZ", "REP"}
Seg32 == {"CS", "SS", "DS", "ES"}
Seg64 == {"FS", "GS"}
Types == [REX |-> {"REX"}, LOREP |-> {"LOCK"} \cup Reps,
          SEG |-> Seg32 \cup Seg64, OPS |-> {"OP_SIZE"}, ADRS |-> {"ADDR_SIZE"}]
TypeOf(flag) == CHOOSE t \in DOMAIN Types : flag \in Types[t]
Nowhere == -1

\* A byte of the code; what lies behind it must never be read.
Byte(code, i) == IF i \in DOMAIN code THEN code[i] ELSE 0
Bit(b, n) == (b \div 2^n) % 2 = 1
Letters(s) == {p[2] : p \in {q \in s : q[1]}}

NoPrefixes(from) ==
    [decoded |-> {}, used |-> {}, mandatory |-> {}, unused |-> {}, vrex |-> {},
     start |-> from, last |-> from, rex |-> 0, vex |-> 0, ext |-> "NONE",
     at |-> [t \in DOMAIN Types |-> Nowhere]]

IsLegacy(b, dt) == b \in DOMAIN Flag /\ (Flag[b] = "REX" => dt = 64)
prefixes_is_valid(b, dt) == IsLegacy(b, dt) \/ b \in {VEX2, VEX3}

\* Marks the prefixes of some types, where one was seen, as unused.
prefixes_ignore(ps, types) ==
    [ps EXCEPT !.unused = @ \cup ({ps.at[t] : t \in types} \ {Nowhere})]
prefixes_ignore_all(ps) == prefixes_ignore(ps, DOMAIN Types)
\* Mutant: the former prefix of the type is forgotten.
TrackOnly(ps, index, t) == [ps EXCEPT !.at[t] = index]
prefixes_track_unused(ps, index, t) ==
    [prefixes_ignore(ps, {t}) EXCEPT !.at[t] = index]

\* What was read and not used, or used and not read, is ignored by type.
prefixes_set_unused_mask(ps) ==
    LET diff == (ps.decoded \ ps.used) \cup (ps.used \ ps.decoded)
    IN  prefixes_ignore(ps, {t \in DOMAIN Types : Types[t] \cap diff # {}})

\* Mutant: the limit of the length is not looked at.
MoreUnlimited(ps, code, dt) == ps.last \in DOMAIN code /\ IsLegacy(code[ps.last], dt)
\* Whether the loop of prefixes_decode takes one more byte, and what that
\* does; ps.last is where the loop has come to.
MorePrefixes(ps, code, dt) ==
    /\ ps.last \in DOMAIN code /\ ps.last - ps.start < MaximumSize
    /\ IsLegacy(code[ps.last], dt)
TakePrefix(ps, b) ==
    LET seen == [ps EXCEPT !.decoded = @ \cup {Flag[b]}, !.last = @ + 1]
        rexed == [seen EXCEPT
                    !.vrex = Letters({<<Bit(b, 0), "B">>, <<Bit(b, 1), "X">>,
                                      <<Bit(b, 2), "R">>, <<Bit(b, 3), "W">>}),
                    !.rex = ps.last, !.ext = "REX"]
    IN  prefixes_track_unused(IF Flag[b] = "REX" THEN rexed ELSE seen,
                              ps.last - ps.start, TypeOf(Flag[b]))

\* Whether a VEX prefix of some bytes comes next: LDS and LES start with the
\* same byte and are told apart, but for 64 bits, by the next one.
LeadsVex(ps, code, first, bytes) ==
    /\ Len(code) - ps.last + 1 >= bytes
    /\ Byte(code, ps.last) = first
    /\ ps.last - ps.start <= MaximumSize - bytes
IsVex(ps, code, dt, first, bytes) ==
    /\ LeadsVex(ps, code, first, bytes)
    /\ dt = 64 \/ Byte(code, ps.last + 1) >= DividedModRM
VexSize(ps, code, dt) ==
    IF IsVex(ps, code, dt, VEX2, 2) THEN 2
    ELSE IF IsVex(ps, code, dt, VEX3, 3) THEN 3 ELSE 0
\* The positions that these tests read, and the byte that ended the loop.
VexRead(ps, code, dt) ==
    LET pos == ps.last
        left == Len(code) - pos + 1
        size == VexSize(ps, code, dt)
    IN  (pos .. pos + size - 1)
        \cup {p \in {pos} : left >= 2 \/ (left >= 1 /\ pos - ps.start < MaximumSize)}
        \cup {p \in {pos + 1} : LeadsVex(ps, code, VEX2, 2) \/ LeadsVex(ps, code, VEX3, 3)}
        \cup {p \in {pos + 2} : size = 2 /\ left >= 3}
VexLetters(code, pos, dt, size) ==
    IF size = 2
    THEN Letters({<<~Bit(Byte(code, pos + 1), 7) /\ dt = 64, "R">>, <<Bit(Byte(code, pos + 1), 2), "L">>})
    ELSE Letters({<<Bit(Byte(code, pos + 2), 2), "L">>}
            \cup IF dt # 64 THEN {}
                 ELSE {<<~Bit(Byte(code, pos + 1), 5), "B">>, <<~Bit(Byte(code, pos + 1), 6), "X">>,
                       <<~Bit(Byte(code, pos + 1), 7), "R">>, <<Bit(Byte(code, pos + 2), 7), "W">>})
WithVex(ps, code, dt) ==
    LET size == VexSize(ps, code, dt)
    IN  IF size = 0 THEN ps
        ELSE [ps EXCEPT !.decoded = @ \cup {"VEX"}, !.vex = ps.last + 1,
                        !.ext = IF size = 2 THEN "VEX2" ELSE "VEX3",
                        !.vrex = @ \cup VexLetters(code, ps.last, dt, size),
                        !.last = @ + size]

\* A memory operand uses an override unless it is of the default segment:
\* with two different ones, neither is the default.
prefixes_use_segment(default, ps, dt) ==
    LET flags == ps.decoded \cap (IF dt = 64 THEN Seg64 ELSE Seg32 \cup Seg64)
    IN  IF flags = {default} THEN {} ELSE flags
=============================================================================
