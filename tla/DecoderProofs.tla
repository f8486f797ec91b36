--------------------------- MODULE DecoderProofs ---------------------------
(***************************************************************************)
(* The decoder stays within the code and within the room for results, and  *)
(* loses no prefix, for every trie of instructions, every length limit and *)
(* every code.                                                             *)
(***************************************************************************)
EXTENDS Decoder, SequenceTheorems, TLAPS

(* The prefixes of an instruction.                                         *)

Indices == 0 .. MaximumSize - 1
PrefixesOK(p) ==
    /\ {"start", "last", "decoded", "at", "unused"} \subseteq DOMAIN p
    /\ p.at \in [DOMAIN Types -> Indices \cup {Nowhere}]
    /\ p.unused \subseteq Indices
\* A state of the prefixes that covers the same bytes as another one.
Covers(p, q) == PrefixesOK(p) /\ p.start = q.start /\ p.last = q.last

LEMMA StartCovers == ASSUME NEW i PROVE PrefixesOK(NoPrefixes(i))
BY MaximumSizeAssumption DEF PrefixesOK, NoPrefixes

LEMMA IgnoreCovers ==
    ASSUME NEW p, PrefixesOK(p), NEW types \in SUBSET DOMAIN Types
    PROVE  Covers(prefixes_ignore(p, types), p)
<1>1. \A t \in types : p.at[t] \in Indices \cup {Nowhere}
  BY DEF PrefixesOK
<1> QED
  BY <1>1 DEF PrefixesOK, Covers, prefixes_ignore

LEMMA TypesAre == DOMAIN Types = {"REX", "LOREP", "SEG", "OPS", "ADRS"}
BY DEF Types

LEMMA MaskCovers ==
    ASSUME NEW p, PrefixesOK(p)
    PROVE  Covers(prefixes_set_unused_mask(p), p)
BY IgnoreCovers DEF prefixes_set_unused_mask

\* A field that is none of the bytes' positions can be changed at will.
LEMMA DecodedCovers ==
    ASSUME NEW p, PrefixesOK(p), NEW d
    PROVE  Covers([p EXCEPT !.decoded = d], p)
BY DEF PrefixesOK, Covers
LEMMA UsedCovers ==
    ASSUME NEW p, PrefixesOK(p), NEW u
    PROVE  Covers([p EXCEPT !.used = u], p)
BY DEF PrefixesOK, Covers
LEMMA TakingCovers ==
    ASSUME NEW p, PrefixesOK(p), NEW d, NEW m
    PROVE  Covers([p EXCEPT !.decoded = d, !.mandatory = m], p)
BY DEF PrefixesOK, Covers
LEMMA ExtCovers ==
    ASSUME NEW p, PrefixesOK(p), NEW d, NEW e
    PROVE  /\ Covers([p EXCEPT !.decoded = d, !.ext = e], p)
           /\ [p EXCEPT !.decoded = d, !.ext = e].decoded = d
BY DEF PrefixesOK, Covers

\* Every byte that is a prefix has a flag of one of the types.
LEMMA FlagOfByte ==
    ASSUME NEW b \in DOMAIN Flag
    PROVE  /\ Flag[b] # "VEX"
           /\ TypeOf(Flag[b]) \in DOMAIN Types
<1> DEFINE names == {"LOCK", "REPNZ", "REP", "CS", "SS", "DS", "ES", "FS", "GS",
                     "OP_SIZE", "ADDR_SIZE", "REX"}
<1>1. Flag[b] \in names
  BY DEF Flag
<1>2. \E t \in DOMAIN Types : Flag[b] \in Types[t]
  BY <1>1 DEF Types, Reps, Seg32, Seg64
<1> QED
  BY <1>1, <1>2 DEF TypeOf

\* A byte more is taken, at an index within the limit.
LEMMA TakeCovers ==
    ASSUME NEW p, PrefixesOK(p), NEW b \in DOMAIN Flag,
           p.start \in Nat, p.last \in Nat, p.last - p.start \in Indices
    PROVE  LET q == TakePrefix(p, b)
           IN  PrefixesOK(q) /\ q.start = p.start /\ q.last = p.last + 1
<1> DEFINE seen == [p EXCEPT !.decoded = @ \cup {Flag[b]}, !.last = @ + 1]
           letters == Letters({<<Bit(b, 0), "B">>, <<Bit(b, 1), "X">>,
                               <<Bit(b, 2), "R">>, <<Bit(b, 3), "W">>})
           rexed == [seen EXCEPT !.vrex = letters, !.rex = p.last, !.ext = "REX"]
           r == IF Flag[b] = "REX" THEN rexed ELSE seen
           t == TypeOf(Flag[b])
<1>1. PrefixesOK(seen) /\ seen.start = p.start /\ seen.last = p.last + 1
  BY DEF PrefixesOK
<1>2. Covers(rexed, seen)
  <2> HIDE DEF seen, letters
  <2> QED BY <1>1 DEF PrefixesOK, Covers
<1>3. Covers(r, seen)
  <2> HIDE DEF seen, rexed
  <2> QED BY <1>1, <1>2 DEF Covers
<1>4. t \in DOMAIN Types
  BY FlagOfByte
<1> HIDE DEF t, r, seen, rexed
<1>5. Covers(prefixes_ignore(r, {t}), r)
  BY <1>3, <1>4, IgnoreCovers DEF Covers
<1> DEFINE q == prefixes_track_unused(r, p.last - p.start, t)
<1>6. Covers(q, r)
  <2> DEFINE s == prefixes_ignore(r, {t})
  <2>1. q = [s EXCEPT !.at[t] = p.last - p.start]
    BY DEF prefixes_track_unused
  <2>2. PrefixesOK(s) /\ s.start = r.start /\ s.last = r.last
    BY <1>5 DEF Covers
  <2>3. p.last - p.start \in Indices
    OBVIOUS
  <2> HIDE DEF s, q
  <2>4. q.at \in [DOMAIN Types -> Indices \cup {Nowhere}] /\ DOMAIN q = DOMAIN s
    BY <2>1, <2>2, <2>3, <1>4 DEF PrefixesOK
  <2>5. q.start = s.start /\ q.last = s.last /\ q.unused = s.unused
    BY <2>1
  <2> QED BY <2>2, <2>4, <2>5 DEF PrefixesOK, Covers
<1>7. q = TakePrefix(p, b)
  BY DEF TakePrefix, r, seen, rexed, t
<1> HIDE DEF q
<1>8. PrefixesOK(q) /\ q.start = p.start /\ q.last = p.last + 1
  BY <1>1, <1>3, <1>6 DEF Covers
<1> QED
  BY <1>7, <1>8

\* A VEX prefix is taken where all its bytes are in the code and the limit.
LEMMA VexCovers ==
    ASSUME NEW p, PrefixesOK(p), NEW code, NEW dt, Len(code) \in Nat,
           p.start \in Nat, p.last \in p.start .. Len(code) + 1,
           p.last - p.start <= MaximumSize
    PROVE  LET q == WithVex(p, code, dt)
           IN  /\ PrefixesOK(q) /\ q.start = p.start
               /\ q.last \in p.last .. Len(code) + 1
               /\ q.last - q.start <= MaximumSize
               /\ q = p \/ q.last >= p.last + 2
<1> DEFINE size == VexSize(p, code, dt)
           q == WithVex(p, code, dt)
<1>1. /\ size \in {0, 2, 3}
      /\ size # 0 => Len(code) - p.last + 1 >= size /\ p.last - p.start <= MaximumSize - size
  BY DEF VexSize, IsVex, LeadsVex
<1>2. CASE size = 0
  BY <1>2, MaximumSizeAssumption DEF WithVex
<1>3. CASE size # 0
  <2> DEFINE ext == IF size = 2 THEN "VEX2" ELSE "VEX3"
             letters == VexLetters(code, p.last, dt, size)
  <2>1. q = [p EXCEPT !.decoded = @ \cup {"VEX"}, !.vex = p.last + 1, !.ext = ext,
                      !.vrex = @ \cup letters, !.last = @ + size]
    BY <1>3 DEF WithVex
  <2> HIDE DEF q, ext, letters, size
  <2>2. /\ DOMAIN q = DOMAIN p /\ q.start = p.start /\ q.last = p.last + size
        /\ q.at = p.at /\ q.unused = p.unused
    BY <2>1 DEF PrefixesOK
  <2>3. PrefixesOK(q)
    BY <2>2 DEF PrefixesOK
  <2>4. q.last \in p.last .. Len(code) + 1 /\ q.last - q.start <= MaximumSize /\ q.last >= p.last + 2
    <3>1. size = 2 \/ size = 3
      BY <1>1, <1>3
    <3>2. p.last \in Nat /\ p.start \in Nat /\ MaximumSize \in Nat /\ Len(code) \in Nat
      BY MaximumSizeAssumption
    <3>3. q.last = p.last + size /\ q.start = p.start
      BY <2>2
    <3>4. Len(code) - p.last + 1 >= size /\ p.last - p.start <= MaximumSize - size
      BY <1>1, <1>3
    <3>5. q.last \in Nat /\ q.last >= p.last + 2 /\ q.last <= Len(code) + 1
      BY ONLY <3>1, <3>2, <3>3, <3>4, SMTT(40)
    <3>6. q.last - q.start <= MaximumSize
      BY ONLY <3>1, <3>2, <3>3, <3>4
    <3>7. q.last \in p.last .. Len(code) + 1
      BY ONLY <3>2, <3>5
    <3> QED
      BY <3>5, <3>6, <3>7
  <2> QED
    BY <2>2, <2>3, <2>4 DEF q
<1> QED
  BY <1>2, <1>3

\* The tests for a VEX prefix read no byte behind the code.
LEMMA VexReadInside ==
    ASSUME NEW p, NEW code, NEW dt, Len(code) \in Nat, p.last \in 1 .. Len(code) + 1
    PROVE  VexRead(p, code, dt) \subseteq 1 .. Len(code)
<1> DEFINE size == VexSize(p, code, dt)
<1>1. size \in {0, 2, 3} /\ (size # 0 => Len(code) - p.last + 1 >= size)
  BY DEF VexSize, IsVex, LeadsVex
<1>2. p.last .. p.last + size - 1 \subseteq 1 .. Len(code)
  <2> HIDE DEF size
  <2> QED BY <1>1
<1> HIDE DEF size
<1>3. VexRead(p, code, dt)
        = (p.last .. p.last + size - 1)
          \cup {i \in {p.last} : Len(code) - p.last + 1 >= 2
                  \/ (Len(code) - p.last + 1 >= 1 /\ p.last - p.start < MaximumSize)}
          \cup {i \in {p.last + 1} : LeadsVex(p, code, VEX2, 2) \/ LeadsVex(p, code, VEX3, 3)}
          \cup {i \in {p.last + 2} : size = 2 /\ Len(code) - p.last + 1 >= 3}
  BY DEF VexRead, size
<1>4. {i \in {p.last + 1} : LeadsVex(p, code, VEX2, 2) \/ LeadsVex(p, code, VEX3, 3)}
        \subseteq 1 .. Len(code)
  BY DEF LeadsVex
<1> QED
  BY <1>2, <1>3, <1>4

\* What is dropped in 64 bits, and with REX.W, covers the same bytes; no
\* VEX prefix comes of it.
LEMMA In64Covers ==
    ASSUME NEW p, PrefixesOK(p), NEW opcode
    PROVE  /\ Covers(In64(p, opcode), p)
           /\ In64(p, opcode).decoded \subseteq p.decoded
<1> DEFINE late == "REX" \in p.decoded /\ p.rex # opcode - 1
           fewer == [p EXCEPT !.decoded = @ \ {"REX"}, !.ext = "NONE"]
           rexed == IF late THEN prefixes_ignore(fewer, {"REX"}) ELSE p
           left == [rexed EXCEPT !.decoded = @ \ Seg32]
           q == In64(p, opcode)
<1>1. Covers(fewer, p) /\ fewer.decoded \subseteq p.decoded
  <2>1. Covers(fewer, p) /\ fewer.decoded = p.decoded \ {"REX"}
    BY ExtCovers, Zenon
  <2> HIDE DEF fewer
  <2> QED BY <2>1
<1>2. Covers(rexed, p) /\ rexed.decoded \subseteq p.decoded
  <2> HIDE DEF fewer
  <2>1. Covers(prefixes_ignore(fewer, {"REX"}), fewer)
    BY <1>1, IgnoreCovers, TypesAre DEF Covers
  <2>2. prefixes_ignore(fewer, {"REX"}).decoded = fewer.decoded
    BY <1>1 DEF prefixes_ignore, Covers, PrefixesOK
  <2> QED
    BY <1>1, <2>1, <2>2 DEF Covers
<1>3. Covers(left, rexed) /\ left.decoded \subseteq rexed.decoded
  <2> HIDE DEF rexed
  <2> QED BY <1>2, DecodedCovers DEF Covers, PrefixesOK
<1>4. Covers(prefixes_ignore(left, {"SEG"}), left)
  <2> HIDE DEF left
  <2> QED BY <1>3, IgnoreCovers, TypesAre DEF Covers
<1>5. prefixes_ignore(left, {"SEG"}).decoded = left.decoded
  <2> HIDE DEF left
  <2> QED BY <1>3 DEF prefixes_ignore, Covers, PrefixesOK
<1>6. q = IF rexed.decoded \cap Seg32 = {} THEN rexed ELSE prefixes_ignore(left, {"SEG"})
  BY DEF In64
<1> HIDE DEF q, left, rexed
<1> QED
  <2>1. Covers(q, p) /\ q.decoded \subseteq p.decoded
    BY <1>2, <1>3, <1>4, <1>5, <1>6 DEF Covers
  <2> QED BY <2>1 DEF q
LEMMA DropOpSizeCovers ==
    ASSUME NEW p, PrefixesOK(p)
    PROVE  Covers(DropOpSize(p), p)
<1> DEFINE left == [p EXCEPT !.decoded = @ \ {"OP_SIZE"}]
<1>1. Covers(left, p)
  BY DecodedCovers
<1>2. Covers(prefixes_ignore(left, {"OPS"}), left)
  <2> HIDE DEF left
  <2> QED BY <1>1, IgnoreCovers, TypesAre DEF Covers
<1> QED
  BY <1>1, <1>2 DEF DropOpSize, Covers

-----------------------------------------------------------------------------
(* The look-up of an instruction.                                          *)

\* A look-up with len bytes left covers the same prefixes, reads no byte more
\* and takes at most one that is not there; it takes the least bytes, and at
\* least one, all of them there, if an instruction is found.
Outcome(r, p, len, least) ==
    /\ Covers(r.ps, p)
    /\ r.taken \in Nat /\ r.read \in Nat
    /\ r.read <= len /\ r.taken <= r.read + 1 /\ least <= r.taken
    /\ r.ii # None => r.taken \in 1 .. len

LEMMA SamePrefixes == ASSUME NEW p, PrefixesOK(p) PROVE Covers(p, p)
BY DEF Covers

LEMMA FoundOutcome ==
    ASSUME NEW len \in Int, NEW taken \in Nat, taken <= len, NEW p, NEW q, Covers(q, p),
           NEW ii, NEW least \in Nat, least <= taken, ii = None \/ taken >= 1
    PROVE  Outcome(Found(ii, q, taken), p, len, least)
<1> DEFINE r == Found(ii, q, taken)
<1>1. r.ii = ii /\ r.ps = q /\ r.taken = taken /\ r.read = taken
  BY DEF Found
<1> HIDE DEF r
<1>2. r.ii # None => r.taken \in 1 .. len
  BY <1>1
<1>3. r.read <= len /\ r.taken <= r.read + 1 /\ least <= r.taken
  BY <1>1
<1> QED
  BY <1>1, <1>2, <1>3 DEF Outcome, r

LEMMA RanOutOutcome ==
    ASSUME NEW len \in Int, NEW taken \in Nat \ {0}, taken - 1 <= len,
           NEW p, NEW q, Covers(q, p), NEW least \in Nat, least <= taken
    PROVE  Outcome(RanOut(q, taken), p, len, least)
<1> DEFINE r == RanOut(q, taken)
<1>1. r.ii = None /\ r.ps = q /\ r.taken = taken /\ r.read = taken - 1
  BY DEF RanOut
<1> HIDE DEF r
<1>2. r.read \in Nat /\ r.read <= len /\ r.taken <= r.read + 1 /\ least <= r.taken
  BY <1>1
<1> QED
  BY <1>1, <1>2 DEF Outcome, r

LEMMA PrefixedOutcome ==
    ASSUME NEW len \in Int, NEW taken \in Nat, 1 <= taken, taken <= len,
           NEW p, NEW q, Covers(q, p), NEW in
    PROVE  Outcome(inst_lookup_prefixed(in, q, taken), p, len, 1)
<1> DEFINE seen == q.decoded \cap ({"OP_SIZE"} \cup Reps)
           used == IF seen \cap Reps = {} THEN seen ELSE seen \cap Reps
           node == Child(in, IF seen = {} THEN 0
                             ELSE IF "REPNZ" \in seen THEN 3
                             ELSE IF "REP" \in seen THEN 2 ELSE 1)
           taking == [q EXCEPT !.decoded = @ \ used, !.mandatory = used]
<1>1. Covers(taking, p)
  <2>1. PrefixesOK(q)
    BY DEF Covers
  <2> HIDE DEF used
  <2>2. Covers(taking, q)
    BY <2>1, TakingCovers, Zenon
  <2> HIDE DEF taking
  <2> QED
    BY <2>2 DEF Covers
<1>2. \A ii : \A t \in {q, taking} : Outcome(Found(ii, t, taken), p, len, 1)
  <2> HIDE DEF taking
  <2> QED BY <1>1, FoundOutcome
<1>3. inst_lookup_prefixed(in, q, taken)
        = IF Reps \subseteq seen THEN Found(None, q, taken)
          ELSE IF used # seen /\ (node = None \/ "PRE_OP_SIZE" \notin node.flags)
               THEN Found(None, taking, taken)
          ELSE Found(IF node = None THEN Child(in, 0) ELSE node, taking, taken)
  BY Zenon DEF inst_lookup_prefixed
<1> HIDE DEF taking, node, used, seen
<1> QED
  BY <1>2, <1>3, Zenon

LEMMA FullOutcome ==
    ASSUME NEW len \in Int, NEW taken \in Nat, 1 <= taken, taken <= len,
           NEW p, NEW q, Covers(q, p), NEW in
    PROVE  Outcome(OfFull(in, q, taken), p, len, 1)
<1>1. \A ii : Outcome(Found(ii, q, taken), p, len, 1)
  BY FoundOutcome
<1>2. Outcome(inst_lookup_prefixed(in, q, taken), p, len, 1)
  BY PrefixedOutcome
<1> QED
  BY <1>1, <1>2, Zenon DEF OfFull
LEMMA DividedOutcome ==
    ASSUME NEW len \in Int, NEW taken \in Nat, 1 <= taken, taken <= len,
           NEW p, NEW q, Covers(q, p), NEW in, NEW waited \in BOOLEAN
    PROVE  Outcome(OfDivided(in, waited, q, taken), p, len, 1)
<1>1. \A ii : Outcome(Found(ii, q, taken), p, len, 1)
  BY FoundOutcome
<1> QED
  BY <1>1, Zenon DEF OfDivided
LEMMA ThirdByteOutcome ==
    ASSUME NEW len \in Int, NEW taken \in Nat, 1 <= taken, taken <= len,
           NEW p, NEW q, Covers(q, p), NEW in, NEW b
    PROVE  Outcome(ThirdByte(in, b, q, taken), p, len, 1)
<1>1. \A ii : Outcome(Found(ii, q, taken), p, len, 1)
  BY FoundOutcome
<1>2. \A ii : Outcome(OfFull(ii, q, taken), p, len, 1)
  BY FullOutcome
<1> QED
  BY <1>1, <1>2, Zenon DEF ThirdByte
LEMMA OneByteOutcome ==
    ASSUME NEW len \in Int, NEW taken \in Nat, 1 <= taken, taken <= len,
           NEW p, NEW q, Covers(q, p), NEW in, NEW b, NEW dt
    PROVE  Outcome(OneByte(in, b, q, dt, taken), p, len, 1)
<1> DEFINE left == [q EXCEPT !.decoded = @ \ (Seg32 \cup Seg64)]
           lea == prefixes_ignore(left, {"SEG"})
<1>1. \A ii : \A s : Covers(s, p) => Outcome(Found(ii, s, taken), p, len, 1)
  BY FoundOutcome
<1>2. PrefixesOK(q)
  BY DEF Covers
<1>3. \A u : Covers([q EXCEPT !.used = u], p)
  BY <1>2, UsedCovers DEF Covers
<1>4. Covers(lea, p)
  <2>1. Covers(left, q)
    BY <1>2, DecodedCovers, Zenon
  <2> HIDE DEF left
  <2>2. Covers(lea, left)
    BY <2>1, IgnoreCovers, TypesAre DEF Covers
  <2> HIDE DEF lea
  <2> QED
    BY <2>1, <2>2 DEF Covers
<1>5. CASE b = 99
  BY <1>1, <1>5 DEF OneByte
<1>6. CASE b = 144
  <2>1. CASE "REP" \in q.decoded
    <3>1. OneByte(in, b, q, dt, taken) = Found(II_pause, [q EXCEPT !.used = @ \cup {"REP"}], taken)
      BY <1>6, <2>1 DEF OneByte
    <3> QED
      BY <1>1, <1>3, <3>1, Zenon
  <2>2. CASE "REP" \notin q.decoded
    <3> DEFINE ii == IF dt # 64 \/ "B" \notin q.vrex THEN II_nop ELSE in
               marks == q.used \cup (IF "W" \in q.vrex THEN {"REX"} ELSE {})
    <3>1. OneByte(in, b, q, dt, taken) = Found(ii, [q EXCEPT !.used = marks], taken)
      BY <1>6, <2>2 DEF OneByte
    <3> HIDE DEF ii, marks
    <3> QED
      BY <1>1, <1>3, <3>1, Zenon
  <2> QED
    BY <2>1, <2>2
<1>7. CASE b = 141
  <2>1. OneByte(in, b, q, dt, taken) = Found(in, lea, taken)
    BY <1>7 DEF OneByte
  <2> HIDE DEF lea
  <2> QED
    BY <1>1, <1>4, <2>1, Zenon
<1>8. CASE b \notin {99, 141, 144}
  <2>1. OneByte(in, b, q, dt, taken) = Found(in, q, taken)
    BY <1>8 DEF OneByte
  <2> QED
    BY <1>1, <2>1, Zenon
<1> QED
  BY <1>5, <1>6, <1>7, <1>8

LEMMA WalkOutcome ==
    ASSUME NEW len \in Int, NEW n \in Nat \ {0}, n <= len, NEW p, NEW q, Covers(q, p),
           NEW code, NEW first, NEW dt, NEW waited \in BOOLEAN
    PROVE  Outcome(Walk(code, first, len, q, dt, n, waited), p, len, 1)
<1> DEFINE b0 == Byte(code, first)
           b1 == Byte(code, first + 1)
           b2 == Byte(code, first + 2)
           in == Child(Trie, b0)
           second == Child(in, b1)
<1>1. \A ii : Outcome(Found(ii, q, n), p, len, 1)
  BY FoundOutcome
<1>2. \A ii : len >= n + 1 => Outcome(Found(ii, q, n + 1), p, len, 1)
  BY FoundOutcome
<1>3. Outcome(OneByte(in, b0, q, dt, n), p, len, 1)
  BY OneByteOutcome
<1>4. len < n + 1 => Outcome(RanOut(q, n + 1), p, len, 1)
  BY RanOutOutcome
<1>5. \A ii : len >= n + 1 => Outcome(OfDivided(ii, waited, q, n + 1), p, len, 1)
  BY DividedOutcome
<1>6. \A ii : len >= n + 1 => Outcome(OfFull(ii, q, n + 1), p, len, 1)
  BY FullOutcome
<1>7. len >= n + 1 /\ len < n + 2 => Outcome(RanOut(q, n + 2), p, len, 1)
  BY RanOutOutcome
<1>8. len >= n + 2 => Outcome(ThirdByte(second, b2, q, n + 2), p, len, 1)
  BY ThirdByteOutcome
<1>9. len < n + 1 \/ len >= n + 1
  OBVIOUS
<1>10. len < n + 2 \/ len >= n + 2
  OBVIOUS
<1>11. Walk(code, first, len, q, dt, n, waited)
         = IF in = None THEN Found(None, q, n)
           ELSE IF in.type = "INFO" /\ ~waited THEN OneByte(in, b0, q, dt, n)
           ELSE IF len < n + 1 THEN RanOut(q, n + 1)
           ELSE IF in.type = "GROUP" /\ ~waited THEN Found(Child(in, Reg(b1)), q, n + 1)
           ELSE IF in.type = "DIVIDED"
                THEN OfDivided(Child(in, Divided(b1)), waited, q, n + 1)
           ELSE IF waited \/ second = None THEN Found(None, q, n + 1)
           ELSE IF b0 = 15 /\ b1 = 15 THEN Found(II_3dnow, q, n + 1)
           ELSE IF second.type \in {"INFO", "PREFIXED"} THEN OfFull(second, q, n + 1)
           ELSE IF len < n + 2 THEN RanOut(q, n + 2)
           ELSE ThirdByte(second, b2, q, n + 2)
  BY Zenon DEF Walk
<1> HIDE DEF second, in, b2, b1, b0
<1> QED
  BY <1>1, <1>2, <1>3, <1>4, <1>5, <1>6, <1>7, <1>8, <1>9, <1>10, <1>11, Zenon

\* With a VEX prefix before it, an instruction is given up at once or after
\* one or two bytes.
LEMMA VexOutcome ==
    ASSUME NEW len \in Nat, NEW p, PrefixesOK(p), NEW code, NEW first
    PROVE  Outcome(inst_vex_lookup(code, first, len, p), p, len, 0)
<1> DEFINE start == VexStart(code, p)
           in == Child(start, Byte(code, first))
           node == Child(in, IF in.type = "GROUP" THEN Reg(Byte(code, first + 1))
                             ELSE Byte(code, first + 1))
           index == VexIndex(code, p)
           refused == p.decoded \cap ({"OP_SIZE", "LOCK", "REX"} \cup Reps) # {}
                      \/ start = None
           short == in.type \in {"NONE", "PREFIXED", "INFO", "DIVIDED"}
<1>1. Covers(p, p)
  BY SamePrefixes
<1>2. Outcome(Found(None, p, 0), p, len, 0)
  BY <1>1, FoundOutcome
<1>3. \A ii : \A n \in {1, 2} : n <= len => Outcome(Found(ii, p, n), p, len, 0)
  BY <1>1, FoundOutcome
<1>4. \A ii : \A n \in {1, 2} : n <= len => Outcome(OfPrefixed(ii, index, p, n), p, len, 0)
  <2> HIDE DEF index
  <2> QED BY <1>3, Zenon DEF OfPrefixed
<1>5. len < 1 => Outcome(RanOut(p, 1), p, len, 0)
  BY <1>1, RanOutOutcome
<1>6. len >= 1 /\ len < 2 => Outcome(RanOut(p, 2), p, len, 0)
  BY <1>1, RanOutOutcome
<1>7. (len < 1 \/ 1 <= len) /\ (len < 1 \/ len >= 1) /\ (len < 2 \/ 2 <= len)
  OBVIOUS
<1>8. inst_vex_lookup(code, first, len, p)
        = IF refused THEN Found(None, p, 0)
          ELSE IF len < 1 THEN RanOut(p, 1)
          ELSE IF short THEN OfPrefixed(in, index, p, 1)
          ELSE IF len < 2 THEN RanOut(p, 2)
          ELSE OfPrefixed(node, index, p, 2)
  BY Zenon DEF inst_vex_lookup
<1>9. 1 \in {1, 2} /\ 2 \in {1, 2}
  OBVIOUS
<1> HIDE DEF refused, short, node, in, start, index
<1> QED
  BY <1>2, <1>4, <1>5, <1>6, <1>7, <1>8, <1>9, Zenon

\* Only a look-up that starts with a VEX prefix can take no byte at all.
LEMMA LookupOutcome ==
    ASSUME NEW len \in Nat, NEW p, PrefixesOK(p), NEW code, NEW first, NEW dt
    PROVE  Outcome(inst_lookup(code, first, len, p, dt), p, len,
                   IF "VEX" \in p.decoded THEN 0 ELSE 1)
<1> DEFINE r == inst_lookup(code, first, len, p, dt)
           all == prefixes_ignore_all(p)
<1>1. Covers(p, p)
  BY SamePrefixes
<1>2. Covers(all, p)
  BY IgnoreCovers DEF prefixes_ignore_all
<1>3. CASE "VEX" \in p.decoded
  <2> DEFINE found == inst_vex_lookup(code, first, len, p)
             longer == found.ii # None /\ "FORCE_VEXL" \in found.ii.flags /\ "L" \notin p.vrex
             none == [found EXCEPT !.ii = None]
  <2>1. r = IF longer THEN none ELSE found
    BY <1>3, Zenon DEF inst_lookup
  <2>2. Outcome(found, p, len, 0)
    BY VexOutcome
  <2>3. {"ii", "ps", "taken", "read"} \subseteq DOMAIN found
    BY Zenon DEF inst_vex_lookup, OfPrefixed, Found, RanOut
  <2> HIDE DEF found
  <2>4. Outcome(none, p, len, 0)
    <3>1. /\ none.ii = None /\ none.ps = found.ps
          /\ none.taken = found.taken /\ none.read = found.read
      BY <2>3
    <3> HIDE DEF none
    <3> QED
      BY <2>2, <3>1 DEF Outcome
  <2> HIDE DEF none, longer, r
  <2> QED
    BY <1>3, <2>1, <2>2, <2>4 DEF r
<1>4. CASE "VEX" \notin p.decoded
  <2>1. len < 1 => Outcome(RanOut(p, 1), p, len, 1)
    BY <1>1, RanOutOutcome
  <2>2. len >= 1 => Outcome(Walk(code, first, len, p, dt, 1, FALSE), p, len, 1)
    <3>1. len >= 1 => 1 <= len
      OBVIOUS
    <3>2. 1 \in Nat \ {0} /\ len \in Int /\ FALSE \in BOOLEAN
      OBVIOUS
    <3> QED BY <1>1, <3>1, <3>2, WalkOutcome, Zenon
  <2>3. len >= 1 /\ len < 2 => Outcome(RanOut(all, 2), p, len, 1)
    <3> HIDE DEF all
    <3> QED BY <1>2, RanOutOutcome
  <2>4. len >= 2 => Outcome(Walk(code, first + 1, len, all, dt, 2, TRUE), p, len, 1)
    <3> HIDE DEF all
    <3>1. len >= 2 => 2 <= len
      OBVIOUS
    <3>2. 2 \in Nat \ {0} /\ len \in Int /\ TRUE \in BOOLEAN
      OBVIOUS
    <3> QED BY <1>2, <3>1, <3>2, WalkOutcome, Zenon
  <2>5. (len < 1 \/ len >= 1) /\ (len < 2 \/ len >= 2)
    OBVIOUS
  <2>6. r = IF len < 1 THEN RanOut(p, 1)
            ELSE IF Byte(code, first) # WAIT THEN Walk(code, first, len, p, dt, 1, FALSE)
            ELSE IF len < 2 THEN RanOut(all, 2)
            ELSE Walk(code, first + 1, len, all, dt, 2, TRUE)
    BY <1>4, Zenon DEF inst_lookup
  <2> HIDE DEF r, all
  <2>7. Outcome(r, p, len, 1)
    BY <2>1, <2>2, <2>3, <2>4, <2>5, <2>6, Zenon
  <2> QED
    BY <1>4, <2>7 DEF r
<1> QED
  BY <1>3, <1>4

LEMMA SuffixOutcome ==
    ASSUME NEW len \in Nat, NEW code, NEW first
    PROVE  LET r == inst_lookup_3dnow(code, first, len)
           IN  r.read \in {0, 1} /\ r.read <= len /\ (r.ii # None => len >= 1)
BY DEF inst_lookup_3dnow, Found, RanOut

\* Every operand has a size.
LEMMA SizeInNat ==
    ASSUME NEW type, NEW c, NEW sib, c.adr \in Modes
    PROVE  Size(type, c, sib) \in Nat
<1>1. Displacement(c, sib) \in Nat
  BY DEF Displacement
<1>2. ImmediateSize(type, c) \in Nat
  <2>1. c.adr \div 8 \in Nat
    BY DEF Modes
  <2>2. ImmediateSize(type, c) \in {0, 1, 2, 4, 6, 8, c.adr \div 8}
    BY Zenon DEF ImmediateSize
  <2> QED
    BY <2>1, <2>2
<1> QED
  BY <1>1, <1>2 DEF Size

-----------------------------------------------------------------------------
(* The results.                                                            *)

Results == [addr : Nat, size : 1 .. MaximumSize, whole : BOOLEAN, unused : SUBSET Indices]
EndOf(es, i) == IF i = 0 THEN 1 ELSE es[i].addr + es[i].size
LastEnd(es) == EndOf(es, Len(es))
\* Where a result may start after the end of another one.
Continues(start, end, filter) == start >= end /\ (filter \/ start = end)
Tiles(es, filter) ==
    \A i \in 1 .. Len(es) : Continues(es[i].addr, EndOf(es, i - 1), filter)

LEMMA EndInNat ==
    ASSUME NEW es \in Seq(Results), NEW i \in 0 .. Len(es)
    PROVE  EndOf(es, i) \in Nat
<1>1. CASE i = 0
  BY <1>1 DEF EndOf
<1>2. CASE i # 0
  <2>1. es[i] \in Results
    BY <1>2
  <2>2. es[i].addr \in Nat /\ es[i].size \in Nat
    BY <2>1, MaximumSizeAssumption DEF Results
  <2> QED
    BY <1>2, <2>2 DEF EndOf
<1> QED
  BY <1>1, <1>2

\* One result more keeps them tiled if it starts where they end.
LEMMA AppendTiles ==
    ASSUME NEW es \in Seq(Results), NEW r \in Results, NEW filter, Tiles(es, filter),
           Continues(r.addr, LastEnd(es), filter)
    PROVE  LET more == Append(es, r)
           IN  /\ more \in Seq(Results) /\ Len(more) = Len(es) + 1
               /\ Tiles(more, filter) /\ LastEnd(more) = r.addr + r.size
<1> DEFINE more == Append(es, r)
<1>1. /\ more \in Seq(Results) /\ Len(more) = Len(es) + 1
      /\ \A i \in 1 .. Len(es) : more[i] = es[i]
      /\ more[Len(es) + 1] = r
  BY AppendProperties
<1>2. Len(es) \in Nat
  OBVIOUS
<1> HIDE DEF more
<1>3. LastEnd(more) = r.addr + r.size
  BY <1>1, <1>2 DEF LastEnd, EndOf
<1>4. Tiles(more, filter)
  <2> SUFFICES ASSUME NEW i \in 1 .. Len(es) + 1
               PROVE  Continues(more[i].addr, EndOf(more, i - 1), filter)
    BY <1>1 DEF Tiles
  <2>1. EndOf(more, i - 1) = EndOf(es, i - 1)
    BY <1>1, <1>2 DEF EndOf
  <2>2. CASE i \in 1 .. Len(es)
    BY <1>1, <2>1, <2>2 DEF Tiles
  <2>3. CASE i = Len(es) + 1
    <3>1. i - 1 = Len(es)
      BY <1>2, <2>3
    <3> QED
      BY <1>1, <2>1, <2>3, <3>1 DEF LastEnd
  <2> QED
    BY <1>2, <2>2, <2>3
<1> QED
  BY <1>1, <1>3, <1>4 DEF more

\* So do the bytes of a piece of code that starts there.
LEMMA UndecodableTiles ==
    ASSUME NEW es \in Seq(Results), NEW first \in Nat, NEW last \in Nat, first <= last,
           NEW filter, Tiles(es, filter), Continues(first, LastEnd(es), filter)
    PROVE  LET more == es \o Undecodable(first, last)
           IN  /\ more \in Seq(Results) /\ Len(more) = Len(es) + (last - first + 1)
               /\ Tiles(more, filter) /\ LastEnd(more) = last + 1
<1> DEFINE n == last - first + 1
           bytes == Undecodable(first, last)
           more == es \o bytes
           m == Len(es)
<1>1. n \in Nat \ {0} /\ m \in Nat
  OBVIOUS
<1>2. /\ bytes \in Seq(Results) /\ Len(bytes) = n
      /\ \A i \in 1 .. n : bytes[i].addr = first + i - 1 /\ bytes[i].size = 1
  <2>1. 1 \in 1 .. MaximumSize /\ {} \in SUBSET Indices
    BY MaximumSizeAssumption
  <2>2. \A i \in 1 .. n :
          [addr |-> first + i - 1, size |-> 1, whole |-> FALSE, unused |-> {}] \in Results
    BY <2>1 DEF Results
  <2>3. bytes = [i \in 1 .. n |->
                   [addr |-> first + i - 1, size |-> 1, whole |-> FALSE, unused |-> {}]]
    BY DEF Undecodable
  <2> HIDE DEF bytes, n
  <2>4. bytes \in [1 .. n -> Results]
    BY <2>2, <2>3
  <2>5. bytes \in Seq(Results) /\ Len(bytes) = n
    BY <1>1, <2>4
  <2>6. \A i \in 1 .. n : bytes[i].addr = first + i - 1 /\ bytes[i].size = 1
    BY <2>3
  <2> QED
    BY <2>5, <2>6
<1> HIDE DEF bytes, n
<1>3. /\ more \in Seq(Results) /\ Len(more) = m + n
      /\ \A i \in 1 .. m : more[i] = es[i]
      /\ \A i \in m + 1 .. m + n : more[i] = bytes[i - m]
  BY <1>1, <1>2, ConcatProperties
<1> HIDE DEF more, m
<1>4. \A i \in m + 1 .. m + n : more[i].addr = first + (i - m) - 1 /\ more[i].size = 1
  BY <1>1, <1>2, <1>3
<1>5. LastEnd(more) = last + 1
  <2>1. more[m + n].addr = first + n - 1 /\ more[m + n].size = 1
    BY <1>1, <1>4
  <2> QED
    BY <1>1, <1>3, <2>1 DEF LastEnd, EndOf, n
<1>6. Tiles(more, filter)
  <2> SUFFICES ASSUME NEW i \in 1 .. m + n
               PROVE  Continues(more[i].addr, EndOf(more, i - 1), filter)
    BY <1>3 DEF Tiles
  <2>1. CASE i \in 1 .. m
    <3>1. EndOf(more, i - 1) = EndOf(es, i - 1)
      BY <1>1, <1>3, <2>1 DEF EndOf
    <3> QED
      BY <1>3, <2>1, <3>1 DEF Tiles, m
  <2>2. CASE i = m + 1
    <3>1. EndOf(more, i - 1) = LastEnd(es)
      BY <1>1, <1>3, <2>2 DEF EndOf, LastEnd, m
    <3>2. more[i].addr = first
      BY <1>1, <1>4, <2>2
    <3> QED
      BY <3>1, <3>2
  <2>3. CASE i \in m + 2 .. m + n
    <3>1. i - 1 \in m + 1 .. m + n /\ i \in m + 1 .. m + n /\ i - 1 # 0
      BY <1>1, <2>3
    <3>2. EndOf(more, i - 1) = first + ((i - 1) - m) - 1 + 1
      BY <1>4, <3>1 DEF EndOf
    <3>3. more[i].addr = first + (i - m) - 1
      BY <1>4, <3>1
    <3>4. more[i].addr = EndOf(more, i - 1) /\ more[i].addr \in Int
      BY <1>1, <3>1, <3>2, <3>3
    <3> QED
      BY <3>4 DEF Continues
  <2> QED
    BY <1>1, <2>1, <2>2, <2>3
<1> QED
  BY <1>3, <1>5, <1>6 DEF more, n, m, bytes

-----------------------------------------------------------------------------
(* The invariant.                                                          *)

Opening == {"prefixes", "prefixed"}
Decoding == {"opcode", "modrm", "operands", "suffix", "whole"}
Inside == Decoding \cup {"undecodable"}

Typed ==
    /\ call \in Calls /\ PrefixesOK(ps) /\ entries \in Seq(Results)
    /\ pc \in {"next", "done"} \cup Opening \cup Inside
    /\ from \in 1 .. End /\ next \in 1 .. End
    /\ ci \in [code : 1 .. End + 1, len : Int] /\ (pc \in Decoding => ci.len >= 0)
    /\ k \in Nat /\ modrm \in Bytes /\ lockable \in BOOLEAN
    /\ res \in {"NONE", "SUCCESS", "MEMORYERR"}
\* The prefixes are those before from, or those from there on, and leave
\* room for a byte in the code and in an instruction.
PrefixesPlaced ==
    /\ pc \in Opening =>
         /\ ps.start = from /\ from < End /\ ps.last \in from .. End
         /\ ps.last - ps.start <= MaximumSize
         /\ "VEX" \in ps.decoded => ps.last > 1
    /\ pc \in Inside =>
         /\ ps.last = from /\ from < End /\ ps.start \in 1 .. from
         /\ from - ps.start < MaximumSize
    /\ pc = "opcode" => ("VEX" \in ps.decoded => from > 1)
\* The room for a result is checked before the instruction is looked at.
RoomForOne == pc \in Inside => Len(entries) + 1 <= call.room
\* The cursor and the length say the same about what is left of the code;
\* the byte taken last stays under the cursor until ModR/M is done with.
CursorPlaced ==
    /\ pc = "opcode" => ci.code = from /\ ci.len = End - from
    /\ pc = "modrm" => ci.code + 1 + ci.len = End /\ ci.code >= from
    /\ pc \in {"operands", "suffix", "whole"} => ci.code + ci.len = End /\ ci.code > from
\* The results are tiled up to the instruction that is being decoded.
ResultsTile ==
    /\ Tiles(entries, call.fcOnly)
    /\ pc # "done" =>
         Continues(IF pc = "next" THEN from ELSE ps.start, LastEnd(entries), call.fcOnly)
DecoderInv ==
    /\ Typed /\ PrefixesPlaced /\ RoomForOne /\ CursorPlaced /\ ResultsTile
    /\ ReadsInside /\ RoomKept

LEMMA CallFacts ==
    ASSUME call \in Calls
    PROVE  /\ Code \in Seq(Bytes) /\ Len(Code) \in Nat /\ DOMAIN Code = 1 .. Len(Code)
           /\ End = Len(Code) + 1 /\ End \in Nat \ {0}
           /\ call.dt \in Modes /\ call.room \in Nat /\ call.fcOnly \in BOOLEAN
           /\ \A i : Byte(Code, i) \in Bytes
<1>1. Code \in Seq(Bytes) /\ call.dt \in Modes /\ call.room \in Nat /\ call.fcOnly \in BOOLEAN
  BY CallsAssumption DEF Code
<1>2. Len(Code) \in Nat /\ DOMAIN Code = 1 .. Len(Code)
  BY <1>1
<1>3. \A i : Byte(Code, i) \in Bytes
  <2>1. 0 \in Bytes
    BY DEF Bytes
  <2>2. \A i \in DOMAIN Code : Code[i] \in Bytes
    BY <1>1
  <2> QED
    BY <2>1, <2>2, Zenon DEF Byte
<1> QED
  BY <1>1, <1>2, <1>3 DEF End
LEMMA CallKept == call' = call => Code' = Code /\ End' = End
BY DEF Code, End

LEMMA TypesFollow == Typed => TypeOK
<1>1. Indices \cup {Nowhere} = -1 .. MaximumSize - 1
  BY MaximumSizeAssumption DEF Indices, Nowhere
<1>2. PrefixesOK(ps) => /\ ps.at \in [DOMAIN Types -> -1 .. MaximumSize - 1]
                        /\ ps.unused \subseteq 0 .. MaximumSize - 1
  BY <1>1, Zenon DEF PrefixesOK, Indices
<1>3. ci \in [code : 1 .. End + 1, len : Int] => ci.code \in 1 .. End + 1 /\ ci.len \in Int
  OBVIOUS
<1>4. {"next", "done"} \cup Opening \cup Inside
        = {"next", "prefixes", "prefixed", "opcode", "modrm", "operands", "suffix", "whole",
           "undecodable", "done"}
  BY DEF Opening, Inside, Decoding
<1> QED
  BY <1>2, <1>3, <1>4, Zenon DEF Typed, TypeOK, Decoding

LEMMA InitInv == Init => DecoderInv
<1> SUFFICES ASSUME Init PROVE DecoderInv
  OBVIOUS
<1> USE DEF Init
<1>1. call \in Calls /\ End \in Nat /\ 1 <= End /\ call.room \in Nat
  BY CallFacts
<1>2. PrefixesOK(ps) /\ ps.start = 1 /\ ps.last = 1
  <2>1. PrefixesOK(ps)
    BY StartCovers
  <2> QED
    BY <2>1 DEF NoPrefixes
<1>4. entries \in Seq(Results) /\ Len(entries) = 0
  BY EmptySeq
<1>5. Typed
  <2>1. ci \in [code : 1 .. End + 1, len : Int]
    BY <1>1
  <2>2. from \in 1 .. End /\ next \in 1 .. End /\ modrm \in Bytes /\ k \in Nat
    BY <1>1 DEF Bytes
  <2>3. pc \in {"next", "done"} \cup Opening \cup Inside /\ pc \notin Decoding
    BY DEF Decoding
  <2> QED
    BY <1>1, <1>2, <1>4, <2>1, <2>2, <2>3, Zenon DEF Typed
<1>6. PrefixesPlaced /\ RoomForOne /\ CursorPlaced
  BY DEF PrefixesPlaced, RoomForOne, CursorPlaced, Opening, Inside, Decoding
<1>7. ResultsTile
  BY <1>4 DEF ResultsTile, Tiles, LastEnd, EndOf, Continues
<1>8. ReadsInside /\ RoomKept
  BY <1>1, <1>4 DEF ReadsInside, RoomKept
<1> QED
  BY <1>5, <1>6, <1>7, <1>8 DEF DecoderInv

\* A step that leaves the results and what was read alone.
LEMMA OnlyRead ==
    ASSUME DecoderInv, call' = call, UNCHANGED entries, read' \subseteq read \cup DOMAIN Code
    PROVE  ReadsInside' /\ RoomKept'
BY CallKept DEF DecoderInv, ReadsInside, RoomKept

LEMMA StartPrefixesInv == ASSUME DecoderInv, StartPrefixes PROVE DecoderInv'
<1> USE DEF StartPrefixes
<1>0. /\ call' = call /\ Code' = Code /\ End' = End /\ Len(Code) \in Nat
      /\ DOMAIN Code = 1 .. Len(Code) /\ End = Len(Code) + 1 /\ from \in 1 .. End
      /\ pc' \in Opening
  BY CallFacts, CallKept DEF DecoderInv, Typed, Opening
<1>1. /\ PrefixesOK(ps)' /\ ps'.start = from /\ ps'.last = from /\ ps'.decoded = {}
  <2>1. PrefixesOK(ps')
    BY StartCovers
  <2> QED
    BY <2>1 DEF NoPrefixes, PrefixesOK
<1>2. Typed'
  BY <1>0, <1>1 DEF DecoderInv, Typed, inner, Opening, Decoding
<1>3. PrefixesPlaced'
  BY <1>0, <1>1, MaximumSizeAssumption DEF PrefixesPlaced, Opening, Inside, Decoding
<1>4. RoomForOne' /\ CursorPlaced'
  BY <1>0 DEF RoomForOne, CursorPlaced, Opening, Inside, Decoding
<1>5. ResultsTile'
  BY <1>0, <1>1 DEF DecoderInv, ResultsTile, Opening
<1>6. ReadsInside' /\ RoomKept'
  BY <1>0, OnlyRead
<1> QED
  BY <1>2, <1>3, <1>4, <1>5, <1>6 DEF DecoderInv

\* What the steps have in common: the call stays.
LEMMA Common ==
    ASSUME DecoderInv, call' = call
    PROVE  /\ Code' = Code /\ End' = End /\ Len(Code) \in Nat
           /\ DOMAIN Code = 1 .. Len(Code) /\ End = Len(Code) + 1 /\ End \in Nat
           /\ from \in 1 .. End /\ next \in 1 .. End
           /\ Len(entries) \in Nat /\ LastEnd(entries) \in Nat /\ call.room \in Nat
BY CallFacts, CallKept, EndInNat DEF DecoderInv, Typed, LastEnd

LEMMA ReadPrefixInv == ASSUME DecoderInv, ReadPrefix PROVE DecoderInv'
<1> USE DEF ReadPrefix
<1>0. /\ call' = call /\ Code' = Code /\ End' = End /\ Len(Code) \in Nat
      /\ DOMAIN Code = 1 .. Len(Code) /\ End = Len(Code) + 1 /\ from \in 1 .. End
      /\ pc = "prefixes" /\ pc' = pc
  BY Common
<1>1. /\ ps.start = from /\ from < End /\ ps.last \in from .. End /\ PrefixesOK(ps)
      /\ ps.last \in DOMAIN Code /\ ps.last - ps.start < MaximumSize
      /\ Code[ps.last] \in DOMAIN Flag
  BY DEF DecoderInv, Typed, PrefixesPlaced, Opening, MorePrefixes, IsLegacy
<1>2. PrefixesOK(ps') /\ ps'.start = ps.start /\ ps'.last = ps.last + 1
  <2>1. ps.start \in Nat /\ ps.last \in Nat /\ ps.last - ps.start \in Indices
    BY <1>0, <1>1, MaximumSizeAssumption DEF Indices
  <2> QED
    BY <1>1, <2>1, TakeCovers
<1>3. Typed'
  BY <1>0, <1>2 DEF DecoderInv, Typed, inner, Opening, Decoding
<1>4. PrefixesPlaced'
  BY <1>0, <1>1, <1>2, MaximumSizeAssumption DEF PrefixesPlaced, Opening, Inside, Decoding
<1>5. RoomForOne' /\ CursorPlaced'
  BY <1>0 DEF RoomForOne, CursorPlaced, Opening, Inside, Decoding
<1>6. ResultsTile'
  BY <1>0, <1>2 DEF DecoderInv, ResultsTile
<1>7. ReadsInside' /\ RoomKept'
  BY <1>0, <1>1, OnlyRead
<1> QED
  BY <1>3, <1>4, <1>5, <1>6, <1>7 DEF DecoderInv

LEMMA ReadVexInv == ASSUME DecoderInv, ReadVex PROVE DecoderInv'
<1> USE DEF ReadVex
<1>0. /\ call' = call /\ Code' = Code /\ End' = End /\ Len(Code) \in Nat
      /\ DOMAIN Code = 1 .. Len(Code) /\ End = Len(Code) + 1 /\ from \in 1 .. End
      /\ pc = "prefixes" /\ pc' = "prefixed"
  BY Common
<1>1. /\ ps.start = from /\ from < End /\ ps.last \in from .. End /\ PrefixesOK(ps)
      /\ ps.last - ps.start <= MaximumSize /\ ("VEX" \in ps.decoded => ps.last > 1)
  BY <1>0 DEF DecoderInv, Typed, PrefixesPlaced, Opening
<1>2. /\ PrefixesOK(ps') /\ ps'.start = ps.start /\ ps'.last \in ps.last .. End
      /\ ps'.last - ps'.start <= MaximumSize /\ (ps' = ps \/ ps'.last >= ps.last + 2)
  <2>1. ps.start \in Nat /\ ps.last \in ps.start .. Len(Code) + 1
    BY <1>0, <1>1
  <2> QED
    BY <1>0, <1>1, <2>1, VexCovers
<1>3. read' \subseteq read \cup DOMAIN Code
  <2>1. ps.last \in 1 .. Len(Code) + 1
    BY <1>0, <1>1
  <2>2. VexRead(ps, Code, call.dt) \subseteq 1 .. Len(Code)
    BY <1>0, <2>1, VexReadInside
  <2> QED
    BY <1>0, <2>2
<1>4. Typed'
  BY <1>0, <1>2 DEF DecoderInv, Typed, inner, Opening, Decoding
<1>5. PrefixesPlaced'
  <2>1. "VEX" \in ps'.decoded => ps'.last > 1
    BY <1>0, <1>1, <1>2
  <2> QED
    BY <1>0, <1>1, <1>2, <2>1 DEF PrefixesPlaced, Opening, Inside, Decoding
<1>6. RoomForOne' /\ CursorPlaced'
  BY <1>0 DEF RoomForOne, CursorPlaced, Opening, Inside, Decoding
<1>7. ResultsTile'
  BY <1>0, <1>2 DEF DecoderInv, ResultsTile
<1>8. ReadsInside' /\ RoomKept'
  BY <1>0, <1>3, OnlyRead
<1> QED
  BY <1>4, <1>5, <1>6, <1>7, <1>8 DEF DecoderInv

\* The prefixes without an instruction end where the next one is looked for.
LEMMA DropPrefixesInv == ASSUME DecoderInv, DropPrefixes PROVE DecoderInv'
<1> USE DEF DropPrefixes
<1>0. /\ call' = call /\ Code' = Code /\ End' = End /\ End \in Nat /\ call.room \in Nat
      /\ from \in 1 .. End /\ Len(entries) \in Nat /\ LastEnd(entries) \in Nat
      /\ pc = "prefixed" /\ pc' \in {"next", "done"} /\ from' \in {from, ps.last}
      /\ pc' = "next" => from' = ps.last
  BY Common DEF Return
<1>1. /\ ps.start = from /\ ps.last \in from .. End /\ PrefixesOK(ps)
  BY <1>0 DEF DecoderInv, Typed, PrefixesPlaced, Opening
<1>2. ps.last - 1 \in Nat /\ ps.start \in Nat /\ ps.start <= ps.last - 1
  BY <1>0, <1>1 DEF OnlyPrefixes, PrefixSize
<1>3. Tiles(entries, call.fcOnly) /\ Continues(ps.start, LastEnd(entries), call.fcOnly)
  BY <1>0 DEF DecoderInv, ResultsTile
<1>4. entries \in Seq(Results) /\ Len(entries) <= call.room
  BY DEF DecoderInv, Typed, RoomKept
<1> DEFINE more == entries \o Undecodable(ps.start, ps.last - 1)
<1>5. /\ more \in Seq(Results) /\ Len(more) = Len(entries) + (ps.last - ps.start)
      /\ Tiles(more, call.fcOnly) /\ LastEnd(more) = ps.last
  <2>1. /\ more \in Seq(Results) /\ Len(more) = Len(entries) + (ps.last - 1 - ps.start + 1)
        /\ Tiles(more, call.fcOnly) /\ LastEnd(more) = ps.last - 1 + 1
    BY <1>2, <1>3, <1>4, UndecodableTiles
  <2> HIDE DEF more
  <2> QED
    BY <1>0, <1>1, <2>1
<1>6. \/ entries' = entries /\ (pc' = "next" => call.fcOnly)
      \/ entries' = more /\ ~Overfull(PrefixSize)
  BY <1>0 DEF Return
<1> HIDE DEF more
<1>7. entries' \in Seq(Results) /\ Len(entries') <= call.room /\ Tiles(entries', call.fcOnly)
  <2>1. CASE entries' = entries
    BY <1>3, <1>4, <2>1
  <2>2. CASE entries' = more /\ ~Overfull(PrefixSize)
    <3>1. Len(more) <= call.room
      BY <1>0, <1>1, <1>5, <2>2 DEF Overfull, PrefixSize
    <3> QED
      BY <1>5, <2>2, <3>1
  <2> QED
    BY <1>6, <2>1, <2>2
<1>8. pc' = "next" => Continues(from', LastEnd(entries'), call.fcOnly)
  BY <1>0, <1>1, <1>3, <1>5, <1>6 DEF Continues
<1>9. res' \in {"NONE", "SUCCESS", "MEMORYERR"}
  BY DEF DecoderInv, Typed, Return
<1>10. Typed'
  BY <1>0, <1>1, <1>7, <1>9 DEF DecoderInv, Typed, inner, Opening, Decoding, Inside
<1>11. PrefixesPlaced' /\ RoomForOne' /\ CursorPlaced'
  BY <1>0 DEF PrefixesPlaced, RoomForOne, CursorPlaced, Opening, Inside, Decoding
<1>12. ResultsTile'
  BY <1>0, <1>7, <1>8 DEF ResultsTile
<1>13. ReadsInside' /\ RoomKept'
  BY <1>0, <1>7 DEF DecoderInv, ReadsInside, RoomKept
<1> QED
  BY <1>10, <1>11, <1>12, <1>13 DEF DecoderInv

\* An instruction is looked at if a byte is left for it in the code and in
\* the limit, and room for a result.
LEMMA StartInstructionInv == ASSUME DecoderInv, StartInstruction PROVE DecoderInv'
<1> USE DEF StartInstruction
<1>0. /\ call' = call /\ Code' = Code /\ End' = End /\ End \in Nat /\ call.room \in Nat
      /\ from \in 1 .. End /\ Len(entries) \in Nat
      /\ pc = "prefixed" /\ pc' \in {"opcode", "done"} /\ from' = ps.last
  BY Common DEF Return
<1>1. /\ ps.start = from /\ from < End /\ ps.last \in from .. End /\ PrefixesOK(ps)
      /\ ps.last - ps.start <= MaximumSize /\ ("VEX" \in ps.decoded => ps.last > 1)
  BY <1>0 DEF DecoderInv, Typed, PrefixesPlaced, Opening
<1>2. ps.last < End /\ ps.last - ps.start < MaximumSize
  BY <1>0, <1>1, MaximumSizeAssumption, SMTT(40) DEF OnlyPrefixes, PrefixSize
<1>3. /\ PrefixesOK(ps') /\ ps'.start = ps.start /\ ps'.last = ps.last
      /\ "VEX" \in ps'.decoded => ps.last > 1
  <2>1. CASE call.dt = 64
    BY <1>1, <2>1, In64Covers DEF Covers
  <2>2. CASE call.dt # 64
    BY <1>1, <2>2
  <2> QED
    BY <2>1, <2>2
<1>4. pc' = "opcode" => Len(entries) + 1 <= call.room
  BY <1>0 DEF Overfull, Return
<1>5. /\ ci' \in [code : 1 .. End + 1, len : Int]
      /\ pc' = "opcode" => ci'.code = ps.last /\ ci'.len = End - ps.last
  <2>1. CASE UNCHANGED ci /\ pc' = "done"
    BY <2>1 DEF DecoderInv, Typed
  <2>2. CASE ci' = [code |-> ps.last, len |-> End - ps.last]
    BY <1>0, <1>1, <2>2
  <2> QED
    BY <2>1, <2>2 DEF Return
<1>6. /\ res' \in {"NONE", "SUCCESS", "MEMORYERR"} /\ modrm' \in Bytes
      /\ lockable' \in BOOLEAN /\ k' \in Nat
  <2>1. lockable' = FALSE
    OBVIOUS
  <2>2. lockable' \in BOOLEAN
    BY <2>1, Zenon
  <2>3. res' \in {"NONE", "SUCCESS", "MEMORYERR"} /\ modrm' \in Bytes /\ k' \in Nat
    BY DEF DecoderInv, Typed, Return, Bytes
  <2> QED
    BY <2>2, <2>3
<1>7. Typed'
  <2>1. from' \in 1 .. End /\ (pc' \in Decoding => ci'.len >= 0)
    BY <1>0, <1>1, <1>2, <1>5 DEF Decoding
  <2>2. pc' \in {"next", "done"} \cup Opening \cup Inside
    BY <1>0 DEF Inside, Decoding
  <2> QED
    BY <1>0, <1>3, <1>5, <1>6, <2>1, <2>2, Zenon DEF DecoderInv, Typed
<1>8. PrefixesPlaced'
  BY <1>0, <1>1, <1>2, <1>3 DEF PrefixesPlaced, Opening, Inside, Decoding
<1>9. RoomForOne' /\ CursorPlaced'
  BY <1>0, <1>4, <1>5 DEF RoomForOne, CursorPlaced, Inside, Decoding
<1>10. ResultsTile'
  BY <1>0, <1>3 DEF DecoderInv, ResultsTile
<1>11. ReadsInside' /\ RoomKept'
  BY <1>0, OnlyRead
<1> QED
  BY <1>7, <1>8, <1>9, <1>10, <1>11 DEF DecoderInv

LEMMA LookupInv == ASSUME DecoderInv, Lookup PROVE DecoderInv'
<1> USE DEF Lookup
<1> DEFINE found == inst_lookup(Code, ci.code, ci.len, ps, call.dt)
<1>0. /\ call' = call /\ Code' = Code /\ End' = End /\ End \in Nat
      /\ DOMAIN Code = 1 .. Len(Code) /\ End = Len(Code) + 1 /\ Len(Code) \in Nat
      /\ from \in 1 .. End
      /\ pc = "opcode" /\ pc' \in {"undecodable", "modrm"}
      /\ pc' = "modrm" => found.ii # None
      /\ UNCHANGED <<from, modrm, k, lockable, entries, next, res>>
  BY Common, Zenon
<1>1. /\ ps.last = from /\ from < End /\ ps.start \in 1 .. from /\ PrefixesOK(ps)
      /\ from - ps.start < MaximumSize /\ ("VEX" \in ps.decoded => from > 1)
      /\ ci.code = from /\ ci.len = End - from
  BY <1>0 DEF DecoderInv, Typed, PrefixesPlaced, CursorPlaced, Inside, Decoding
<1>2. Outcome(found, ps, ci.len, IF "VEX" \in ps.decoded THEN 0 ELSE 1)
  BY <1>0, <1>1, LookupOutcome
<1>3. /\ ci' = [code |-> ci.code + found.taken - 1, len |-> ci.len - found.taken]
      /\ read' = read \cup (ci.code .. ci.code + found.read - 1)
  BY DEF OpcodeRead
<1>4. ps' = found.ps \/ ps' = DropOpSize(found.ps)
  BY Zenon
<1> HIDE DEF found
<1>5. PrefixesOK(ps') /\ ps'.start = ps.start /\ ps'.last = from
  BY <1>1, <1>2, <1>4, DropOpSizeCovers DEF Outcome, Covers
<1>6. /\ found.taken \in Nat /\ found.read \in Nat /\ found.read <= ci.len
      /\ found.taken <= found.read + 1 /\ (found.taken = 0 => from > 1)
      /\ pc' = "modrm" => found.taken \in 1 .. ci.len
  <2>1. "VEX" \notin ps.decoded => 1 <= found.taken
    BY <1>2 DEF Outcome
  <2>2. /\ found.taken \in Nat /\ found.read \in Nat /\ found.read <= ci.len
        /\ found.taken <= found.read + 1
        /\ found.ii # None => found.taken \in 1 .. ci.len
    BY <1>2 DEF Outcome
  <2>3. found.taken = 0 => from > 1
    BY <1>1, <2>1
  <2> QED
    BY <1>0, <2>2, <2>3
<1>7. /\ ci' \in [code : 1 .. End + 1, len : Int]
      /\ pc' = "modrm" => ci'.code + 1 + ci'.len = End /\ ci'.code >= from /\ ci'.len >= 0
  <2>1. from \in 1 .. End /\ from < End /\ End \in Nat /\ ci.code = from /\ ci.len = End - from
    BY <1>0, <1>1
  <2>2. ci.code + found.taken - 1 \in 1 .. End + 1 /\ ci.len - found.taken \in Int
    BY ONLY <2>1, <1>6
  <2>3. pc' = "modrm" =>
          /\ (ci.code + found.taken - 1) + 1 + (ci.len - found.taken) = End
          /\ ci.code + found.taken - 1 >= from /\ ci.len - found.taken >= 0
    BY ONLY <2>1, <1>6
  <2>4. ci'.code = ci.code + found.taken - 1 /\ ci'.len = ci.len - found.taken
    BY <1>3
  <2>5. ci' \in [code : 1 .. End + 1, len : Int]
    BY <1>3, <2>2
  <2> QED
    BY <2>3, <2>4, <2>5, Zenon
<1>8. read' \subseteq read \cup DOMAIN Code
  <2>1. /\ from \in 1 .. End /\ End = Len(Code) + 1 /\ Len(Code) \in Nat
        /\ ci.code = from /\ ci.len = End - from
    BY <1>0, <1>1
  <2>2. found.read \in Nat /\ found.read <= ci.len
    BY <1>6
  <2>3. ci.code .. ci.code + found.read - 1 \subseteq 1 .. Len(Code)
    BY ONLY <2>1, <2>2
  <2> QED
    BY <1>0, <1>3, <2>3
<1>9. Typed'
  <2>1. pc' \in {"next", "done"} \cup Opening \cup Inside /\ (pc' \in Decoding => ci'.len >= 0)
    BY <1>0, <1>7 DEF Inside, Decoding
  <2> QED
    BY <1>0, <1>5, <1>7, <2>1, Zenon DEF DecoderInv, Typed
<1>10. PrefixesPlaced'
  BY <1>0, <1>1, <1>5 DEF PrefixesPlaced, Opening, Inside, Decoding
<1>11. RoomForOne' /\ CursorPlaced'
  BY <1>0, <1>7 DEF DecoderInv, RoomForOne, CursorPlaced, Opening, Inside, Decoding
<1>12. ResultsTile'
  BY <1>0, <1>5 DEF DecoderInv, ResultsTile
<1>13. ReadsInside' /\ RoomKept'
  BY <1>0, <1>8, OnlyRead
<1> QED
  BY <1>9, <1>10, <1>11, <1>12, <1>13 DEF DecoderInv

\* The steps from ModR/M to the end of the instruction keep the prefixes'
\* places, the results and the room.
LEMMA StaysInside ==
    ASSUME DecoderInv, call' = call, pc \in Decoding \ {"opcode"},
           pc' \in {"operands", "suffix", "whole", "undecodable"},
           UNCHANGED <<from, entries>>, ps'.start = ps.start, ps'.last = ps.last,
           read' \subseteq read \cup DOMAIN Code
    PROVE  PrefixesPlaced' /\ RoomForOne' /\ ResultsTile' /\ ReadsInside' /\ RoomKept'
<1>0. /\ call' = call /\ Code' = Code /\ End' = End /\ pc' \in Inside /\ pc' # "opcode"
      /\ pc \in Inside /\ pc' \notin Opening /\ pc # "next" /\ pc' # "next" /\ pc # "done"
  BY CallKept DEF Inside, Decoding, Opening
<1>1. PrefixesPlaced'
  BY <1>0 DEF DecoderInv, PrefixesPlaced
<1>2. RoomForOne'
  BY <1>0 DEF DecoderInv, RoomForOne
<1>3. ResultsTile'
  BY <1>0 DEF DecoderInv, ResultsTile
<1> QED
  BY <1>0, <1>1, <1>2, <1>3, OnlyRead

\* The ModR/M byte is one of the opcode's or the next one.
LEMMA ModRMInv == ASSUME DecoderInv, ModRM PROVE DecoderInv'
<1> USE DEF ModRM
<1> DEFINE more == IF "MODRM_INCLUDED" \in inst.flags THEN 0 ELSE 1
           at == ci.code + more
<1>0. /\ call' = call /\ Code' = Code /\ End' = End /\ End \in Nat
      /\ DOMAIN Code = 1 .. Len(Code) /\ End = Len(Code) + 1 /\ Len(Code) \in Nat
      /\ from \in 1 .. End
      /\ pc = "modrm" /\ pc' \in {"undecodable", "operands"}
      /\ UNCHANGED <<call, from, ps, inst, k, lockable, entries, next, res>>
  BY Common
<1>1. /\ ci \in [code : 1 .. End + 1, len : Int] /\ ci.len >= 0
      /\ ci.code + 1 + ci.len = End /\ ci.code >= from /\ more \in {0, 1}
  BY <1>0 DEF DecoderInv, Typed, CursorPlaced, Decoding
<1>2. CASE ci.len < more
  <2>1. /\ pc' = "undecodable" /\ ci' = [code |-> at, len |-> ci.len - more]
        /\ UNCHANGED <<modrm, read>>
    BY <1>2
  <2> HIDE DEF more
  <2>2. ci' \in [code : 1 .. End + 1, len : Int]
    BY <1>0, <1>1, <2>1
  <2>3. Typed'
    <3>1. pc' \in {"next", "done"} \cup Opening \cup Inside /\ pc' \notin Decoding
      BY <2>1 DEF Inside, Decoding
    <3> QED
      BY <1>0, <2>1, <2>2, <3>1, Zenon DEF DecoderInv, Typed
  <2>4. CursorPlaced'
    BY <2>1 DEF CursorPlaced
  <2>5. pc \in Decoding \ {"opcode"} /\ read' \subseteq read \cup DOMAIN Code
    BY <1>0, <2>1 DEF Decoding
  <2> QED
    BY <1>0, <2>1, <2>3, <2>4, <2>5, StaysInside DEF DecoderInv
<1>3. CASE ~(ci.len < more)
  <2>1. /\ modrm' = Byte(Code, at) /\ read' = read \cup {at}
        /\ ci' = [code |-> at + 1, len |-> ci.len - more]
    BY <1>3
  <2> HIDE DEF more
  <2>2. /\ ci' \in [code : 1 .. End + 1, len : Int] /\ ci'.len >= 0
        /\ ci'.code + ci'.len = End /\ ci'.code > from /\ at \in DOMAIN Code
    <3>1. at \in Int /\ at >= from /\ at + 1 + (ci.len - more) = End
      BY <1>0, <1>1
    <3> HIDE DEF at
    <3>2. ci.len - more \in Int /\ ci.len - more >= 0
      BY <1>1, <1>3
    <3>3. at + 1 \in 1 .. End + 1 /\ at + 1 > from /\ at \in 1 .. Len(Code)
      BY ONLY <1>0, <3>1, <3>2
    <3> QED
      BY <1>0, <2>1, <3>1, <3>2, <3>3
  <2>3. modrm' \in Bytes
    BY <2>1, CallFacts DEF DecoderInv, Typed
  <2>4. Typed'
    <3>1. pc' \in {"next", "done"} \cup Opening \cup Inside
      BY <1>0 DEF Inside, Decoding
    <3> QED
      BY <1>0, <2>2, <2>3, <3>1, Zenon DEF DecoderInv, Typed
  <2>5. CursorPlaced'
    BY <1>0, <2>2 DEF CursorPlaced
  <2>6. pc \in Decoding \ {"opcode"} /\ read' \subseteq read \cup DOMAIN Code
    BY <1>0, <2>1, <2>2 DEF Decoding
  <2> QED
    BY <1>0, <2>4, <2>5, <2>6, StaysInside DEF DecoderInv
<1> QED
  BY <1>2, <1>3

LEMMA NoModRMInv == ASSUME DecoderInv, NoModRM PROVE DecoderInv'
<1> USE DEF NoModRM
<1>0. /\ call' = call /\ Code' = Code /\ End' = End /\ End \in Nat /\ from \in 1 .. End
      /\ pc = "modrm" /\ pc' = "operands" /\ ci' = [ci EXCEPT !.code = @ + 1]
      /\ UNCHANGED <<call, from, ps, inst, modrm, k, lockable, entries, next, res, read>>
  BY Common
<1>1. /\ ci \in [code : 1 .. End + 1, len : Int] /\ ci.len >= 0
      /\ ci.code + 1 + ci.len = End /\ ci.code >= from
  BY <1>0 DEF DecoderInv, Typed, CursorPlaced, Decoding
<1>2. /\ ci' \in [code : 1 .. End + 1, len : Int] /\ ci'.len >= 0
      /\ ci'.code + ci'.len = End /\ ci'.code > from
  BY <1>0, <1>1
<1>3. Typed'
  BY <1>0, <1>2 DEF DecoderInv, Typed, Inside, Decoding
<1>4. CursorPlaced'
  BY <1>0, <1>2 DEF CursorPlaced
<1>5. pc \in Decoding \ {"opcode"}
  BY <1>0 DEF Decoding
<1> QED
  BY <1>0, <1>3, <1>4, <1>5, StaysInside DEF DecoderInv

\* What is taken lies between the cursor and the end; less is read, and the
\* length turns negative, if not enough is left.
LEMMA TakeInside ==
    ASSUME DecoderInv, pc \in {"operands", "suffix"}, NEW ahead \in Nat, NEW more \in Nat,
           Take(ahead, more)
    PROVE  /\ ci' \in [code : 1 .. End + 1, len : Int]
           /\ read' \subseteq read \cup DOMAIN Code
           /\ ci.len >= ahead + more =>
                ci'.len >= 0 /\ ci'.code + ci'.len = End /\ ci'.code > from
<1> DEFINE enough == ci.len >= ahead + more
           got == IF enough THEN ahead + more ELSE IF ci.len >= ahead THEN ahead ELSE 0
<1>0. /\ DOMAIN Code = 1 .. Len(Code) /\ End = Len(Code) + 1 /\ Len(Code) \in Nat
      /\ from \in 1 .. End
  BY CallFacts DEF DecoderInv, Typed
<1>1. /\ ci.code \in 1 .. End + 1 /\ ci.len \in Int /\ ci.len >= 0
      /\ ci.code + ci.len = End /\ ci.code > from
  BY DEF DecoderInv, Typed, CursorPlaced, Decoding
<1>2. /\ ci' = [code |-> ci.code + got, len |-> ci.len - ahead - more]
      /\ read' = read \cup (ci.code .. ci.code + got - 1)
  BY DEF Take
<1>3. got \in Nat /\ got <= ci.len /\ (enough => got = ahead + more)
  <2>1. CASE enough
    <3>1. got = ahead + more /\ ahead + more \in Nat
      BY <2>1
    <3> HIDE DEF got
    <3> QED
      BY <2>1, <3>1
  <2>2. CASE ~enough /\ ci.len >= ahead
    <3>1. got = ahead
      BY <2>2
    <3> HIDE DEF got
    <3> QED
      BY <2>2, <3>1
  <2>3. CASE ~enough /\ ~(ci.len >= ahead)
    <3>1. got = 0
      BY <2>3
    <3> HIDE DEF got
    <3> QED
      BY <1>1, <2>3, <3>1
  <2> QED
    BY <2>1, <2>2, <2>3
<1> HIDE DEF got
<1>4. ci.code + got \in 1 .. End + 1 /\ ci.len - ahead - more \in Int
  <2>1. got \in Nat /\ got <= ci.len
    BY <1>3
  <2>2. ci.code + got \in 1 .. End + 1
    BY ONLY <1>0, <1>1, <2>1
  <2>3. ci.len - ahead - more \in Int
    BY <1>1
  <2> QED
    BY <2>2, <2>3
<1>5. ci' \in [code : 1 .. End + 1, len : Int]
  BY <1>2, <1>4
<1>6. ci.code .. ci.code + got - 1 \subseteq DOMAIN Code
  BY <1>0, <1>1, <1>3, SMTT(40)
<1>7. ci'.code = ci.code + got /\ ci'.len = ci.len - ahead - more
  BY <1>2
<1>8. enough => ci'.len >= 0 /\ ci'.code + ci'.len = End /\ ci'.code > from
  BY <1>0, <1>1, <1>3, <1>7, SMTT(40)
<1> QED
  BY <1>2, <1>5, <1>6, <1>8

LEMMA ContextAdr == call \in Calls => Context.adr \in Modes
BY CallFacts DEF Context, AdrSize, Modes

LEMMA ExtractOperandInv == ASSUME DecoderInv, ExtractOperand PROVE DecoderInv'
<1> USE DEF ExtractOperand
<1> DEFINE type == inst.ops[k]
           sib == IF HasSib(type, Context) THEN Byte(Code, ci.code) ELSE 0
           ahead == IF HasSib(type, Context) THEN 1 ELSE 0
           more == Size(type, Context, sib)
           marked == [ps EXCEPT !.used = @ \cup Marks(type, Context, sib)]
<1>0. /\ call' = call /\ Code' = Code /\ End' = End /\ pc = "operands"
      /\ UNCHANGED <<call, from, inst, modrm, entries, next, res>>
  BY Common
<1>1. /\ PrefixesOK(ps) /\ k \in Nat /\ lockable \in BOOLEAN
      /\ ci \in [code : 1 .. End + 1, len : Int] /\ ci.len >= 0
  BY <1>0 DEF DecoderInv, Typed, Decoding
<1>2. ahead \in Nat /\ more \in Nat
  <2>1. Context.adr \in Modes
    BY ContextAdr DEF DecoderInv, Typed
  <2> HIDE DEF sib, type
  <2> QED
    BY <2>1, SizeInNat
<1>3. pc \in Decoding \ {"opcode"}
  BY <1>0 DEF Decoding
<1>4. CASE Invalid(type, Context)
  <2>1. pc' = "undecodable" /\ UNCHANGED <<ci, read, ps, lockable, k>>
    BY <1>4
  <2>2. Typed'
    BY <1>0, <2>1 DEF DecoderInv, Typed, Inside, Decoding
  <2>3. CursorPlaced'
    BY <2>1 DEF CursorPlaced
  <2> QED
    BY <1>0, <1>3, <2>1, <2>2, <2>3, StaysInside DEF DecoderInv
<1>5. CASE ~Invalid(type, Context)
  <2>1. /\ Take(ahead, more)
        /\ pc' = IF ci.len < ahead + more THEN "undecodable" ELSE "operands"
        /\ ps' = marked /\ k' = k + 1
        /\ lockable' = (lockable \/ Lockable(type, Context))
    BY <1>5, Zenon
  <2>2. Covers(marked, ps)
    <3> DEFINE marks == ps.used \cup Marks(type, Context, sib)
    <3> HIDE DEF marks
    <3>1. Covers([ps EXCEPT !.used = marks], ps)
      BY <1>1, UsedCovers
    <3> QED
      BY <3>1 DEF marks
  <2>3. lockable' \in BOOLEAN
    BY <2>1, Zenon
  <2> HIDE DEF marked, more, ahead, sib, type
  <2>4. /\ ci' \in [code : 1 .. End + 1, len : Int]
        /\ read' \subseteq read \cup DOMAIN Code
        /\ ci.len >= ahead + more =>
             ci'.len >= 0 /\ ci'.code + ci'.len = End /\ ci'.code > from
    BY <1>0, <1>2, <2>1, TakeInside
  <2>5. pc' = "operands" => ci'.len >= 0 /\ ci'.code + ci'.len = End /\ ci'.code > from
    BY <1>1, <1>2, <2>1, <2>4
  <2>6. pc' \in {"undecodable", "operands"}
    BY <2>1
  <2>7. Typed'
    <3>1. /\ pc' \in {"next", "done"} \cup Opening \cup Inside
          /\ pc' \in Decoding => ci'.len >= 0
      BY <2>5, <2>6 DEF Inside, Decoding
    <3>2. PrefixesOK(ps') /\ k' \in Nat
      BY <1>1, <2>1, <2>2 DEF Covers
    <3> QED
      BY <1>0, <2>3, <2>4, <3>1, <3>2, Zenon DEF DecoderInv, Typed
  <2>8. CursorPlaced'
    BY <1>0, <2>5, <2>6 DEF CursorPlaced
  <2>9. ps'.start = ps.start /\ ps'.last = ps.last
    BY <2>1, <2>2 DEF Covers
  <2> QED
    BY <1>0, <1>3, <2>4, <2>6, <2>7, <2>8, <2>9, StaysInside DEF DecoderInv
<1> QED
  BY <1>4, <1>5

\* The suffix of a 3DNow! instruction is one byte, if one is left.
LEMMA ThreeDNowInv == ASSUME DecoderInv, ThreeDNow PROVE DecoderInv'
<1> USE DEF ThreeDNow
<1> DEFINE found == inst_lookup_3dnow(Code, ci.code, ci.len)
<1>0. /\ call' = call /\ Code' = Code /\ End' = End /\ DOMAIN Code = 1 .. Len(Code)
      /\ End = Len(Code) + 1 /\ Len(Code) \in Nat /\ from \in 1 .. End
      /\ pc = "operands" /\ pc \in Decoding \ {"opcode"}
      /\ UNCHANGED <<call, from, ps, modrm, k, lockable, entries, next, res>>
  BY Common DEF OperandsDone, Decoding
<1>1. /\ ci \in [code : 1 .. End + 1, len : Int] /\ ci.len >= 0
      /\ ci.code + ci.len = End /\ ci.code > from
  BY <1>0 DEF DecoderInv, Typed, CursorPlaced, Decoding
<1>2. found.read \in {0, 1} /\ found.read <= ci.len /\ (found.ii # None => ci.len >= 1)
  BY <1>1, SuffixOutcome
<1>3. /\ pc' = IF found.ii = None THEN "undecodable" ELSE "suffix"
      /\ ci' = IF found.ii = None THEN ci ELSE [code |-> ci.code + 1, len |-> ci.len - 1]
      /\ read' = read \cup (ci.code .. ci.code + found.read - 1)
  BY Zenon
<1> HIDE DEF found
<1>4. read' \subseteq read \cup DOMAIN Code
  BY <1>0, <1>1, <1>2, <1>3
<1>5. /\ ci' \in [code : 1 .. End + 1, len : Int]
      /\ pc' = "suffix" => ci'.len >= 0 /\ ci'.code + ci'.len = End /\ ci'.code > from
  <2>1. CASE found.ii = None
    BY <1>1, <1>3, <2>1
  <2>2. CASE found.ii # None
    <3>1. ci' = [code |-> ci.code + 1, len |-> ci.len - 1]
      BY <1>3, <2>2
    <3>2. ci.code + 1 \in 1 .. End + 1 /\ ci.len - 1 \in Int /\ ci.len - 1 >= 0
      BY <1>0, <1>1, <1>2, <2>2
    <3> QED
      BY <1>0, <1>1, <3>1, <3>2
  <2> QED
    BY <2>1, <2>2
<1>6. pc' \in {"undecodable", "suffix"}
  BY <1>3
<1>7. Typed'
  <2>1. /\ pc' \in {"next", "done"} \cup Opening \cup Inside
        /\ pc' \in Decoding => ci'.len >= 0
    BY <1>5, <1>6 DEF Inside, Decoding
  <2> QED
    BY <1>0, <1>5, <2>1, Zenon DEF DecoderInv, Typed
<1>8. CursorPlaced'
  BY <1>0, <1>5, <1>6 DEF CursorPlaced
<1> QED
  BY <1>0, <1>4, <1>6, <1>7, <1>8, StaysInside DEF DecoderInv

LEMMA SuffixInv == ASSUME DecoderInv, Suffix PROVE DecoderInv'
<1> USE DEF Suffix
<1>0. /\ call' = call /\ Code' = Code /\ End' = End
      /\ pc \in {"operands", "suffix"} /\ pc \in Decoding \ {"opcode"}
      /\ pc' \in {"undecodable", "whole"}
      /\ UNCHANGED <<call, from, ps, inst, modrm, k, lockable, entries, next, res>>
  BY Common DEF OperandsDone, Decoding
<1>1. /\ ci \in [code : 1 .. End + 1, len : Int] /\ ci.len >= 0
      /\ ci.code + ci.len = End /\ ci.code > from
  BY <1>0 DEF DecoderInv, Typed, CursorPlaced, Decoding
<1>2. /\ ci' \in [code : 1 .. End + 1, len : Int] /\ read' \subseteq read \cup DOMAIN Code
      /\ pc' = "whole" => ci'.len >= 0 /\ ci'.code + ci'.len = End /\ ci'.code > from
  <2>1. CASE "PSEUDO_OPCODE" \in inst.flags
    <3>1. Take(1, 0) /\ (pc' = "whole" => ~(ci.len < 1))
      BY <2>1
    <3>2. /\ ci' \in [code : 1 .. End + 1, len : Int]
          /\ read' \subseteq read \cup DOMAIN Code
          /\ ci.len >= 1 + 0 =>
               ci'.len >= 0 /\ ci'.code + ci'.len = End /\ ci'.code > from
      BY <1>0, <3>1, TakeInside
    <3> QED
      BY <1>1, <3>1, <3>2
  <2>2. CASE "PSEUDO_OPCODE" \notin inst.flags
    BY <1>1, <2>2
  <2> QED
    BY <2>1, <2>2
<1>3. Typed'
  <2>1. /\ pc' \in {"next", "done"} \cup Opening \cup Inside
        /\ pc' \in Decoding => ci'.len >= 0
    BY <1>0, <1>2 DEF Inside, Decoding
  <2> QED
    BY <1>0, <1>2, <2>1, Zenon DEF DecoderInv, Typed
<1>4. CursorPlaced'
  BY <1>0, <1>2 DEF CursorPlaced
<1> QED
  BY <1>0, <1>2, <1>3, <1>4, StaysInside DEF DecoderInv

LEMMA DropInstructionInv == ASSUME DecoderInv, DropInstruction PROVE DecoderInv'
<1> USE DEF DropInstruction
<1>0. /\ call' = call /\ Code' = Code /\ End' = End
      /\ pc = "whole" /\ pc \in Decoding \ {"opcode"} /\ pc' = "undecodable"
      /\ UNCHANGED <<from, ps, ci, inst, modrm, k, lockable, entries, next, res, read>>
  BY Common DEF inner, Decoding
<1>1. Typed'
  BY <1>0 DEF DecoderInv, Typed, Inside, Decoding
<1>2. CursorPlaced'
  BY <1>0 DEF CursorPlaced
<1> QED
  BY <1>0, <1>1, <1>2, StaysInside DEF DecoderInv

-----------------------------------------------------------------------------
(* The steps that record results.                                          *)

\* After an instruction, or what is given back for it, its successor is
\* looked for where the results end.
LEMMA Recorded ==
    ASSUME DecoderInv, call' = call, pc \in Inside, pc' \in {"next", "done"},
           PrefixesOK(ps)', entries' \in Seq(Results), Len(entries') <= call.room,
           Tiles(entries', call.fcOnly), from' \in 1 .. End, next' \in 1 .. End,
           pc' = "next" => Continues(from', LastEnd(entries'), call.fcOnly),
           res' \in {"NONE", "SUCCESS", "MEMORYERR"},
           UNCHANGED inner, read' \subseteq read \cup DOMAIN Code
    PROVE  DecoderInv'
<1>0. Code' = Code /\ End' = End
  BY CallKept
<1>1. Typed'
  BY <1>0 DEF DecoderInv, Typed, inner, Opening, Decoding, Inside
<1>2. PrefixesPlaced' /\ RoomForOne' /\ CursorPlaced'
  BY DEF PrefixesPlaced, RoomForOne, CursorPlaced, Opening, Inside, Decoding
<1>3. ResultsTile'
  BY DEF ResultsTile
<1>4. ReadsInside' /\ RoomKept'
  BY <1>0 DEF DecoderInv, ReadsInside, RoomKept
<1> QED
  BY <1>1, <1>2, <1>3, <1>4 DEF DecoderInv

\* What is known of the results and the prefixes inside an instruction.
LEMMA InsideFacts ==
    ASSUME DecoderInv, pc \in Inside
    PROVE  /\ ps.last = from /\ from < End /\ ps.start \in 1 .. from
           /\ from - ps.start < MaximumSize /\ PrefixesOK(ps)
           /\ entries \in Seq(Results) /\ Len(entries) \in Nat
           /\ Len(entries) + 1 <= call.room /\ Tiles(entries, call.fcOnly)
           /\ Continues(ps.start, LastEnd(entries), call.fcOnly)
           /\ LastEnd(entries) \in Nat /\ End \in Nat /\ from \in 1 .. End
           /\ next \in 1 .. End /\ call.room \in Nat
<1>1. /\ Len(entries) \in Nat /\ LastEnd(entries) \in Nat /\ End \in Nat
      /\ call.room \in Nat /\ from \in 1 .. End /\ next \in 1 .. End
  BY CallFacts, EndInNat DEF DecoderInv, Typed, LastEnd
<1>2. pc # "next" /\ pc # "done"
  BY DEF Inside, Decoding
<1>3. Tiles(entries, call.fcOnly) /\ Continues(ps.start, LastEnd(entries), call.fcOnly)
  BY <1>2 DEF DecoderInv, ResultsTile
<1> QED
  BY <1>1, <1>3 DEF DecoderInv, Typed, PrefixesPlaced, RoomForOne

LEMMA RecordInstructionInv == ASSUME DecoderInv, RecordInstruction PROVE DecoderInv'
<1> USE DEF RecordInstruction
<1> DEFINE masked == prefixes_set_unused_mask([ps EXCEPT !.used = Used])
           filtered == call.fcOnly /\ inst.fc = "NONE"
           r == [addr |-> ps.start, size |-> ci.code - ps.start, whole |-> TRUE,
                 unused |-> masked.unused]
           more == Append(entries, r)
<1>0. pc \in Inside
  BY DEF Inside, Decoding
<1>1. /\ ps.last = from /\ from < End /\ ps.start \in 1 .. from /\ PrefixesOK(ps)
      /\ entries \in Seq(Results) /\ Len(entries) \in Nat /\ Len(entries) + 1 <= call.room
      /\ Tiles(entries, call.fcOnly) /\ LastEnd(entries) \in Nat /\ End \in Nat
      /\ Continues(ps.start, LastEnd(entries), call.fcOnly) /\ call.room \in Nat
      /\ from \in 1 .. End
  BY <1>0, InsideFacts
<1>2. /\ ci.code \in 1 .. End /\ ci.code > from /\ ci.code - ps.start <= MaximumSize
  <2>1. /\ ci.code \in 1 .. End + 1 /\ ci.len \in Int /\ ci.len >= 0
        /\ ci.code + ci.len = End /\ ci.code > from
    BY DEF DecoderInv, Typed, CursorPlaced, Decoding
  <2> QED
    BY <1>1, <2>1, MaximumSizeAssumption, SMTT(40) DEF TooLong
<1>3. Covers(masked, ps)
  <2> DEFINE q == [ps EXCEPT !.used = Used]
  <2>1. Covers(q, ps)
    BY <1>1, UsedCovers
  <2> HIDE DEF q
  <2>2. Covers(prefixes_set_unused_mask(q), q)
    BY <2>1, MaskCovers DEF Covers
  <2>3. Covers(prefixes_set_unused_mask(q), ps)
    BY <2>1, <2>2 DEF Covers
  <2> QED
    BY <2>3 DEF q
<1>4. /\ ps' = masked /\ from' = ci.code /\ next' = ci.code /\ call' = call
      /\ UNCHANGED inner /\ UNCHANGED read /\ entries' = IF filtered THEN entries ELSE more
      /\ pc' \in {"next", "done"} /\ res' \in {res, "SUCCESS"}
  BY DEF Flow, Return
<1> HIDE DEF masked
<1>5. r \in Results
  <2>1. ps.start \in Nat /\ ci.code - ps.start \in 1 .. MaximumSize
    BY <1>1, <1>2, MaximumSizeAssumption
  <2>2. masked.unused \in SUBSET Indices
    BY <1>3 DEF Covers, PrefixesOK
  <2> QED
    BY <2>1, <2>2 DEF Results
<1>6. r.addr = ps.start /\ r.size = ci.code - ps.start
  OBVIOUS
<1> HIDE DEF r
<1>7. /\ more \in Seq(Results) /\ Len(more) = Len(entries) + 1
      /\ Tiles(more, call.fcOnly) /\ LastEnd(more) = r.addr + r.size
  BY <1>1, <1>5, <1>6, AppendTiles
<1> HIDE DEF more
<1>8. LastEnd(more) = ci.code
  BY <1>1, <1>2, <1>6, <1>7
<1>9. /\ entries' \in Seq(Results) /\ Len(entries') <= call.room
      /\ Tiles(entries', call.fcOnly) /\ Continues(from', LastEnd(entries'), call.fcOnly)
  <2>1. CASE filtered
    <3>1. entries' = entries /\ Len(entries) <= call.room
      BY <1>1, <1>4, <2>1
    <3>2. ci.code >= LastEnd(entries)
      BY <1>1, <1>2 DEF Continues
    <3> QED
      BY <1>1, <1>4, <2>1, <3>1, <3>2, Zenon DEF Continues
  <2>2. CASE ~filtered
    <3>1. entries' = more /\ Len(more) <= call.room
      BY <1>1, <1>4, <1>7, <2>2
    <3>2. ci.code >= LastEnd(more)
      BY <1>2, <1>8
    <3> QED
      BY <1>4, <1>7, <1>8, <3>1, <3>2, Zenon DEF Continues
  <2> QED
    BY <2>1, <2>2
<1>10. res' \in {"NONE", "SUCCESS", "MEMORYERR"} /\ PrefixesOK(ps')
  BY <1>3, <1>4 DEF DecoderInv, Typed, Covers
<1> QED
  BY <1>0, <1>2, <1>4, <1>9, <1>10, Recorded

LEMMA RecordWaitInv == ASSUME DecoderInv, RecordWait PROVE DecoderInv'
<1> USE DEF RecordWait
<1> DEFINE r == [addr |-> ps.start, size |-> PrefixSize + 1, whole |-> TRUE, unused |-> {}]
           more == Append(entries, r)
<1>0. pc \in Inside
  BY DEF Inside
<1>1. /\ ps.last = from /\ from < End /\ ps.start \in 1 .. from /\ PrefixesOK(ps)
      /\ from - ps.start < MaximumSize
      /\ entries \in Seq(Results) /\ Len(entries) \in Nat /\ Len(entries) + 1 <= call.room
      /\ Tiles(entries, call.fcOnly) /\ LastEnd(entries) \in Nat /\ End \in Nat
      /\ Continues(ps.start, LastEnd(entries), call.fcOnly) /\ call.room \in Nat
      /\ from \in 1 .. End
  BY <1>0, InsideFacts
<1>2. Covers(ps', ps)
  BY <1>1, UsedCovers
<1>3. /\ from' = from + 1 /\ next' = from + 1 /\ call' = call /\ pc' = "next"
      /\ UNCHANGED inner /\ res' = res /\ read' = read \cup {from}
      /\ entries' = IF call.fcOnly THEN entries ELSE more
  OBVIOUS
<1>4. r \in Results /\ r.addr = ps.start /\ r.size = from - ps.start + 1
  <2>1. ps.start \in Nat /\ PrefixSize + 1 \in 1 .. MaximumSize
    BY <1>1, MaximumSizeAssumption DEF PrefixSize
  <2>2. {} \in SUBSET Indices
    OBVIOUS
  <2> QED
    BY <1>1, <2>1, <2>2 DEF Results, PrefixSize
<1> HIDE DEF r
<1>5. /\ more \in Seq(Results) /\ Len(more) = Len(entries) + 1
      /\ Tiles(more, call.fcOnly) /\ LastEnd(more) = r.addr + r.size
  BY <1>1, <1>4, AppendTiles
<1> HIDE DEF more
<1>6. LastEnd(more) = from + 1
  BY <1>1, <1>4, <1>5
<1>7. /\ entries' \in Seq(Results) /\ Len(entries') <= call.room
      /\ Tiles(entries', call.fcOnly) /\ Continues(from', LastEnd(entries'), call.fcOnly)
  <2>1. CASE call.fcOnly
    <3>1. entries' = entries /\ Len(entries) <= call.room
      BY <1>1, <1>3, <2>1
    <3>2. from + 1 >= LastEnd(entries)
      BY <1>1 DEF Continues
    <3> QED
      BY <1>1, <1>3, <2>1, <3>1, <3>2, Zenon DEF Continues
  <2>2. CASE ~call.fcOnly
    <3>1. entries' = more /\ Len(more) <= call.room
      BY <1>1, <1>3, <1>5, <2>2
    <3>2. from + 1 >= LastEnd(more)
      BY <1>1, <1>6
    <3> QED
      BY <1>3, <1>5, <1>6, <3>1, <3>2, Zenon DEF Continues
  <2> QED
    BY <2>1, <2>2
<1>8. from' \in 1 .. End /\ from \in DOMAIN Code
  BY <1>1, <1>3, CallFacts, SMTT(40) DEF DecoderInv, Typed
<1>9. res' \in {"NONE", "SUCCESS", "MEMORYERR"} /\ PrefixesOK(ps')
  BY <1>2, <1>3 DEF DecoderInv, Typed, Covers
<1> QED
  BY <1>0, <1>3, <1>7, <1>8, <1>9, Recorded

LEMMA RecordBytesInv == ASSUME DecoderInv, RecordBytes PROVE DecoderInv'
<1> USE DEF RecordBytes
<1> DEFINE more == entries \o Undecodable(ps.start, ps.last)
<1>0. pc \in Inside
  BY DEF Inside
<1>1. /\ ps.last = from /\ from < End /\ ps.start \in 1 .. from /\ PrefixesOK(ps)
      /\ entries \in Seq(Results) /\ Len(entries) \in Nat /\ Len(entries) + 1 <= call.room
      /\ Tiles(entries, call.fcOnly) /\ LastEnd(entries) \in Nat /\ End \in Nat
      /\ Continues(ps.start, LastEnd(entries), call.fcOnly) /\ call.room \in Nat
      /\ from \in 1 .. End /\ next \in 1 .. End
  BY <1>0, InsideFacts
<1>2. Covers(ps', ps)
  BY <1>1, UsedCovers
<1>3. /\ more \in Seq(Results) /\ Len(more) = Len(entries) + (ps.last - ps.start + 1)
      /\ Tiles(more, call.fcOnly) /\ LastEnd(more) = ps.last + 1
  <2>1. ps.start \in Nat /\ ps.last \in Nat /\ ps.start <= ps.last
    BY <1>1
  <2> QED
    BY <1>1, <2>1, UndecodableTiles
<1> HIDE DEF more
<1>4. from \in DOMAIN Code /\ from + 1 \in 1 .. End
  BY <1>1, CallFacts, SMTT(40) DEF DecoderInv, Typed
<1>5. /\ call' = call /\ UNCHANGED inner /\ read' = read \cup {from}
      /\ PrefixesOK(ps') /\ read' \subseteq read \cup DOMAIN Code
      /\ res' \in {"NONE", "SUCCESS", "MEMORYERR"}
  BY <1>2, <1>4 DEF DecoderInv, Typed, Covers, Return
<1>6. CASE ~call.fcOnly /\ Overfull(PrefixSize + 1)
  <2>1. pc' = "done" /\ UNCHANGED <<from, next, entries>>
    BY <1>6 DEF Return
  <2>2. Len(entries) <= call.room
    BY <1>1
  <2> QED
    BY <1>0, <1>1, <1>5, <2>1, <2>2, Recorded
<1>7. CASE ~(~call.fcOnly /\ Overfull(PrefixSize + 1))
  <2>1. /\ entries' = IF call.fcOnly THEN entries ELSE more
        /\ pc' = "next" /\ from' = from + 1 /\ next' = from + 1
    BY <1>7 DEF more
  <2>2. /\ entries' \in Seq(Results) /\ Len(entries') <= call.room
        /\ Tiles(entries', call.fcOnly) /\ Continues(from', LastEnd(entries'), call.fcOnly)
    <3>1. CASE call.fcOnly
      <4>1. entries' = entries /\ Len(entries) <= call.room
        BY <1>1, <2>1, <3>1
      <4>2. from + 1 >= LastEnd(entries)
        BY <1>1 DEF Continues
      <4> QED
        BY <1>1, <2>1, <3>1, <4>1, <4>2, Zenon DEF Continues
    <3>2. CASE ~call.fcOnly
      <4>1. entries' = more
        BY <2>1, <3>2
      <4>2. Len(more) <= call.room
        BY <1>1, <1>3, <1>7, <3>2, SMTT(40) DEF Overfull, PrefixSize
      <4>3. LastEnd(more) = from + 1 /\ from + 1 >= LastEnd(more)
        BY <1>1, <1>3
      <4> QED
        BY <1>3, <2>1, <4>1, <4>2, <4>3, Zenon DEF Continues
    <3> QED
      BY <3>1, <3>2
  <2> QED
    BY <1>0, <1>4, <1>5, <2>1, <2>2, Recorded
<1> QED
  BY <1>6, <1>7

LEMMA EndOfCodeInv == ASSUME DecoderInv, EndOfCode PROVE DecoderInv'
<1> USE DEF EndOfCode
<1>0. call' = call /\ Code' = Code /\ End' = End /\ pc' = "done" /\ res' = "SUCCESS"
  BY CallKept DEF Return
<1>1. Typed'
  BY <1>0 DEF DecoderInv, Typed, inner, Opening, Decoding, Inside
<1>2. PrefixesPlaced' /\ RoomForOne' /\ CursorPlaced'
  BY <1>0 DEF PrefixesPlaced, RoomForOne, CursorPlaced, Opening, Inside, Decoding
<1>3. ResultsTile'
  BY <1>0 DEF DecoderInv, ResultsTile
<1>4. ReadsInside' /\ RoomKept'
  BY <1>0, OnlyRead
<1> QED
  BY <1>1, <1>2, <1>3, <1>4 DEF DecoderInv

LEMMA StutterInv == ASSUME DecoderInv, UNCHANGED vars PROVE DecoderInv'
<1> USE DEF vars
<1>0. Code' = Code /\ End' = End
  BY CallKept
<1>1. Typed'
  BY <1>0 DEF DecoderInv, Typed
<1>2. PrefixesPlaced' /\ RoomForOne' /\ CursorPlaced'
  BY <1>0 DEF DecoderInv, PrefixesPlaced, RoomForOne, CursorPlaced
<1>3. ResultsTile'
  BY <1>0 DEF DecoderInv, ResultsTile
<1>4. ReadsInside' /\ RoomKept'
  BY <1>0, OnlyRead
<1> QED
  BY <1>1, <1>2, <1>3, <1>4 DEF DecoderInv

\* A step preserves the invariant.
LEMMA NextInv == DecoderInv /\ [Next]_vars => DecoderInv'
<1> SUFFICES ASSUME DecoderInv, [Next]_vars PROVE DecoderInv'
  OBVIOUS
<1>1. CASE StartPrefixes
  BY <1>1, StartPrefixesInv
<1>2. CASE ReadPrefix
  BY <1>2, ReadPrefixInv
<1>3. CASE ReadVex
  BY <1>3, ReadVexInv
<1>4. CASE DropPrefixes
  BY <1>4, DropPrefixesInv
<1>5. CASE StartInstruction
  BY <1>5, StartInstructionInv
<1>6. CASE Lookup
  BY <1>6, LookupInv
<1>7. CASE ModRM
  BY <1>7, ModRMInv
<1>8. CASE NoModRM
  BY <1>8, NoModRMInv
<1>9. CASE ExtractOperand
  BY <1>9, ExtractOperandInv
<1>10. CASE ThreeDNow
  BY <1>10, ThreeDNowInv
<1>11. CASE Suffix
  BY <1>11, SuffixInv
<1>12. CASE RecordInstruction
  BY <1>12, RecordInstructionInv
<1>13. CASE DropInstruction
  BY <1>13, DropInstructionInv
<1>14. CASE RecordWait
  BY <1>14, RecordWaitInv
<1>15. CASE RecordBytes
  BY <1>15, RecordBytesInv
<1>16. CASE EndOfCode
  BY <1>16, EndOfCodeInv
<1>17. CASE UNCHANGED vars
  BY <1>17, StutterInv
<1> QED
  BY <1>1, <1>2, <1>3, <1>4, <1>5, <1>6, <1>7, <1>8, <1>9, <1>10, <1>11, <1>12, <1>13,
     <1>14, <1>15, <1>16, <1>17 DEF Next

LEMMA DecoderInvariant == Spec => []DecoderInv
BY InitInv, NextInv, PTL DEF Spec

\* The tiles of the invariant are those that the property speaks of.
LEMMA TilesFollow == DecoderInv => EntriesTile
<1> SUFFICES ASSUME DecoderInv PROVE EntriesTile
  OBVIOUS
<1> DEFINE ends == [i \in DOMAIN entries |-> entries[i].addr + entries[i].size]
           Follows(start, i) ==
             LET end == IF i = 0 THEN 1 ELSE ends[i]
             IN  start >= end /\ (call.fcOnly \/ start = end)
<1>1. /\ entries \in Seq(Results) /\ Len(entries) \in Nat
      /\ DOMAIN entries = 1 .. Len(entries) /\ Tiles(entries, call.fcOnly)
      /\ pc = "next" => Continues(from, LastEnd(entries), call.fcOnly)
  BY DEF DecoderInv, Typed, ResultsTile
<1>2. \A i \in 0 .. Len(entries) : EndOf(entries, i) = IF i = 0 THEN 1 ELSE ends[i]
  BY <1>1 DEF EndOf
<1>3. \A i \in 0 .. Len(entries) : \A start :
        Continues(start, EndOf(entries, i), call.fcOnly) => Follows(start, i)
  BY <1>2 DEF Continues
<1> HIDE DEF Follows
<1>4. ASSUME NEW i \in DOMAIN entries
      PROVE  entries[i].size \in 1 .. MaximumSize /\ Follows(entries[i].addr, i - 1)
  <2>1. i \in 1 .. Len(entries) /\ i - 1 \in 0 .. Len(entries)
    BY <1>1
  <2>2. Continues(entries[i].addr, EndOf(entries, i - 1), call.fcOnly)
    BY <1>1, <2>1 DEF Tiles
  <2>3. entries[i] \in Results
    BY <1>1, <2>1
  <2>4. entries[i].size \in 1 .. MaximumSize
    BY <2>3 DEF Results
  <2> QED
    BY <1>3, <2>1, <2>2, <2>4
<1>5. pc = "next" => Follows(from, Len(entries))
  <2>1. Len(entries) \in 0 .. Len(entries)
    BY <1>1
  <2> QED
    BY <1>1, <1>3, <2>1 DEF LastEnd
<1> QED
  BY <1>4, <1>5, Zenon DEF EntriesTile, Follows

-----------------------------------------------------------------------------
\* The variables have their types for every trie of instructions and every
\* call: in particular the indices of prefixes fit the mask of unused ones,
\* and the length of the code that is left is not negative where it is used.
THEOREM DecoderTypes == Spec => []TypeOK
<1>1. DecoderInv => TypeOK
  BY TypesFollow DEF DecoderInv
<1> QED
  BY <1>1, DecoderInvariant, PTL

\* Whatever the trie, the mode and the code, and wherever the code is cut
\* off, decode_internal and what it calls read no byte behind it.
THEOREM DecoderReadsInside == Spec => []ReadsInside
<1>1. DecoderInv => ReadsInside
  BY DEF DecoderInv
<1> QED
  BY <1>1, DecoderInvariant, PTL

\* decode_internal writes no more results than maxResultCount.
THEOREM DecoderKeepsRoom == Spec => []RoomKept
<1>1. DecoderInv => RoomKept
  BY DEF DecoderInv
<1> QED
  BY <1>1, DecoderInvariant, PTL

\* The results cover the code from its first byte on, in order and without
\* overlaps, and without gaps unless the caller asks for flow control only.
THEOREM DecoderTiles == Spec => []EntriesTile
BY TilesFollow, DecoderInvariant, PTL

-----------------------------------------------------------------------------
(* The prefixes: each byte taken for one is either in the mask of unused   *)
(* ones already, or it is the last of its type and its flag is kept where  *)
(* the end of the decoding will look for it.                               *)

Known == {"start", "last", "decoded", "used", "mandatory", "unused", "vex", "at", "ext"}
Complete(p) == PrefixesOK(p) /\ Known \subseteq DOMAIN p
\* The bytes taken for prefixes, but for a VEX.
Positions(p) == p.start .. (IF p.vex = 0 THEN p.last ELSE p.vex - 1) - 1
Followed(p, code, i) ==
    /\ code[i] \in DOMAIN Flag
    /\ \/ i - p.start \in p.unused
       \/ /\ p.at[TypeOf(Flag[code[i]])] = i - p.start
          /\ Flag[code[i]] \in p.decoded \cup p.mandatory
Accounted(p, code) == \A i \in Positions(p) : Followed(p, code, i)

\* From p to q only flags were dropped whose last prefix is marked as unused.
Kept(q, p) ==
    /\ Complete(q)
    /\ q.start = p.start /\ q.last = p.last /\ q.vex = p.vex /\ q.at = p.at
    /\ p.unused \subseteq q.unused
    /\ \A t \in DOMAIN Types : \A f \in Types[t] \cap (p.decoded \cup p.mandatory) :
          f \in q.decoded \cup q.mandatory \/ q.at[t] \in q.unused \cup {Nowhere}

\* A flag is of its type.
LEMMA FlagInType ==
    ASSUME NEW b \in DOMAIN Flag
    PROVE  TypeOf(Flag[b]) \in DOMAIN Types /\ Flag[b] \in Types[TypeOf(Flag[b])]
<1> DEFINE names == {"LOCK", "REPNZ", "REP", "CS", "SS", "DS", "ES", "FS", "GS",
                     "OP_SIZE", "ADDR_SIZE", "REX"}
<1>1. Flag[b] \in names
  BY DEF Flag
<1>2. \E t \in DOMAIN Types : Flag[b] \in Types[t]
  BY <1>1 DEF Types, Reps, Seg32, Seg64
<1> QED
  BY <1>1, <1>2 DEF TypeOf

\* The flags that are dropped are of one type each.
LEMMA DroppedTypes ==
    ASSUME NEW t \in DOMAIN Types
    PROVE  /\ "REX" \in Types[t] => t = "REX"
           /\ "OP_SIZE" \in Types[t] => t = "OPS"
           /\ \A f \in Seg32 \cup Seg64 : f \in Types[t] => t = "SEG"
  BY DEF Types, Reps, Seg32, Seg64

\* Nothing dropped: every prefix is kept,
LEMMA KeptSame == ASSUME NEW p, Complete(p) PROVE Kept(p, p)
  BY DEF Kept

\* and what two steps drop one after the other is marked as well.
LEMMA KeptTwice == ASSUME NEW p, NEW q, NEW r, Kept(q, p), Kept(r, q) PROVE Kept(r, p)
  BY DEF Kept

\* Bytes that are accounted for stay so.
LEMMA KeptAccounts ==
    ASSUME NEW p, NEW q, NEW code, Accounted(p, code), Kept(q, p), p.start \in Int
    PROVE  Accounted(q, code)
<1> SUFFICES ASSUME NEW i \in Positions(q) PROVE Followed(q, code, i)
  BY DEF Accounted
<1>1. q.start = p.start /\ q.at = p.at /\ p.unused \subseteq q.unused /\ Positions(q) = Positions(p)
  BY DEF Kept, Positions
<1>2. Followed(p, code, i)
  BY <1>1 DEF Accounted
<1> DEFINE f == Flag[code[i]]
           t == TypeOf(f)
<1>3. t \in DOMAIN Types /\ f \in Types[t]
  BY <1>2, FlagInType DEF Followed
<1>4. CASE i - p.start \in p.unused
  BY <1>1, <1>2, <1>4 DEF Followed
<1>5. CASE p.at[t] = i - p.start /\ f \in p.decoded \cup p.mandatory
  <2>1. f \in q.decoded \cup q.mandatory \/ q.at[t] \in q.unused \cup {Nowhere}
    BY <1>3, <1>5 DEF Kept
  <2>2. i - p.start # Nowhere
    <3>1. i - p.start >= 0
      BY <1>1 DEF Positions
    <3> QED
      BY <3>1 DEF Nowhere
  <2> QED
    BY <1>1, <1>2, <1>5, <2>1, <2>2 DEF Followed
<1> QED
  BY <1>2, <1>4, <1>5 DEF Followed

\* Marking prefixes as unused.
LEMMA IgnoreKept ==
    ASSUME NEW p, Complete(p), NEW types \in SUBSET DOMAIN Types
    PROVE  /\ Kept(prefixes_ignore(p, types), p)
           /\ prefixes_ignore(p, types).decoded = p.decoded
           /\ prefixes_ignore(p, types).used = p.used
           /\ prefixes_ignore(p, types).mandatory = p.mandatory
           /\ \A t \in types : p.at[t] \in prefixes_ignore(p, types).unused \cup {Nowhere}
<1> DEFINE more == {p.at[t] : t \in types} \ {Nowhere}
           q == prefixes_ignore(p, types)
<1>1. q = [p EXCEPT !.unused = @ \cup more]
  BY DEF prefixes_ignore
<1>2. PrefixesOK(q)
  BY IgnoreCovers DEF Covers, Complete
<1>3. \A t \in types : p.at[t] \in more \cup {Nowhere}
  OBVIOUS
<1> HIDE DEF q, more
<1>4. /\ DOMAIN q = DOMAIN p /\ q.unused = p.unused \cup more
      /\ q.start = p.start /\ q.last = p.last /\ q.vex = p.vex /\ q.at = p.at
      /\ q.decoded = p.decoded /\ q.used = p.used /\ q.mandatory = p.mandatory
  BY <1>1 DEF Complete, Known
<1>5. Kept(q, p)
  BY <1>2, <1>4 DEF Kept, Complete
<1>6. \A t \in types : p.at[t] \in q.unused \cup {Nowhere}
  BY <1>3, <1>4
<1> QED
  BY <1>4, <1>5, <1>6 DEF q

\* Only the flags that are kept differ.
Leaves(q, p, flags) ==
    /\ Complete(q) /\ q.decoded = flags
    /\ q.start = p.start /\ q.last = p.last /\ q.vex = p.vex /\ q.at = p.at
    /\ q.unused = p.unused /\ q.mandatory = p.mandatory

\* Dropping flags of one type and marking the last prefix of the type.
LEMMA DropKept ==
    ASSUME NEW p, Complete(p), NEW t \in DOMAIN Types, NEW flags,
           \A u \in DOMAIN Types : Types[u] \cap flags # {} => u = t,
           NEW left, Leaves(left, p, p.decoded \ flags)
    PROVE  Kept(prefixes_ignore(left, {t}), p)
<1> USE DEF Leaves
<1> DEFINE q == prefixes_ignore(left, {t})
<1>1. /\ Kept(q, left) /\ q.decoded = left.decoded /\ q.mandatory = left.mandatory
      /\ left.at[t] \in q.unused \cup {Nowhere}
  BY IgnoreKept
<1> HIDE DEF q
<1>2. ASSUME NEW u \in DOMAIN Types, NEW f \in Types[u] \cap (p.decoded \cup p.mandatory)
      PROVE  f \in q.decoded \cup q.mandatory \/ q.at[u] \in q.unused \cup {Nowhere}
  <2>1. CASE f \in flags
    <3>1. u = t
      BY <2>1
    <3> QED
      BY <1>1, <3>1 DEF Kept
  <2>2. CASE f \notin flags
    BY <1>1, <2>2
  <2> QED
    BY <2>1, <2>2
<1>3. Kept(q, p)
  BY <1>1, <1>2 DEF Kept
<1> QED
  BY <1>3 DEF q

\* Fields that only say what was used or which extension there is.
LEMMA UsedKept ==
    ASSUME NEW p, Complete(p), NEW u
    PROVE  /\ Kept([p EXCEPT !.used = u], p)
           /\ [p EXCEPT !.used = u].used = u
           /\ [p EXCEPT !.used = u].mandatory = p.mandatory
<1> DEFINE q == [p EXCEPT !.used = u]
<1>1. /\ DOMAIN q = DOMAIN p /\ q.unused = p.unused /\ q.decoded = p.decoded
      /\ q.start = p.start /\ q.last = p.last /\ q.vex = p.vex /\ q.at = p.at
      /\ q.mandatory = p.mandatory /\ q.used = u
  BY DEF Complete, Known
<1> HIDE DEF q
<1>2. Kept(q, p)
  BY <1>1 DEF Kept, Complete, PrefixesOK
<1> QED
  BY <1>1, <1>2 DEF q

\* A flag less, and perhaps no extension.
LEMMA LeftFacts ==
    ASSUME NEW p, Complete(p), NEW d
    PROVE  Leaves([p EXCEPT !.decoded = d], p, d)
  BY DEF Complete, Known, PrefixesOK, Leaves

\* A flag less, and another extension.
LEMMA LeftNoExtension ==
    ASSUME NEW p, Complete(p), NEW d, NEW e
    PROVE  Leaves([p EXCEPT !.decoded = d, !.ext = e], p, d)
  BY DEF Complete, Known, PrefixesOK, Leaves

\* What is dropped in 64 bits is marked.
LEMMA In64Kept ==
    ASSUME NEW p, Complete(p), NEW opcode
    PROVE  /\ Kept(In64(p, opcode), p)
           /\ In64(p, opcode).mandatory = p.mandatory
<1> DEFINE late == "REX" \in p.decoded /\ p.rex # opcode - 1
           fewer == [p EXCEPT !.decoded = @ \ {"REX"}, !.ext = "NONE"]
           rexed == IF late THEN prefixes_ignore(fewer, {"REX"}) ELSE p
           left == [rexed EXCEPT !.decoded = @ \ Seg32]
           q == In64(p, opcode)
<1>1. Kept(rexed, p) /\ rexed.mandatory = p.mandatory
  <2>1. Leaves(fewer, p, p.decoded \ {"REX"})
    BY LeftNoExtension, Zenon
  <2> HIDE DEF fewer
  <2>2. "REX" \in DOMAIN Types /\ \A u \in DOMAIN Types : Types[u] \cap {"REX"} # {} => u = "REX"
    BY DroppedTypes, TypesAre
  <2>3. Kept(prefixes_ignore(fewer, {"REX"}), p)
    BY <2>1, <2>2, DropKept
  <2>4. prefixes_ignore(fewer, {"REX"}).mandatory = fewer.mandatory
    BY <2>1, <2>2, IgnoreKept DEF Leaves
  <2> QED
    BY <2>1, <2>3, <2>4, KeptSame DEF Leaves
<1> HIDE DEF rexed
<1>2. Complete(rexed)
  BY <1>1 DEF Kept
<1>3. /\ Kept(prefixes_ignore(left, {"SEG"}), rexed)
      /\ prefixes_ignore(left, {"SEG"}).mandatory = rexed.mandatory
  <2>1. Leaves(left, rexed, rexed.decoded \ Seg32)
    BY <1>2, LeftFacts, Zenon
  <2> HIDE DEF left
  <2>2. "SEG" \in DOMAIN Types /\ \A u \in DOMAIN Types : Types[u] \cap Seg32 # {} => u = "SEG"
    BY DroppedTypes, TypesAre
  <2>3. Kept(prefixes_ignore(left, {"SEG"}), rexed)
    BY <1>2, <2>1, <2>2, DropKept
  <2>4. prefixes_ignore(left, {"SEG"}).mandatory = left.mandatory
    BY <2>1, <2>2, IgnoreKept DEF Leaves
  <2> QED
    BY <2>1, <2>3, <2>4 DEF Leaves
<1>4. q = IF rexed.decoded \cap Seg32 = {} THEN rexed ELSE prefixes_ignore(left, {"SEG"})
  BY DEF In64, rexed
<1> HIDE DEF q, left
<1>5. Kept(q, p) /\ q.mandatory = p.mandatory
  BY <1>1, <1>3, <1>4, KeptTwice
<1> QED
  BY <1>5 DEF q

\* An operand size that REX.W makes void is marked.
LEMMA DropOpSizeKept == ASSUME NEW p, Complete(p) PROVE Kept(DropOpSize(p), p)
<1> DEFINE left == [p EXCEPT !.decoded = @ \ {"OP_SIZE"}]
<1>1. Leaves(left, p, p.decoded \ {"OP_SIZE"})
  BY LeftFacts, Zenon
<1> HIDE DEF left
<1>2. "OPS" \in DOMAIN Types /\ \A u \in DOMAIN Types : Types[u] \cap {"OP_SIZE"} # {} => u = "OPS"
  BY DroppedTypes, TypesAre
<1>3. Kept(prefixes_ignore(left, {"OPS"}), p)
  BY <1>1, <1>2, DropKept
<1>4. DropOpSize(p) = prefixes_ignore(left, {"OPS"}) \/ DropOpSize(p) = p
  BY DEF DropOpSize, left
<1> QED
  BY <1>3, <1>4, KeptSame

-----------------------------------------------------------------------------
(* The look-up takes prefixes into the opcode, and marks what it drops.    *)

\* The result of a look-up hands on the prefixes it is given.
LEMMA FoundKept ==
    ASSUME NEW p
    PROVE  \A ii, q, n : Kept(q, p) => Kept(Found(ii, q, n).ps, p) /\ Kept(RanOut(q, n).ps, p)
  BY DEF Found, RanOut

\* A mandatory prefix moves from the decoded flags to the mandatory ones.
LEMMA PrefixedKept ==
    ASSUME NEW p, Complete(p), p.mandatory = {}, NEW in, NEW taken
    PROVE  Kept(inst_lookup_prefixed(in, p, taken).ps, p)
<1> DEFINE seen == p.decoded \cap ({"OP_SIZE"} \cup Reps)
           used == IF seen \cap Reps = {} THEN seen ELSE seen \cap Reps
           node == Child(in, IF seen = {} THEN 0
                             ELSE IF "REPNZ" \in seen THEN 3
                             ELSE IF "REP" \in seen THEN 2 ELSE 1)
           taking == [p EXCEPT !.decoded = @ \ used, !.mandatory = used]
<1>1. Kept(taking, p)
  <2> HIDE DEF used
  <2>1. /\ DOMAIN taking = DOMAIN p /\ taking.unused = p.unused
        /\ taking.decoded = p.decoded \ used /\ taking.mandatory = used
        /\ taking.start = p.start /\ taking.last = p.last /\ taking.vex = p.vex
        /\ taking.at = p.at
    BY DEF Complete, Known
  <2> HIDE DEF taking
  <2> QED
    BY <2>1 DEF Kept, Complete, PrefixesOK
<1>2. inst_lookup_prefixed(in, p, taken)
        = IF Reps \subseteq seen THEN Found(None, p, taken)
          ELSE IF used # seen /\ (node = None \/ "PRE_OP_SIZE" \notin node.flags)
               THEN Found(None, taking, taken)
          ELSE Found(IF node = None THEN Child(in, 0) ELSE node, taking, taken)
  BY Zenon DEF inst_lookup_prefixed
<1> HIDE DEF taking, node, used, seen
<1> QED
  BY <1>1, <1>2, KeptSame, FoundKept, Zenon

\* The node of the full opcode, with and without mandatory prefixes,
LEMMA FullKept ==
    ASSUME NEW p, Complete(p), p.mandatory = {}, NEW in, NEW taken
    PROVE  Kept(OfFull(in, p, taken).ps, p)
  BY PrefixedKept, KeptSame, FoundKept, Zenon DEF OfFull

\* and the one of its third byte.
LEMMA ThirdByteKept ==
    ASSUME NEW p, Complete(p), p.mandatory = {}, NEW in, NEW b, NEW taken
    PROVE  Kept(ThirdByte(in, b, p, taken).ps, p)
<1>1. \A ii : Kept(OfFull(ii, p, taken).ps, p)
  BY FullKept
<1> QED
  BY <1>1, KeptSame, FoundKept, Zenon DEF ThirdByte

\* The opcodes of one byte, where LEA ignores an override.
LEMMA OneByteKept ==
    ASSUME NEW p, Complete(p), p.mandatory = {}, NEW in, NEW b, NEW dt, NEW taken
    PROVE  Kept(OneByte(in, b, p, dt, taken).ps, p)
<1> DEFINE left == [p EXCEPT !.decoded = @ \ (Seg32 \cup Seg64)]
           lea == prefixes_ignore(left, {"SEG"})
           r == OneByte(in, b, p, dt, taken)
<1>1. Kept(lea, p)
  <2>1. Leaves(left, p, p.decoded \ (Seg32 \cup Seg64))
    BY LeftFacts, Zenon
  <2> HIDE DEF left
  <2>2. /\ "SEG" \in DOMAIN Types
        /\ \A u \in DOMAIN Types : Types[u] \cap (Seg32 \cup Seg64) # {} => u = "SEG"
    BY DroppedTypes, TypesAre
  <2> QED
    BY <2>1, <2>2, DropKept
<1>2. \A u : Kept([p EXCEPT !.used = u], p)
  BY UsedKept
<1>3. CASE b = 99
  BY <1>3, FoundKept, KeptSame DEF OneByte
<1>4. CASE b = 144 /\ "REP" \in p.decoded
  <2>1. r = Found(II_pause, [p EXCEPT !.used = @ \cup {"REP"}], taken)
    BY <1>4 DEF OneByte
  <2> QED
    BY <1>2, <2>1, FoundKept, Zenon
<1>5. CASE b = 144 /\ "REP" \notin p.decoded
  <2> DEFINE ii == IF dt # 64 \/ "B" \notin p.vrex THEN II_nop ELSE in
             marks == p.used \cup (IF "W" \in p.vrex THEN {"REX"} ELSE {})
  <2>1. r = Found(ii, [p EXCEPT !.used = marks], taken)
    BY <1>5 DEF OneByte
  <2> HIDE DEF ii, marks, r
  <2> QED
    BY <1>2, <2>1, FoundKept, Zenon DEF r
<1>6. CASE b = 141
  <2>1. r = Found(in, lea, taken)
    BY <1>6 DEF OneByte
  <2> HIDE DEF lea
  <2> QED
    BY <1>1, <2>1, FoundKept, Zenon
<1>7. CASE b \notin {99, 141, 144}
  <2>1. r = Found(in, p, taken)
    BY <1>7 DEF OneByte
  <2> QED
    BY <2>1, FoundKept, KeptSame, Zenon
<1> QED
  BY <1>3, <1>4, <1>5, <1>6, <1>7

\* The walk through the trie from the first byte on.
LEMMA WalkKept ==
    ASSUME NEW p, Complete(p), p.mandatory = {}, NEW code, NEW first, NEW len, NEW dt,
           NEW n, NEW waited
    PROVE  Kept(Walk(code, first, len, p, dt, n, waited).ps, p)
<1> DEFINE b0 == Byte(code, first)
           b1 == Byte(code, first + 1)
           b2 == Byte(code, first + 2)
           in == Child(Trie, b0)
           second == Child(in, b1)
<1>1. \A ii, m : Kept(Found(ii, p, m).ps, p) /\ Kept(RanOut(p, m).ps, p)
  BY KeptSame, FoundKept
<1>2. Kept(OneByte(in, b0, p, dt, n).ps, p)
  BY OneByteKept
<1>3. \A ii, m : Kept(OfDivided(ii, waited, p, m).ps, p)
  BY <1>1, Zenon DEF OfDivided
<1>4. \A ii, m : Kept(OfFull(ii, p, m).ps, p)
  BY FullKept
<1>5. Kept(ThirdByte(second, b2, p, n + 2).ps, p)
  BY ThirdByteKept
<1>6. Walk(code, first, len, p, dt, n, waited)
         = IF in = None THEN Found(None, p, n)
           ELSE IF in.type = "INFO" /\ ~waited THEN OneByte(in, b0, p, dt, n)
           ELSE IF len < n + 1 THEN RanOut(p, n + 1)
           ELSE IF in.type = "GROUP" /\ ~waited THEN Found(Child(in, Reg(b1)), p, n + 1)
           ELSE IF in.type = "DIVIDED"
                THEN OfDivided(Child(in, Divided(b1)), waited, p, n + 1)
           ELSE IF waited \/ second = None THEN Found(None, p, n + 1)
           ELSE IF b0 = 15 /\ b1 = 15 THEN Found(II_3dnow, p, n + 1)
           ELSE IF second.type \in {"INFO", "PREFIXED"} THEN OfFull(second, p, n + 1)
           ELSE IF len < n + 2 THEN RanOut(p, n + 2)
           ELSE ThirdByte(second, b2, p, n + 2)
  BY Zenon DEF Walk
<1> HIDE DEF second, in, b2, b1, b0
<1> QED
  BY <1>1, <1>2, <1>3, <1>4, <1>5, <1>6, Zenon

\* A look-up behind a VEX drops no prefix,
LEMMA VexLookupKept ==
    ASSUME NEW p, Complete(p), NEW code, NEW first, NEW len
    PROVE  /\ Kept(inst_vex_lookup(code, first, len, p).ps, p)
           /\ {"ii", "ps"} \subseteq DOMAIN inst_vex_lookup(code, first, len, p)
<1>1. \A ii, m : Kept(Found(ii, p, m).ps, p) /\ Kept(RanOut(p, m).ps, p)
  BY KeptSame, FoundKept
<1>2. Kept(inst_vex_lookup(code, first, len, p).ps, p)
  BY <1>1, Zenon DEF inst_vex_lookup, OfPrefixed
<1>3. {"ii", "ps"} \subseteq DOMAIN inst_vex_lookup(code, first, len, p)
  BY Zenon DEF inst_vex_lookup, OfPrefixed, Found, RanOut
<1> QED
  BY <1>2, <1>3

\* and any other look-up drops none without a mark.
LEMMA LookupKept ==
    ASSUME NEW p, Complete(p), p.mandatory = {}, NEW code, NEW first, NEW len, NEW dt
    PROVE  Kept(inst_lookup(code, first, len, p, dt).ps, p)
<1> DEFINE r == inst_lookup(code, first, len, p, dt)
           all == prefixes_ignore_all(p)
<1>1. CASE "VEX" \in p.decoded
  <2> DEFINE found == inst_vex_lookup(code, first, len, p)
             longer == found.ii # None /\ "FORCE_VEXL" \in found.ii.flags /\ "L" \notin p.vrex
  <2>1. r = IF longer THEN [found EXCEPT !.ii = None] ELSE found
    BY <1>1, Zenon DEF inst_lookup
  <2>2. Kept(found.ps, p) /\ {"ii", "ps"} \subseteq DOMAIN found
    BY VexLookupKept
  <2> HIDE DEF found, longer, r
  <2>3. r.ps = found.ps
    BY <2>1, <2>2
  <2> QED
    BY <2>2, <2>3 DEF r
<1>2. CASE "VEX" \notin p.decoded
  <2>1. Kept(all, p) /\ all.mandatory = {} /\ Complete(all)
    BY IgnoreKept DEF prefixes_ignore_all, Kept
  <2> HIDE DEF all
  <2>2. Kept(RanOut(p, 1).ps, p) /\ Kept(RanOut(all, 2).ps, p)
    BY <2>1, FoundKept, KeptSame
  <2>3. Kept(Walk(code, first, len, p, dt, 1, FALSE).ps, p)
    BY WalkKept
  <2>4. Kept(Walk(code, first + 1, len, all, dt, 2, TRUE).ps, p)
    BY <2>1, WalkKept, KeptTwice
  <2>5. r = IF len < 1 THEN RanOut(p, 1)
            ELSE IF Byte(code, first) # WAIT THEN Walk(code, first, len, p, dt, 1, FALSE)
            ELSE IF len < 2 THEN RanOut(all, 2)
            ELSE Walk(code, first + 1, len, all, dt, 2, TRUE)
    BY <1>2, Zenon DEF inst_lookup, all
  <2> HIDE DEF r
  <2>6. Kept(r.ps, p)
    BY <2>2, <2>3, <2>4, <2>5, Zenon
  <2> QED
    BY <2>6 DEF r
<1> QED
  BY <1>1, <1>2

-----------------------------------------------------------------------------
(* The bytes of the prefixes are taken one by one.                         *)

\* Where an instruction starts there are no prefixes.
LEMMA NoneTaken ==
    ASSUME NEW i
    PROVE  /\ Complete(NoPrefixes(i)) /\ NoPrefixes(i).mandatory = {}
           /\ NoPrefixes(i).vex = 0 /\ NoPrefixes(i).start = i /\ NoPrefixes(i).last = i
<1>1. PrefixesOK(NoPrefixes(i))
  BY StartCovers
<1> QED
  BY <1>1 DEF Complete, Known, NoPrefixes

\* One more prefix is the last of its type; the one before it is marked.
LEMMA TakeAccounts ==
    ASSUME NEW p, Complete(p), NEW code, Accounted(p, code), p.vex = 0, p.mandatory = {},
           p.start \in Nat, p.last \in Nat, p.last - p.start \in Indices,
           code[p.last] \in DOMAIN Flag,
           NEW q, q = TakePrefix(p, code[p.last])
    PROVE  Complete(q) /\ Accounted(q, code) /\ q.vex = 0 /\ q.mandatory = {}
<1> DEFINE b == code[p.last]
           f == Flag[b]
           t == TypeOf(f)
           seen == [p EXCEPT !.decoded = @ \cup {f}, !.last = @ + 1]
           letters == Letters({<<Bit(b, 0), "B">>, <<Bit(b, 1), "X">>,
                               <<Bit(b, 2), "R">>, <<Bit(b, 3), "W">>})
           rexed == [seen EXCEPT !.vrex = letters, !.rex = p.last, !.ext = "REX"]
           r == IF f = "REX" THEN rexed ELSE seen
           s == prefixes_ignore(r, {t})
<1>1. t \in DOMAIN Types /\ f \in Types[t]
  BY FlagInType
<1>2. /\ DOMAIN seen = DOMAIN p /\ seen.decoded = p.decoded \cup {f}
      /\ seen.last = p.last + 1 /\ seen.start = p.start /\ seen.vex = p.vex
      /\ seen.at = p.at /\ seen.unused = p.unused /\ seen.mandatory = p.mandatory
  <2> HIDE DEF f
  <2> QED BY DEF Complete, Known
<1>3. q = [s EXCEPT !.at[t] = p.last - p.start]
  BY DEF TakePrefix, prefixes_track_unused
<1> HIDE DEF seen, letters
<1>4. /\ DOMAIN r = DOMAIN p /\ r.decoded = p.decoded \cup {f}
      /\ r.last = p.last + 1 /\ r.start = p.start /\ r.vex = p.vex
      /\ r.at = p.at /\ r.unused = p.unused /\ r.mandatory = p.mandatory
  BY <1>2 DEF Complete, Known
<1> HIDE DEF rexed, r
<1>5. Complete(r)
  BY <1>4 DEF Complete, PrefixesOK
<1>6. /\ Kept(s, r) /\ s.decoded = r.decoded /\ s.mandatory = r.mandatory
      /\ r.at[t] \in s.unused \cup {Nowhere}
  BY <1>1, <1>5, IgnoreKept
<1> HIDE DEF s
<1>7. /\ Complete(s) /\ s.decoded = p.decoded \cup {f} /\ s.mandatory = {}
      /\ s.last = p.last + 1 /\ s.start = p.start /\ s.vex = 0 /\ s.at = p.at
      /\ p.unused \subseteq s.unused /\ p.at[t] \in s.unused \cup {Nowhere}
  BY <1>4, <1>6 DEF Kept
<1>8. /\ DOMAIN q = DOMAIN s /\ q.decoded = s.decoded /\ q.mandatory = s.mandatory
      /\ q.last = s.last /\ q.start = s.start /\ q.vex = s.vex /\ q.unused = s.unused
      /\ q.at = [s.at EXCEPT ![t] = p.last - p.start]
  BY <1>3, <1>7 DEF Complete, Known
<1>9. s.at \in [DOMAIN Types -> Indices \cup {Nowhere}]
  BY <1>7 DEF Complete, PrefixesOK
<1>10. /\ q.at[t] = p.last - p.start
       /\ \A u \in DOMAIN Types : u # t => q.at[u] = p.at[u]
       /\ q.at \in [DOMAIN Types -> Indices \cup {Nowhere}]
  BY <1>1, <1>7, <1>8, <1>9
<1>11. Complete(q)
  BY <1>7, <1>8, <1>10 DEF Complete, PrefixesOK
<1>12. ASSUME NEW i \in Positions(q) PROVE Followed(q, code, i)
  <2>1. i \in p.start .. p.last
    BY <1>7, <1>8, <1>12 DEF Positions
  <2>2. CASE i = p.last
    <3> HIDE DEF t, f
    <3>1. f = Flag[code[i]] /\ t = TypeOf(f) /\ code[i] \in DOMAIN Flag
      BY <2>2 DEF f, t
    <3>2. f \in q.decoded \cup q.mandatory /\ q.at[t] = i - p.start /\ q.start = p.start
      BY <1>7, <1>8, <1>10, <2>2
    <3> QED
      BY <3>1, <3>2 DEF Followed
  <2>3. CASE i # p.last
    <3>1. i \in Positions(p)
      BY <2>1, <2>3 DEF Positions
    <3>2. Followed(p, code, i)
      BY <3>1 DEF Accounted
    <3> DEFINE g == Flag[code[i]]
               u == TypeOf(g)
    <3>3. u \in DOMAIN Types
      BY <3>2, FlagInType DEF Followed
    <3>4. i - p.start # Nowhere
      BY <2>1 DEF Nowhere
    <3> HIDE DEF t, f
    <3>5. CASE i - p.start \in p.unused
      BY <1>7, <1>8, <3>2, <3>5 DEF Followed
    <3>6. CASE p.at[u] = i - p.start /\ g \in p.decoded \cup p.mandatory
      <4>1. CASE u = t
        BY <1>7, <1>8, <3>2, <3>4, <3>6, <4>1 DEF Followed
      <4>2. CASE u # t
        <5>1. q.at[u] = i - p.start
          BY <1>10, <3>3, <3>6, <4>2
        <5>2. g \in q.decoded \cup q.mandatory /\ q.start = p.start
          BY <1>7, <1>8, <3>6
        <5> QED
          BY <3>2, <5>1, <5>2 DEF Followed
      <4> QED
        BY <4>1, <4>2
    <3> QED
      BY <3>2, <3>5, <3>6 DEF Followed
  <2> QED
    BY <2>2, <2>3
<1> QED
  BY <1>7, <1>8, <1>11, <1>12 DEF Accounted

\* A VEX comes after all others.
LEMMA VexAccounts ==
    ASSUME NEW p, Complete(p), NEW code, Accounted(p, code), p.vex = 0, p.mandatory = {},
           p.last \in Nat, NEW dt, NEW q, q = WithVex(p, code, dt)
    PROVE  Complete(q) /\ Accounted(q, code) /\ q.mandatory = {}
<1> DEFINE size == VexSize(p, code, dt)
           ext == IF size = 2 THEN "VEX2" ELSE "VEX3"
           letters == VexLetters(code, p.last, dt, size)
<1>1. CASE q = p
  BY <1>1
<1>2. CASE q = [p EXCEPT !.decoded = @ \cup {"VEX"}, !.vex = p.last + 1, !.ext = ext,
                      !.vrex = @ \cup letters, !.last = @ + size]
  <2> HIDE DEF ext, letters, size
  <2>1. /\ DOMAIN q = DOMAIN p /\ q.start = p.start /\ q.vex = p.last + 1
        /\ q.at = p.at /\ q.unused = p.unused /\ q.mandatory = p.mandatory
        /\ q.decoded = p.decoded \cup {"VEX"}
    BY <1>2 DEF Complete, Known
  <2>2. Positions(q) = Positions(p)
    BY <2>1 DEF Positions
  <2>3. Complete(q)
    BY <2>1 DEF Complete, PrefixesOK
  <2> QED
    BY <2>1, <2>2, <2>3 DEF Accounted, Followed
<1> QED
  BY <1>1, <1>2 DEF WithVex

\* The mask has what was read and not used, and what was dropped.
LEMMA MaskAccounts ==
    ASSUME NEW p, Complete(p), NEW code, Accounted(p, code), p.start \in Int,
           NEW q, q = prefixes_set_unused_mask(p), NEW i \in Positions(p)
    PROVE  i - p.start \in q.unused \/ Flag[code[i]] \in q.used \cup q.mandatory
<1> DEFINE diff == (p.decoded \ p.used) \cup (p.used \ p.decoded)
           types == {t \in DOMAIN Types : Types[t] \cap diff # {}}
           f == Flag[code[i]]
           t == TypeOf(f)
<1>1. /\ Kept(q, p) /\ q.used = p.used /\ q.mandatory = p.mandatory
      /\ \A u \in types : p.at[u] \in q.unused \cup {Nowhere}
  <2>1. q = prefixes_ignore(p, types)
    BY DEF prefixes_set_unused_mask
  <2> HIDE DEF types
  <2>2. types \in SUBSET DOMAIN Types
    BY DEF types
  <2> QED
    BY <2>1, <2>2, IgnoreKept
<1>2. Followed(p, code, i)
  BY DEF Accounted
<1>3. t \in DOMAIN Types /\ f \in Types[t]
  BY <1>2, FlagInType DEF Followed
<1>4. i - p.start # Nowhere
  BY DEF Positions, Nowhere
<1>5. CASE i - p.start \in p.unused
  BY <1>1, <1>5 DEF Kept
<1>6. CASE p.at[t] = i - p.start /\ f \in p.decoded \ p.used
  <2>1. t \in types
    BY <1>3, <1>6
  <2> QED
    BY <1>1, <1>4, <1>6, <2>1
<1>7. CASE f \in p.used \cup p.mandatory
  BY <1>1, <1>7
<1> QED
  BY <1>2, <1>5, <1>6, <1>7 DEF Followed

-----------------------------------------------------------------------------
(* From the first prefix to the result, every prefix is accounted for.     *)

PrefixesFollowed ==
    /\ pc \in Opening \cup Decoding => Complete(ps) /\ Accounted(ps, Code) /\ ps.start \in Nat
    /\ pc \in Opening \cup {"opcode"} => ps.mandatory = {}
    /\ pc = "prefixes" => ps.vex = 0

\* A step within an instruction that drops prefixes as it should.
LEMMA KeptFollowed ==
    ASSUME PrefixesFollowed, call' = call, pc \in Opening \cup Decoding, Kept(ps', ps),
           pc' \notin Opening \cup {"opcode"}
    PROVE  PrefixesFollowed'
<1>1. Complete(ps) /\ Accounted(ps, Code) /\ ps.start \in Nat /\ ps.start \in Int
  BY DEF PrefixesFollowed
<1>2. Accounted(ps', Code)
  BY <1>1, KeptAccounts
<1>3. Complete(ps') /\ ps'.start = ps.start
  BY DEF Kept
<1> QED
  BY <1>1, <1>2, <1>3, CallKept DEF PrefixesFollowed, Opening

\* Each step of the decoder follows the prefixes.
LEMMA FollowedNext ==
    ASSUME DecoderInv, PrefixesFollowed, [Next]_vars
    PROVE  PrefixesFollowed'
<1> USE DEF Opening, Decoding
<1>1. CASE StartPrefixes
  <2>1. /\ ps' = NoPrefixes(from) /\ call' = call /\ from \in Nat /\ from \in Int
        /\ pc' \in Opening
    BY <1>1, CallFacts DEF StartPrefixes, DecoderInv, Typed
  <2>2. /\ Complete(ps') /\ ps'.mandatory = {} /\ ps'.vex = 0
        /\ ps'.start = from /\ ps'.last = from
    BY <2>1, NoneTaken
  <2>3. Positions(ps') = {}
    BY <2>1, <2>2 DEF Positions
  <2> QED
    BY <2>1, <2>2, <2>3 DEF PrefixesFollowed, Accounted
<1>2. CASE ReadPrefix
  <2>1. /\ pc = "prefixes" /\ pc' = pc /\ call' = call
        /\ ps' = TakePrefix(ps, Code[ps.last]) /\ Code[ps.last] \in DOMAIN Flag
        /\ ps.last - ps.start < MaximumSize
    BY <1>2 DEF ReadPrefix, MorePrefixes, IsLegacy
  <2>2. /\ Complete(ps) /\ Accounted(ps, Code) /\ ps.vex = 0 /\ ps.mandatory = {}
        /\ ps.start \in Nat
    BY <2>1 DEF PrefixesFollowed
  <2>3. ps.last \in Nat /\ ps.last >= ps.start
    BY <2>1, <2>2, CallFacts DEF DecoderInv, PrefixesPlaced, Typed
  <2>4. ps.last - ps.start \in Indices
    BY <2>1, <2>2, <2>3, MaximumSizeAssumption DEF Indices
  <2>5. Complete(ps') /\ Accounted(ps', Code) /\ ps'.vex = 0 /\ ps'.mandatory = {}
    BY <2>1, <2>2, <2>3, <2>4, TakeAccounts
  <2>6. ps'.start = ps.start
    BY <2>1, <2>2, <2>3, <2>4, TakeCovers DEF Complete
  <2> QED
    BY <2>1, <2>2, <2>5, <2>6, CallKept DEF PrefixesFollowed
<1>3. CASE ReadVex
  <2>1. pc = "prefixes" /\ pc' = "prefixed" /\ call' = call /\ ps' = WithVex(ps, Code, call.dt)
    BY <1>3 DEF ReadVex
  <2>2. /\ Complete(ps) /\ Accounted(ps, Code) /\ ps.vex = 0 /\ ps.mandatory = {}
        /\ ps.start \in Nat
    BY <2>1 DEF PrefixesFollowed
  <2>3. /\ ps.last \in ps.start .. Len(Code) + 1 /\ ps.last \in Nat /\ Len(Code) \in Nat
        /\ ps.last - ps.start <= MaximumSize
    BY <2>1, <2>2, CallFacts DEF DecoderInv, PrefixesPlaced, Typed
  <2>4. Complete(ps') /\ Accounted(ps', Code) /\ ps'.mandatory = {}
    BY <2>1, <2>2, <2>3, VexAccounts
  <2>5. ps'.start = ps.start
    BY <2>1, <2>2, <2>3, VexCovers DEF Complete
  <2> QED
    BY <2>1, <2>2, <2>4, <2>5, CallKept DEF PrefixesFollowed
<1>4. CASE StartInstruction
  <2>1. /\ pc = "prefixed" /\ pc' \in {"opcode", "done"} /\ call' = call
        /\ ps' = IF call.dt = 64 THEN In64(ps, ps.last) ELSE ps
    BY <1>4 DEF StartInstruction, Return
  <2>2. Complete(ps) /\ Accounted(ps, Code) /\ ps.mandatory = {} /\ ps.start \in Int
    BY <2>1 DEF PrefixesFollowed
  <2>3. Kept(ps', ps) /\ ps'.mandatory = {}
    BY <2>1, <2>2, In64Kept, KeptSame
  <2>4. Accounted(ps', Code)
    BY <2>2, <2>3, KeptAccounts
  <2> QED
    BY <2>1, <2>3, <2>4, CallKept DEF PrefixesFollowed, Kept
<1>5. CASE Lookup
  <2> DEFINE found == inst_lookup(Code, ci.code, ci.len, ps, call.dt)
  <2>1. /\ pc = "opcode" /\ pc' \in {"undecodable", "modrm"} /\ call' = call
        /\ ps' = found.ps \/ ps' = DropOpSize(found.ps)
    BY <1>5, Zenon DEF Lookup
  <2>2. Complete(ps) /\ ps.mandatory = {}
    BY <2>1 DEF PrefixesFollowed
  <2>3. Kept(found.ps, ps)
    BY <2>2, LookupKept
  <2> HIDE DEF found
  <2>4. Kept(ps', ps)
    BY <2>1, <2>3, DropOpSizeKept, KeptTwice DEF Kept
  <2> QED
    BY <2>1, <2>4, KeptFollowed
<1>6. CASE ExtractOperand
  <2>1. /\ pc = "operands" /\ pc' \in {"undecodable", "operands"} /\ call' = call
        /\ ps' = ps \/ \E u : ps' = [ps EXCEPT !.used = u]
    BY <1>6, Zenon DEF ExtractOperand
  <2>2. Kept(ps', ps)
    BY <2>1, UsedKept, KeptSame DEF PrefixesFollowed
  <2> QED
    BY <2>1, <2>2, KeptFollowed
<1>7. CASE ModRM \/ NoModRM \/ ThreeDNow \/ Suffix \/ DropInstruction
  <2>1. /\ pc \in {"modrm", "operands", "suffix", "whole"} /\ call' = call /\ ps' = ps
        /\ pc' \in {"undecodable", "operands", "suffix", "whole"}
    BY <1>7, Zenon DEF ModRM, NoModRM, ThreeDNow, OperandsDone, Suffix, DropInstruction
  <2>2. Kept(ps', ps)
    BY <2>1, KeptSame DEF PrefixesFollowed
  <2> QED
    BY <2>1, <2>2, KeptFollowed
<1>8. CASE DropPrefixes \/ RecordInstruction \/ RecordWait \/ RecordBytes \/ EndOfCode
  <2>1. pc' \in {"next", "done"}
    BY <1>8, Zenon DEF DropPrefixes, RecordInstruction, Flow, RecordWait, RecordBytes,
       EndOfCode, Return
  <2> QED
    BY <2>1 DEF PrefixesFollowed
<1>9. CASE UNCHANGED vars
  BY <1>9, CallKept DEF vars, PrefixesFollowed
<1> QED
  BY <1>1, <1>2, <1>3, <1>4, <1>5, <1>6, <1>7, <1>8, <1>9 DEF Next

\* Whatever the trie, the mode and the code, each byte before an opcode that
\* was taken for a prefix ends up reported as unused, used by an operand or
\* the mnemonic, or part of the opcode (prefix.c, decoder.c, instructions.c):
\* none of the places that drop a prefix forgets to mark it.
THEOREM DecoderPrefixes == Spec => PrefixesAccounted
<1>1. Init => PrefixesFollowed
  BY DEF Init, PrefixesFollowed, Opening, Decoding
<1>2. DecoderInv /\ PrefixesFollowed /\ [Next]_vars => PrefixesFollowed'
  BY FollowedNext
<1> DEFINE Reported ==
      pc = "whole" /\ pc' # "undecodable" =>
        \A p \in ps.start .. (IF ps.vex = 0 THEN ps.last ELSE ps.vex - 1) - 1 :
          p - ps.start \in ps'.unused \/ Flag[Code[p]] \in ps'.used \cup ps'.mandatory
<1>3. PrefixesFollowed /\ [Next]_vars => [Reported]_vars
  <2> SUFFICES ASSUME PrefixesFollowed, Next, pc = "whole", pc' # "undecodable",
                      NEW i \in Positions(ps)
               PROVE  i - ps.start \in ps'.unused \/ Flag[Code[i]] \in ps'.used \cup ps'.mandatory
    BY DEF Positions
  <2> DEFINE marked == [ps EXCEPT !.used = Used]
  <2>1. ps' = prefixes_set_unused_mask(marked)
    BY Zenon DEF Next, StartPrefixes, ReadPrefix, ReadVex, DropPrefixes, StartInstruction,
       Lookup, ModRM, NoModRM, ExtractOperand, ThreeDNow, OperandsDone, Suffix,
       RecordInstruction, DropInstruction, RecordWait, RecordBytes, EndOfCode
  <2>2. Complete(ps) /\ Accounted(ps, Code) /\ ps.start \in Int
    BY DEF PrefixesFollowed, Decoding
  <2>3. Kept(marked, ps)
    BY <2>2, UsedKept, Zenon
  <2> HIDE DEF marked
  <2>4. /\ Complete(marked) /\ Accounted(marked, Code) /\ marked.start = ps.start
        /\ Positions(marked) = Positions(ps)
    BY <2>2, <2>3, KeptAccounts DEF Kept, Positions
  <2> QED
    BY <2>1, <2>2, <2>4, MaskAccounts
<1> QED
  BY <1>1, <1>2, <1>3, DecoderInvariant, PTL DEF Spec, PrefixesAccounted
-----------------------------------------------------------------------------
(* Progress.                                                               *)

\* Fewer at the first place where they differ.
LEMMA Fewer ==
  ASSUME NEW a \in Nat, NEW b \in Nat, NEW c \in Nat,
         NEW x \in Nat, NEW y \in Nat, NEW z \in Nat,
         x < a \/ (x = a /\ y < b) \/ (x = a /\ y = b /\ z < c),
         NEW old, old = <<a, b, c>>, NEW new, new = <<x, y, z>>
  PROVE  Descends(new, old)
<1>1. /\ new \in Seq(Nat) /\ Len(new) = 3 /\ Len(old) = 3
      /\ new[1] = x /\ new[2] = y /\ new[3] = z
      /\ old[1] = a /\ old[2] = b /\ old[3] = c
  OBVIOUS
<1>2. CASE x < a
  <2>1. \A l \in 1 .. 1 - 1 : new[l] = old[l]
    OBVIOUS
  <2>2. new[1] < old[1] /\ 1 \in 1 .. Len(old)
    BY <1>1, <1>2
  <2> QED
    BY ONLY <1>1, <2>1, <2>2 DEF Descends
<1>3. CASE x = a /\ y < b
  <2>1. \A l \in 1 .. 2 - 1 : new[l] = old[l]
    BY <1>1, <1>3
  <2>2. new[2] < old[2] /\ 2 \in 1 .. Len(old)
    BY <1>1, <1>3
  <2> QED
    BY ONLY <1>1, <2>1, <2>2 DEF Descends
<1>4. CASE x = a /\ y = b /\ z < c
  <2>1. \A l \in 1 .. 3 - 1 : new[l] = old[l]
    BY <1>1, <1>4
  <2>2. new[3] < old[3] /\ 3 \in 1 .. Len(old)
    BY <1>1, <1>4
  <2> QED
    BY ONLY <1>1, <2>1, <2>2 DEF Descends
<1> QED
  BY <1>2, <1>3, <1>4

\* As many steps as there are kinds of them are left for an instruction.
Steps(p) ==
    CASE p = "next"     -> 9 [] p = "prefixes" -> 8 [] p = "prefixed" -> 7
      [] p = "opcode"   -> 6 [] p = "modrm"    -> 5 [] p = "operands" -> 4
      [] p = "suffix"   -> 3 [] p = "whole"    -> 2 [] p = "undecodable" -> 1
      [] p = "done"     -> 0

\* No operand is extracted after the fourth.
OperandsCounted == k \in 1 .. 5

\* The loop over the operands keeps the count.
LEMMA OperandsCountedNext ==
  ASSUME OperandsCounted, [Next]_vars
  PROVE  OperandsCounted'
<1>1. CASE ExtractOperand
  <2>1. k' = k \/ k' = k + 1
    BY <1>1, Zenon DEF ExtractOperand
  <2>2. k <= 4
    BY <1>1 DEF ExtractOperand, MoreOperands
  <2> QED
    BY <2>1, <2>2 DEF OperandsCounted
<1>2. CASE StartInstruction
  BY <1>2 DEF StartInstruction, OperandsCounted
<1>3. CASE UNCHANGED k
  BY <1>3 DEF OperandsCounted
<1> QED
  BY <1>1, <1>2, <1>3, Zenon
  DEF Next, vars, inner, StartPrefixes, ReadPrefix, ReadVex, DropPrefixes, Lookup, ModRM, NoModRM,
      ThreeDNow, Suffix, RecordInstruction, DropInstruction, RecordWait, RecordBytes, EndOfCode

\* What is left, number by number.
LeftNumbered ==
    \E code \in Nat, rest \in Nat :
      /\ DecodeLeft = <<code, Steps(pc), rest>>
      /\ Steps(pc) \in Nat /\ (pc = "done" \/ Steps(pc) > 0)
      /\ code = (IF pc = "done" THEN 0 ELSE End - from)
      /\ pc = "prefixes" => rest = End - ps.last
      /\ pc = "operands" => rest = 5 - k

\* It is natural numbers as long as everything is in its place.
LEMMA LeftNat == DecoderInv /\ OperandsCounted => LeftNumbered
<1> SUFFICES ASSUME DecoderInv, OperandsCounted PROVE LeftNumbered
  OBVIOUS
<1>1. /\ pc \in {"next", "done"} \cup Opening \cup Inside
      /\ from \in Nat /\ End - from \in Nat /\ 5 - k \in Nat
  <2>1. pc \in {"next", "done"} \cup Opening \cup Inside /\ from \in 1 .. End
    BY DEF DecoderInv, Typed
  <2>2. End \in Nat
    BY CallFacts DEF DecoderInv, Typed
  <2> QED
    BY <2>1, <2>2 DEF OperandsCounted
<1>2. pc = "prefixes" => End - ps.last \in Nat
  <2>1. pc = "prefixes" => ps.last \in from .. End
    BY DEF DecoderInv, PrefixesPlaced, Opening
  <2>2. End \in Nat
    BY CallFacts DEF DecoderInv, Typed
  <2> QED
    BY <1>1, <2>1, <2>2
<1>3. Steps(pc) \in Nat /\ (pc = "done" \/ Steps(pc) > 0)
  BY <1>1 DEF Steps, Opening, Inside, Decoding
<1>4. CASE pc = "prefixes"
  BY <1>1, <1>2, <1>3, <1>4 DEF DecodeLeft, Steps, LeftNumbered
<1>5. CASE pc = "operands"
  BY <1>1, <1>3, <1>5 DEF DecodeLeft, Steps, LeftNumbered
<1>6. CASE pc \notin {"prefixes", "operands"}
  <2>1. DecodeLeft = <<IF pc = "done" THEN 0 ELSE End - from, Steps(pc), 0>>
    BY <1>1, <1>6 DEF DecodeLeft, Steps, Opening, Inside, Decoding
  <2> QED
    BY <1>1, <1>3, <1>6, <2>1 DEF LeftNumbered
<1> QED
  BY <1>4, <1>5, <1>6

\* Where the next instruction is looked for is in the code or at its end.
LEMMA FromInCode == DecoderInv => End \in Nat /\ from \in Nat /\ from <= End
  BY CallFacts DEF DecoderInv, Typed

\* The later the position the less is left.
LEMMA LessIsLeft ==
  ASSUME NEW e \in Int, NEW f \in Int, NEW g \in Int, NEW m, NEW n, m = e - f, n = e - g
  PROVE  (g > f => n < m) /\ (g >= f => n <= m)
  OBVIOUS

\* A step in which the decoder gets on with an instruction or ends.
LEMMA Onward ==
  ASSUME LeftNumbered, LeftNumbered', DecoderInv, DecoderInv', call' = call,
         Steps(pc') < Steps(pc), pc # "done", pc' = "done" \/ from' >= from
  PROVE  Descends(DecodeLeft', DecodeLeft)
<1>1. PICK code \in Nat, rest \in Nat :
         /\ DecodeLeft = <<code, Steps(pc), rest>> /\ Steps(pc) \in Nat
         /\ code = End - from
  BY DEF LeftNumbered
<1>2. PICK code1 \in Nat, rest1 \in Nat :
         /\ DecodeLeft' = <<code1, Steps(pc'), rest1>> /\ Steps(pc') \in Nat
         /\ code1 = (IF pc' = "done" THEN 0 ELSE End' - from')
  BY DEF LeftNumbered
<1>3. code1 <= code
  <2>1. from \in Int /\ from' \in Int /\ End \in Int /\ End' = End
    BY CallKept, FromInCode DEF DecoderInv, Typed
  <2>2. code = End - from
    BY <1>1
  <2>3. CASE pc' = "done"
    <3>1. code1 = 0
      BY <1>2, <2>3
    <3> QED
      BY ONLY <3>1, code \in Nat
  <2>4. CASE pc' # "done"
    <3>1. code1 = End - from' /\ from' >= from
      BY <1>2, <2>1, <2>4
    <3> QED
      BY <2>1, <2>2, <3>1, LessIsLeft, ZenonT(60)
  <2> QED
    BY <2>3, <2>4
<1>4. code1 < code \/ (code1 = code /\ Steps(pc') < Steps(pc))
  BY <1>3
<1> QED
  BY ONLY <1>1, <1>2, <1>4, Fewer

\* A step after which the decoder looks at later code.
LEMMA Ahead ==
  ASSUME LeftNumbered, LeftNumbered', DecoderInv, DecoderInv', call' = call,
         pc # "done", pc' # "done", from' > from
  PROVE  Descends(DecodeLeft', DecodeLeft)
<1>1. PICK code \in Nat, rest \in Nat :
         /\ DecodeLeft = <<code, Steps(pc), rest>> /\ Steps(pc) \in Nat
         /\ code = End - from
  BY DEF LeftNumbered
<1>2. PICK code1 \in Nat, rest1 \in Nat :
         /\ DecodeLeft' = <<code1, Steps(pc'), rest1>> /\ Steps(pc') \in Nat
         /\ code1 = End' - from'
  BY DEF LeftNumbered
<1>3. code1 < code
  <2>1. from \in Int /\ from' \in Int /\ End \in Int /\ End' = End
    BY CallKept, FromInCode DEF DecoderInv, Typed
  <2>2. code = End - from /\ code1 = End - from'
    BY <1>1, <1>2, <2>1
  <2> QED
    BY <2>1, <2>2, LessIsLeft, Zenon
<1> QED
  BY ONLY <1>1, <1>2, <1>3, Fewer

\* One prefix or one operand more.
LEMMA OneMore ==
  ASSUME LeftNumbered, LeftNumbered', DecoderInv, DecoderInv', call' = call, from' = from,
         \/ pc = "prefixes" /\ pc' = "prefixes" /\ ps.last \in Int /\ ps'.last = ps.last + 1
         \/ pc = "operands" /\ pc' = "operands" /\ k \in Int /\ k' = k + 1
  PROVE  Descends(DecodeLeft', DecodeLeft)
<1>1. PICK code \in Nat, rest \in Nat :
         /\ DecodeLeft = <<code, Steps(pc), rest>> /\ Steps(pc) \in Nat
         /\ code = End - from
         /\ pc = "prefixes" => rest = End - ps.last
         /\ pc = "operands" => rest = 5 - k
  BY DEF LeftNumbered
<1>2. PICK code1 \in Nat, rest1 \in Nat :
         /\ DecodeLeft' = <<code1, Steps(pc'), rest1>>
         /\ code1 = End' - from'
         /\ pc' = "prefixes" => rest1 = End' - ps'.last
         /\ pc' = "operands" => rest1 = 5 - k'
  BY DEF LeftNumbered
<1>3. End \in Nat /\ End' = End
  BY CallKept, CallFacts DEF DecoderInv, Typed
<1>4. code1 = code /\ pc' = pc /\ rest1 < rest
  BY <1>1, <1>2, <1>3
<1>5. DecodeLeft' = <<code, Steps(pc), rest1>>
  BY <1>2, <1>4
<1> QED
  BY ONLY <1>1, <1>2, <1>4, <1>5, Fewer, ZenonT(60)

\* Each step of the decoder is of one of these kinds.
LEMMA StepDescends ==
  ASSUME LeftNumbered, LeftNumbered', DecoderInv, DecoderInv', OperandsCounted, Next
  PROVE  Descends(DecodeLeft', DecodeLeft)
<1> USE DEF Return
<1>0. from \in Nat /\ from' \in Nat /\ call' = call
  <2>1. from \in Nat /\ from' \in Nat
    BY DEF DecoderInv, Typed
  <2>2. call' = call
    BY Zenon DEF Next, StartPrefixes, ReadPrefix, ReadVex, DropPrefixes, StartInstruction,
       Lookup, ModRM, NoModRM, ExtractOperand, ThreeDNow, OperandsDone, Suffix,
       RecordInstruction, DropInstruction, RecordWait, RecordBytes, EndOfCode
  <2> QED
    BY <2>1, <2>2
<1>1. CASE StartPrefixes \/ ReadVex
  <2>1. /\ from' = from /\ pc' \in {"prefixes", "prefixed"} /\ pc \in {"next", "prefixes"}
        /\ pc = "prefixes" => pc' = "prefixed"
    BY <1>1 DEF StartPrefixes, ReadVex
  <2> QED
    BY <1>0, <2>1, Onward DEF Steps
<1>2. CASE ReadPrefix
  <2>1. /\ pc = "prefixes" /\ pc' = "prefixes" /\ from' = from
        /\ ps' = TakePrefix(ps, Code[ps.last])
    BY <1>2 DEF ReadPrefix
  <2>2. /\ PrefixesOK(ps) /\ Code[ps.last] \in DOMAIN Flag
        /\ ps.start \in Nat /\ ps.last \in Nat /\ ps.last - ps.start \in Indices
    <3>1. /\ ps.start = from /\ ps.last \in from .. End /\ PrefixesOK(ps)
          /\ ps.last - ps.start < MaximumSize /\ Code[ps.last] \in DOMAIN Flag
      BY <1>2, <2>1 DEF ReadPrefix, DecoderInv, Typed, PrefixesPlaced, Opening, MorePrefixes,
                        IsLegacy
    <3> QED
      BY <1>0, <3>1, FromInCode, MaximumSizeAssumption DEF Indices
  <2>3. ps'.last = ps.last + 1
    BY <2>1, <2>2, TakeCovers
  <2> QED
    BY <1>0, <2>1, <2>2, <2>3, OneMore
<1>3. CASE DropPrefixes
  <2>1. /\ pc = "prefixed" /\ PrefixSize > 0
        /\ pc' = "done" \/ (pc' = "next" /\ from' = ps.last)
    BY <1>3 DEF DropPrefixes, OnlyPrefixes
  <2>2. ps.start = from /\ ps.last \in Int
    BY <1>0, <2>1, FromInCode DEF DecoderInv, PrefixesPlaced, Opening
  <2>3. CASE pc' = "done"
    BY <1>0, <2>1, <2>3, Onward DEF Steps
  <2>4. CASE pc' = "next"
    <3>1. from' > from
      BY <1>0, <2>1, <2>2, <2>4 DEF PrefixSize
    <3> QED
      BY <1>0, <2>1, <2>4, <3>1, Ahead
  <2> QED
    BY <2>1, <2>3, <2>4
<1>4. CASE StartInstruction
  <2>1. pc = "prefixed" /\ pc' \in {"opcode", "done"} /\ from' = ps.last
    BY <1>4 DEF StartInstruction
  <2>2. from' >= from
    BY <1>0, <2>1, FromInCode DEF DecoderInv, PrefixesPlaced, Opening
  <2> QED
    BY <1>0, <2>1, <2>2, Onward DEF Steps
<1>5. CASE Lookup \/ ModRM \/ NoModRM \/ DropInstruction
  <2>1. /\ from' = from
        /\ \/ pc = "opcode" /\ pc' \in {"modrm", "undecodable"}
           \/ pc = "modrm" /\ pc' \in {"operands", "undecodable"}
           \/ pc = "whole" /\ pc' = "undecodable"
    BY <1>5 DEF Lookup, ModRM, NoModRM, DropInstruction
  <2> QED
    BY <1>0, <2>1, Onward DEF Steps
<1>6. CASE ExtractOperand
  <2>1. pc = "operands" /\ from' = from /\ pc' \in {"operands", "undecodable"}
    BY <1>6 DEF ExtractOperand
  <2>2. CASE pc' = "undecodable"
    BY <1>0, <2>1, <2>2, Onward DEF Steps
  <2>3. CASE pc' = "operands"
    <3>1. k' = k + 1 /\ k \in Int
      BY <1>6, <2>3 DEF ExtractOperand, OperandsCounted
    <3> QED
      BY <1>0, <2>1, <2>3, <3>1, OneMore
  <2> QED
    BY <2>1, <2>2, <2>3
<1>7. CASE ThreeDNow \/ Suffix
  <2>1. /\ from' = from
        /\ \/ pc = "operands" /\ pc' \in {"suffix", "whole", "undecodable"}
           \/ pc = "suffix" /\ pc' \in {"whole", "undecodable"}
    BY <1>7 DEF ThreeDNow, Suffix, OperandsDone
  <2> QED
    BY <1>0, <2>1, Onward DEF Steps
<1>8. CASE RecordInstruction
  <2>1. pc = "whole" /\ pc' \in {"next", "done"} /\ from' = ci.code
    BY <1>8 DEF RecordInstruction, Flow
  <2>2. ci.code > from
    BY <2>1 DEF DecoderInv, CursorPlaced
  <2>3. CASE pc' = "done"
    BY <1>0, <2>1, <2>3, Onward DEF Steps
  <2>4. CASE pc' = "next"
    BY <1>0, <2>1, <2>2, <2>4, Ahead
  <2> QED
    BY <2>1, <2>3, <2>4
<1>9. CASE RecordWait \/ RecordBytes
  <2>1. /\ pc = "undecodable"
        /\ pc' = "done" \/ (pc' = "next" /\ from' = from + 1)
    BY <1>9 DEF RecordWait, RecordBytes
  <2>2. CASE pc' = "done"
    BY <1>0, <1>9, <2>2, Onward DEF Steps, RecordWait, RecordBytes
  <2>3. CASE pc' = "next"
    <3>1. from' > from /\ pc = "undecodable"
      BY <1>0, <1>9, <2>1, <2>3 DEF RecordWait, RecordBytes
    <3> QED
      BY <1>0, <2>3, <3>1, Ahead
  <2> QED
    BY <2>1, <2>2, <2>3
<1>10. CASE EndOfCode
  <2>1. pc = "next" /\ pc' = "done"
    BY <1>10 DEF EndOfCode
  <2> QED
    BY <1>0, <2>1, Onward DEF Steps
<1> QED
  BY <1>1, <1>2, <1>3, <1>4, <1>5, <1>6, <1>7, <1>8, <1>9, <1>10 DEF Next

\* decoder.c, decode_internal: for every trie and code each step leaves fewer
\* bytes, or less to do for the instruction, so that no bytes, of which the
\* search has no idea whether they are code, keep the decoder for ever.
THEOREM DecodingIsBounded == Spec => DecoderAdvances
<1>1. Init => OperandsCounted
  BY DEF Init, OperandsCounted
<1>2. OperandsCounted /\ [Next]_vars => OperandsCounted'
  BY OperandsCountedNext
<1>3. LeftNumbered /\ LeftNumbered' /\ DecoderInv /\ DecoderInv' /\ OperandsCounted /\ [Next]_vars
        => [Descends(DecodeLeft', DecodeLeft)]_vars
  BY StepDescends
<1> QED
  BY <1>1, <1>2, <1>3, LeftNat, DecoderInvariant, PTL DEF Spec, DecoderAdvances
=============================================================================
