---------------------------- MODULE Instructions ----------------------------
(***************************************************************************)
(* instructions.c of diStorm: the walk down the trie of instructions.  The *)
(* trie is a parameter; insts.c, which a program generated, is one value   *)
(* of it.  An inner node is [type, list], a leaf has type "INFO".          *)
(***************************************************************************)
EXTENDS Prefixes

CONSTANTS
    Trie,      \* the root, Instructions: a node of type "FULL"
    Table_0F,  \* the nodes that a VEX prefix starts from
    Table_0F_38,
    Table_0F_3A,
    Table_0F_0F, \* the 3DNow! instructions
    II_arpl, II_movsxd, II_nop, II_pause, II_3dnow

None == [type |-> "NONE"]
Child(in, i) == IF i \in DOMAIN in.list THEN in.list[i] ELSE None
Reg(b) == (b \div 8) % 8

\* A look-up ends with an instruction, or None, after it took some bytes off
\* the length, of which it read all that were left.
Found(ii, ps, taken) == [ii |-> ii, ps |-> ps, taken |-> taken, read |-> taken]
RanOut(ps, taken) == [ii |-> None, ps |-> ps, taken |-> taken, read |-> taken - 1]

\* 66, F3 and F2 may belong to the opcode; then they are prefixes no more.
inst_lookup_prefixed(in, ps, taken) ==
    LET seen == ps.decoded \cap ({"OP_SIZE"} \cup Reps)
        used == IF seen \cap Reps = {} THEN seen ELSE seen \cap Reps
        node == Child(in, IF seen = {} THEN 0
                          ELSE IF "REPNZ" \in seen THEN 3
                          ELSE IF "REP" \in seen THEN 2 ELSE 1)
        taking == [ps EXCEPT !.decoded = @ \ used, !.mandatory = used]
    IN  IF Reps \subseteq seen THEN Found(None, ps, taken)
        ELSE IF used # seen /\ (node = None \/ "PRE_OP_SIZE" \notin node.flags)
             THEN Found(None, taking, taken)
        ELSE Found(IF node = None THEN Child(in, 0) ELSE node, taking, taken)

\* The table of a VEX instruction has eight nodes, from 4 on, four of which
\* are for an instruction without vvvv.
VexIndex(code, ps) ==
    LET last == Byte(code, IF ps.ext = "VEX2" THEN ps.vex ELSE ps.vex + 1)
    IN  4 + (IF (last \div 8) % 16 = 15 THEN 4 ELSE 0) + (last % 4)
VexStart(code, ps) ==
    LET start == IF ps.ext = "VEX2" THEN 1 ELSE Byte(code, ps.vex) % 32
    IN  CASE start = 1 -> Table_0F [] start = 2 -> Table_0F_38
          [] start = 3 -> Table_0F_3A [] OTHER -> None
OfPrefixed(in, index, ps, taken) ==
    Found(IF in.type = "PREFIXED" THEN Child(in, index) ELSE None, ps, taken)

inst_vex_lookup(code, p, len, ps) ==
    LET start == VexStart(code, ps)
        in == Child(start, Byte(code, p))
        next == Child(in, IF in.type = "GROUP" THEN Reg(Byte(code, p + 1)) ELSE Byte(code, p + 1))
    IN  IF ps.decoded \cap ({"OP_SIZE", "LOCK", "REX"} \cup Reps) # {} \/ start = None
        THEN Found(None, ps, 0)
        ELSE IF len < 1 THEN RanOut(ps, 1)
        ELSE IF in.type \in {"NONE", "PREFIXED", "INFO", "DIVIDED"}
             THEN OfPrefixed(in, VexIndex(code, ps), ps, 1)
        ELSE IF len < 2 THEN RanOut(ps, 2)
        ELSE OfPrefixed(next, VexIndex(code, ps), ps, 2)

\* ARPL and MOVSXD share a byte, so do NOP, XCHG and PAUSE; LEA has no segment.
OneByte(in, b, ps, dt, taken) ==
    CASE b = 99 -> Found(IF dt = 64 THEN II_movsxd ELSE II_arpl, ps, taken)
      [] b = 144 /\ "REP" \in ps.decoded ->
           Found(II_pause, [ps EXCEPT !.used = @ \cup {"REP"}], taken)
      [] b = 144 /\ "REP" \notin ps.decoded ->
           Found(IF dt # 64 \/ "B" \notin ps.vrex THEN II_nop ELSE in,
                 [ps EXCEPT !.used = @ \cup (IF "W" \in ps.vrex THEN {"REX"} ELSE {})], taken)
      [] b = 141 ->
           Found(in, prefixes_ignore([ps EXCEPT !.decoded = @ \ (Seg32 \cup Seg64)], {"SEG"}),
                 taken)
      [] OTHER -> Found(in, ps, taken)

\* The second byte selects by its reg field below 192 and as a whole above.
Divided(b) == IF b < DividedModRM THEN Reg(b) ELSE b - DividedModRM + 8
OfDivided(in, waited, ps, taken) ==
    CASE in.type = "NONE" -> Found(None, ps, taken)
      [] in.type = "INFO" -> Found(IF waited /\ "PRE_OP_SIZE" \notin in.flags THEN None ELSE in,
                                   ps, taken)
      [] OTHER -> Found(Child(in, IF waited THEN 1 ELSE 0), ps, taken)
OfFull(in, ps, taken) ==
    CASE in.type = "INFO" -> Found(in, ps, taken)
      [] in.type = "PREFIXED" -> inst_lookup_prefixed(in, ps, taken)
      [] OTHER -> Found(None, ps, taken)

ThirdByte(in, b, ps, taken) ==
    LET ii == Child(in, Reg(b))
    IN  CASE in.type = "GROUP" -> OfFull(ii, ps, taken)
          [] in.type = "DIVIDED" ->
               Found(IF (ii # None /\ "NOT_DIVIDED" \in ii.flags) \/ b < DividedModRM
                     THEN ii ELSE Child(in, Divided(b)), ps, taken)
          [] in.type = "FULL" -> OfFull(Child(in, b), ps, taken)
          [] OTHER -> Found(None, ps, taken)

\* The walk from the first byte of the opcode, at p, which is byte number
\* n of the instruction; waited if a WAIT came before it.
Walk(code, p, len, ps, dt, n, waited) ==
    LET b0 == Byte(code, p)
        b1 == Byte(code, p + 1)
        in == Child(Trie, b0)
        second == Child(in, b1)
    IN  IF in = None THEN Found(None, ps, n)
        ELSE IF in.type = "INFO" /\ ~waited THEN OneByte(in, b0, ps, dt, n)
        ELSE IF len < n + 1 THEN RanOut(ps, n + 1)
        ELSE IF in.type = "GROUP" /\ ~waited THEN Found(Child(in, Reg(b1)), ps, n + 1)
        ELSE IF in.type = "DIVIDED"
             THEN OfDivided(Child(in, Divided(b1)), waited, ps, n + 1)
        ELSE IF waited \/ second = None THEN Found(None, ps, n + 1)
        ELSE IF b0 = 15 /\ b1 = 15 THEN Found(II_3dnow, ps, n + 1)
        ELSE IF second.type \in {"INFO", "PREFIXED"} THEN OfFull(second, ps, n + 1)
        ELSE IF len < n + 2 THEN RanOut(ps, n + 2)
        ELSE ThirdByte(second, Byte(code, p + 2), ps, n + 2)

\* Mutant: a second or third byte is read though the code has ended.
LookupUnchecked(code, p, len, ps, dt) ==
    IF "VEX" \in ps.decoded THEN inst_vex_lookup(code, p, len, ps)
    ELSE Walk(code, p, len + 2, ps, dt, 1, FALSE)
inst_lookup(code, p, len, ps, dt) ==
    IF "VEX" \in ps.decoded
    THEN LET found == inst_vex_lookup(code, p, len, ps)
         IN  IF found.ii # None /\ "FORCE_VEXL" \in found.ii.flags /\ "L" \notin ps.vrex
             THEN [found EXCEPT !.ii = None] ELSE found
    ELSE IF len < 1 THEN RanOut(ps, 1)
    ELSE IF Byte(code, p) # WAIT THEN Walk(code, p, len, ps, dt, 1, FALSE)
    ELSE IF len < 2 THEN RanOut(prefixes_ignore_all(ps), 2)
    ELSE Walk(code, p + 1, len, prefixes_ignore_all(ps), dt, 2, TRUE)
\* A suffix byte tells which 3DNow! instruction it is.
inst_lookup_3dnow(code, p, len) ==
    IF len < 1 THEN RanOut({}, 1)
    ELSE LET in == Child(Table_0F_0F, Byte(code, p))
         IN  Found(IF in.type = "INFO" THEN in ELSE None, {}, 1)
=============================================================================
