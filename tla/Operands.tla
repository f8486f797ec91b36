------------------------------ MODULE Operands ------------------------------
(***************************************************************************)
(* operands.c of diStorm, as far as decoding goes: how many bytes an       *)
(* operand takes from the code, which operands are invalid, which prefixes *)
(* it makes use of.  Registers, sizes and values are left out.             *)
(* A context c has the mode dt, the effective sizes op and adr, the        *)
(* prefixes decoded, ext and vrex, the flags of the instruction, hint (a   *)
(* conditional jump), the fields mod, reg and rm, first (operand).         *)
(***************************************************************************)
EXTENDS Prefixes

MemoryOnly ==
    {"MEM64_128", "MEM32", "MEM32_64", "MEM64", "MEM128", "MEM16_FULL", "MEM16_3264",
     "MEM_OPT", "FPUM16", "FPUM32", "FPUM64", "FPUM80", "LMEM128_256", "MEM"}
RegisterOrMemory ==
    {"RM_FULL", "RM16", "RM32_64", "RM16_32", "WXMM32_64", "WRM32_64", "YXMM64_256",
     "YXMM128_256", "LXMM64_128", "RFULL_M16", "RM8", "R32_M8", "R32_64_M8",
     "REG32_64_M8", "XMM16", "R32_M16", "R32_64_M16", "REG32_64_M16", "RM32", "MM32",
     "XMM32", "MM64", "XMM64", "XMM128", "YMM256"}
Registers ==
    {"REG8", "REG16", "REG_FULL", "REG32", "REG32_64", "FREG32_64_RM", "CREG", "DREG",
     "SREG", "SEG", "ACC8", "ACC16", "ACC_FULL", "ACC_FULL_NOT64", "CONST1", "REGCL",
     "IB_RB", "IB_R_FULL", "REGDX", "REGECX", "FPU_SI", "FPU_SSI", "FPU_SIS", "MM",
     "MM_RM", "XMM", "XMM_RM", "REGXMM0", "VXMM", "YXMM", "YMM", "VYMM", "VYXMM",
     "WREG32_64"}
ImpliedMemory == {"REGI_ESI", "REGI_EDI", "REGI_EBXAL", "REGI_EAX"}
Immediates ==
    {"IMM8", "IMM16", "IMM_FULL", "IMM32", "SEIMM8", "IMM16_1", "IMM8_1", "IMM8_2",
     "PTR16_FULL", "RELCB", "RELC_FULL", "MOFFS8", "MOFFS_FULL", "XMM_IMM", "YXMM_IMM"}
OpTypes == MemoryOnly \cup RegisterOrMemory \cup Registers \cup ImpliedMemory \cup Immediates

If(condition, flag) == IF condition THEN {flag} ELSE {}
Promoted(c) == c.dt = 64 /\ "64BITS" \in c.flags /\ "PRE_REX" \notin c.flags
NeedsRex(c) == {"64BITS", "PRE_REX"} \subseteq c.flags
InMemory(type, c) == type \in MemoryOnly \cup RegisterOrMemory /\ c.mod # 3
Absent(type, c) == type = "MEM_OPT" /\ c.mod = 3

\* An operand that cannot be: memory where the bits say register, control,
\* debug and segment registers that do not exist.  In 32 bits LOCK stands
\* for the fourth bit of the number of a control register.
Extended(type, c) ==
    "R" \in c.vrex \/ (type = "CREG" /\ c.dt = 32 /\ "LOCK" \in c.decoded)
Invalid(type, c) ==
    \/ type \in MemoryOnly \ {"MEM_OPT"} /\ c.mod = 3
    \/ type = "CREG" /\ c.reg + (IF Extended(type, c) THEN 8 ELSE 0) \notin {0, 2, 3, 4, 8}
    \/ type = "DREG" /\ (c.reg \in {4, 5} \/ "R" \in c.vrex)
    \/ type = "SREG" /\ (c.reg > 5 \/ (c.first /\ c.reg = 1))

\* Only a first operand in memory can be locked.
Lockable(type, c) == InMemory(type, c) /\ c.first /\ "LOCK" \in c.decoded
\* The bytes that follow ModR/M for an operand in memory.
HasSib(type, c) == InMemory(type, c) /\ c.adr # 16 /\ c.rm = 4
Displacement(c, sib) ==
    IF c.adr = 16
    THEN CASE c.mod = 1 -> 1
           [] c.mod = 2 \/ (c.mod = 0 /\ c.rm = 6) -> 2
           [] OTHER -> 0
    ELSE CASE c.mod = 1 -> 1
           [] \/ c.mod = 2
              \/ c.mod = 0 /\ c.rm = 5
              \/ c.mod = 0 /\ c.rm = 4 /\ sib % 8 = 5 -> 4
           [] OTHER -> 0
ImmediateSize(type, c) ==
    CASE type \in {"IMM8", "SEIMM8", "IMM8_1", "IMM8_2", "RELCB", "XMM_IMM", "YXMM_IMM"} -> 1
      [] type \in {"IMM16", "IMM16_1"} -> 2
      [] type = "IMM32" -> 4
      [] type = "IMM_FULL" -> CASE c.op = 16 -> 2
                                [] c.op = 64 /\ NeedsRex(c) -> 8
                                [] OTHER -> 4
      [] type = "RELC_FULL" -> IF c.op = 16 THEN 2 ELSE 4
      [] type = "PTR16_FULL" -> IF c.op = 16 THEN 4 ELSE 6
      [] type \in {"MOFFS8", "MOFFS_FULL"} -> c.adr \div 8
      [] OTHER -> 0
\* Mutant: the displacement of an operand without a base is not read.
SizeWithoutBase(type, c, sib) ==
    IF InMemory(type, c)
    THEN IF c.mod = 0 /\ c.rm \in {4, 5, 6} THEN 0 ELSE Displacement(c, sib)
    ELSE ImmediateSize(type, c)
Size(type, c, sib) ==
    IF InMemory(type, c) THEN Displacement(c, sib) ELSE ImmediateSize(type, c)

\* The prefixes that tell how much memory the operand points to.
SizeMarks(type, c) ==
    CASE type \in {"MEM64_128", "MEM32_64"} -> If(c.op = 64, "REX")
      [] type = "MEM16_FULL" -> IF c.op = 64 THEN If(NeedsRex(c), "REX") ELSE {"OP_SIZE"}
      [] type = "RM_FULL" -> {"OP_SIZE"} \cup If(c.op = 64 /\ "64BITS" \notin c.flags, "REX")
      [] type = "RM32_64" -> If(c.op = 64 /\ NeedsRex(c), "REX")
      [] type = "RM16_32" -> If("OP_SIZE" \in c.decoded, "OP_SIZE")
      [] type = "RFULL_M16" -> {"OP_SIZE"}
      [] OTHER -> {}

\* The prefixes that tell which register it is, if it is one.
RegisterMarks(type, c) ==
    CASE type \in {"RFULL_M16", "RM_FULL"} /\ c.op = 64 ->
           If(type = "RFULL_M16" \/ "PRE_REX" \in c.flags \/ "B" \in c.vrex, "REX")
      [] type \in {"RFULL_M16", "RM_FULL"} /\ c.op # 64 ->
           {"OP_SIZE"} \cup If("B" \in c.vrex, "REX")
      [] type \in {"R32_64_M8", "R32_64_M16", "RM32_64"} ->
           If("B" \in c.vrex \/ (~Promoted(c) /\ "W" \in c.vrex), "REX")
      [] type = "RM16_32" -> If("B" \in c.vrex, "REX") \cup If("OP_SIZE" \in c.decoded, "OP_SIZE")
      [] type \in {"RM16", "XMM16", "XMM32", "XMM64", "XMM128", "RM32", "R32_M8", "R32_M16"} ->
           If("B" \in c.vrex, "REX")
      [] type = "RM8" -> If(c.ext = "REX", "REX")
      [] OTHER -> {}

\* The prefixes that tell where in memory it is: the address size, the
\* registers of SIB or rm, a segment other than the default one.
SibMarks(c, sib) ==
    If("X" \in c.vrex \/ ("B" \in c.vrex /\ (sib % 8 # 5 \/ c.mod # 0)), "REX")
\* Whether the address starts from BP, EBP or ESP, whose segment is SS.  (In
\* 64 bits the default makes no difference.)  An index without a scale and a
\* base counts as the base.
OnStack(c, sib) ==
    LET base == sib % 8
        index == (sib \div 8) % 8
    IN  CASE c.adr = 16 -> c.rm \in {2, 3} \/ (c.rm = 6 /\ c.mod # 0)
          [] c.adr # 16 /\ c.rm # 4 -> c.rm = 5 /\ c.mod # 0
          [] c.adr # 16 /\ c.rm = 4 ->
               \/ base = 4 \/ (base = 5 /\ c.mod # 0)
               \/ base = 5 /\ c.mod = 0 /\ index = 5 /\ sib \div 64 = 0
MemoryMarks(c, sib) ==
    {"ADDR_SIZE"}
    \cup prefixes_use_segment(IF OnStack(c, sib) THEN "SS" ELSE "DS", c, c.dt)
    \cup (IF c.adr = 16 \/ (c.mod = 0 /\ c.rm = 5) THEN {}
          ELSE IF c.rm = 4 THEN SibMarks(c, sib) ELSE If("B" \in c.vrex, "REX"))

\* An operand that is a register by its type.
NamedMarks(type, c) ==
    CASE type = "REG8" -> If(c.ext # "NONE", "REX")
      [] type \in {"REG_FULL", "IB_R_FULL"} /\ c.op # 64 ->
           LET letter == IF type = "REG_FULL" THEN "R" ELSE "B"
           IN  If(letter \in c.vrex, "REX")
               \cup If(c.op = 16 \/ letter \notin c.vrex, "OP_SIZE")
      [] type = "REG_FULL" /\ c.op = 64 -> {"REX"}
      [] type = "IB_R_FULL" /\ c.op = 64 ->
           If(NeedsRex(c) \/ "64BITS" \notin c.flags \/ "B" \in c.vrex, "REX")
      [] type = "IB_RB" -> If("B" \in c.vrex \/ c.ext = "REX", "REX")
      [] type \in {"REG32", "XMM"} -> If("R" \in c.vrex, "REX")
      [] type = "REG32_64" -> If("R" \in c.vrex \/ (~Promoted(c) /\ "W" \in c.vrex), "REX")
      [] type \in {"FREG32_64_RM", "XMM_RM"} -> If("B" \in c.vrex, "REX")
      [] type = "CREG" -> IF "R" \in c.vrex THEN {"REX"} ELSE If(Extended(type, c), "LOCK")
      [] type = "SEG" -> {"OP_SIZE"}
      [] type \in {"ACC_FULL", "ACC_FULL_NOT64"} ->
           IF c.op = 64 THEN If("64BITS" \notin c.flags, "REX") ELSE {"OP_SIZE"}
      [] OTHER -> {}
\* The implied operands of string instructions, XLAT and SVM.
StringMarks(c) ==
    IF "16BITS" \in c.flags
    THEN {"OP_SIZE"} \cup If(c.op = 64 /\ "64BITS" \in c.flags, "REX") ELSE {}
ImpliedMarks(type, c) ==
    CASE type = "REGI_ESI" ->
           {"ADDR_SIZE"} \cup StringMarks(c) \cup prefixes_use_segment("DS", c, c.dt)
      [] type = "REGI_EDI" -> {"ADDR_SIZE"} \cup StringMarks(c)
      [] type = "REGI_EBXAL" -> {"ADDR_SIZE"} \cup prefixes_use_segment("DS", c, c.dt)
                                \cup If(c.adr = 64, "REX")
      [] type = "REGI_EAX" -> If(c.adr # 64, "ADDR_SIZE")
ImmediateMarks(type, c) ==
    CASE type = "IMM_FULL" -> IF c.op = 64 /\ NeedsRex(c) THEN {"REX"} ELSE {"OP_SIZE"}
      [] type = "SEIMM8" -> If("PRE_OP_SIZE" \in c.flags /\ "OP_SIZE" \in c.decoded, "OP_SIZE")
      [] type = "PTR16_FULL" -> {"OP_SIZE"}
      [] type \in {"RELCB", "RELC_FULL"} ->
           If(type = "RELC_FULL", "OP_SIZE")
           \cup (IF ~c.hint THEN {} ELSE IF "CS" \in c.decoded THEN {"CS"}
                 ELSE If("DS" \in c.decoded, "DS"))
      [] type \in {"MOFFS8", "MOFFS_FULL"} ->
           prefixes_use_segment("DS", c, c.dt) \cup If(c.adr # 64, "ADDR_SIZE")
      [] OTHER -> {}

\* The prefixes that an operand uses, once its bytes were read.
Marks(type, c, sib) ==
    CASE Absent(type, c) -> {}
      [] InMemory(type, c) -> SizeMarks(type, c) \cup MemoryMarks(c, sib)
      [] type \in RegisterOrMemory /\ c.mod = 3 -> SizeMarks(type, c) \cup RegisterMarks(type, c)
      [] type \in Registers -> NamedMarks(type, c)
      [] type \in ImpliedMemory -> ImpliedMarks(type, c)
      [] type \in Immediates -> ImmediateMarks(type, c)
=============================================================================
