----------------------------- MODULE MCDecoder -----------------------------
(***************************************************************************)
(* An instance of Decoder for TLC: an excerpt of the instructions of       *)
(* insts.c, at least one of each kind of node, of operand size and of      *)
(* prefix, and the code to decode.                                         *)
(***************************************************************************)
EXTENDS Decoder, TLC

Ins(ops, flags) == [type |-> "INFO", ops |-> ops, flags |-> flags, fc |-> "NONE", hint |-> FALSE]
Jump(ops, flags, fc, hint) ==
    [type |-> "INFO", ops |-> ops, flags |-> flags, fc |-> fc, hint |-> hint]
List(type, nodes) == [type |-> type, list |-> nodes]
M == "MODRM_REQUIRED"
Included == {M, "MODRM_INCLUDED"}

MCTable_0F_0F == List("FULL", (13 :> Ins(<<"MM", "MM64">>, {M, "3DNOW_FETCH"})))
MCTable_0F_38 == List("FULL",
    (1 :> List("PREFIXED", (0 :> Ins(<<"MM", "MM64">>, {M}))
                        @@ (1 :> Ins(<<"XMM", "XMM128">>, {M}))
                        @@ (5 :> Ins(<<"XMM", "VXMM", "XMM128">>, {M, "PRE_VEX"}))))
 @@ (25 :> List("PREFIXED", (9 :> Ins(<<"YMM", "MEM64">>, {M, "PRE_VEX", "FORCE_VEXL"})))))
MCTable_0F_3A == List("FULL",
    (4 :> List("PREFIXED", (9 :> Ins(<<"YXMM", "YXMM128_256", "IMM8">>, {M, "PRE_VEX"})))))
MCTable_0F == List("FULL",
    (1 :> List("DIVIDED", (2 :> Ins(<<"MEM16_3264">>, Included \cup {"64BITS"}))
                       @@ (4 :> Ins(<<"RFULL_M16">>, Included \cup {"NOT_DIVIDED"}))
                       @@ (10 :> Ins(<<>>, {"MODRM_INCLUDED"}))
                       @@ (64 :> Ins(<<>>, {"64BITS_FETCH", "MODRM_INCLUDED"}))))
 @@ (15 :> MCTable_0F_0F) @@ (56 :> MCTable_0F_38) @@ (58 :> MCTable_0F_3A)
 @@ (32 :> Ins(<<"FREG32_64_RM", "CREG">>, {M, "64BITS"}))
 @@ (120 :> List("PREFIXED", (0 :> Ins(<<"RM32_64", "REG32_64">>, {M, "64BITS"}))
                          @@ (1 :> Ins(<<"XMM_RM", "IMM8_1", "IMM8_2">>, {M, "FORCE_REG0"}))))
 @@ (132 :> Jump(<<"RELC_FULL">>, {}, "CND_BRANCH", TRUE))
 @@ (174 :> List("GROUP",
      (2 :> List("PREFIXED", (0 :> Ins(<<"MEM">>, Included))
                          @@ (8 :> Ins(<<"MEM32">>, Included \cup {"PRE_VEX"}))))))
 @@ (184 :> List("PREFIXED", (2 :> Ins(<<"REG_FULL", "RM_FULL">>, {M, "32BITS", "PRE_OP_SIZE"}))))
 @@ (194 :> List("PREFIXED",
      (0 :> Ins(<<"XMM", "XMM128">>, {M, "USE_EXMNEMONIC", "PSEUDO_OPCODE"}))
   @@ (2 :> Ins(<<"XMM", "XMM32">>, {M, "USE_EXMNEMONIC", "PSEUDO_OPCODE"}))
   @@ (4 :> Ins(<<"YXMM", "VYXMM", "YXMM128_256">>, {M, "PSEUDO_OPCODE", "PRE_VEX"}))))
 @@ (197 :> List("PREFIXED",
      (0 :> Ins(<<"REG32", "MM_RM", "IMM8">>, {M, "MODRR"}))
   @@ (1 :> Ins(<<"REG32", "XMM_RM", "IMM8">>, {M}))))
 @@ (199 :> List("GROUP",
      (1 :> Ins(<<"MEM64_128">>, Included \cup {"PRE_LOCK", "64BITS", "PRE_REX",
                                                "USE_EXMNEMONIC2"})))))
MCTrie == List("FULL",
    (1 :> Ins(<<"RM_FULL", "REG_FULL">>, {M, "PRE_LOCK"}))
 @@ (4 :> Ins(<<"ACC8", "IMM8">>, {}))
 @@ (13 :> Ins(<<"ACC_FULL", "IMM_FULL">>, {}))
 @@ (15 :> MCTable_0F)
 @@ (99 :> Ins(<<"RM16", "REG16">>, {M}))
 @@ (116 :> Jump(<<"RELCB">>, {"64BITS"}, "CND_BRANCH", TRUE))
 @@ (141 :> Ins(<<"REG_FULL", "MEM">>, {M}))
 @@ (144 :> Ins(<<"IB_R_FULL", "ACC_FULL">>, {}))
 @@ (154 :> Jump(<<"PTR16_FULL">>, {"INVALID_64BITS"}, "CALL", FALSE))
 @@ (156 :> Ins(<<>>, {"NATIVE", "64BITS"}))
 @@ (161 :> Ins(<<"ACC_FULL", "MOFFS_FULL">>, {}))
 @@ (164 :> Ins(<<"REGI_EDI", "REGI_ESI">>, {"PRE_REPNZ", "PRE_REP"}))
 @@ (184 :> Ins(<<"IB_R_FULL", "IMM_FULL">>, {"64BITS", "PRE_REX"}))
 @@ (194 :> Jump(<<"IMM16">>, {"64BITS"}, "RET", FALSE))
 @@ (197 :> Ins(<<"REG_FULL", "MEM16_FULL">>, {M, "INVALID_64BITS"}))
 @@ (199 :> List("GROUP", (0 :> Ins(<<"RM_FULL", "IMM_FULL">>, Included))))
 @@ (217 :> List("DIVIDED",
      (0 :> Ins(<<"FPUM32">>, Included))
   @@ (7 :> List("PREFIXED", (0 :> Ins(<<"MEM">>, Included))
                          @@ (1 :> Ins(<<"MEM">>, Included \cup {"PRE_OP_SIZE"}))))
   @@ (8 :> Ins(<<"FPU_SI">>, {"MODRM_INCLUDED"}))))
 @@ (227 :> Jump(<<"RELCB">>, {"PRE_ADDR_SIZE", "USE_EXMNEMONIC", "USE_EXMNEMONIC2"},
                 "CND_BRANCH", FALSE)))

MCarpl == Ins(<<"RM16", "REG16">>, {M})
MCmovsxd == Ins(<<"REG32_64", "RM32">>, {M, "64BITS", "PRE_REX"})
MCnop == Ins(<<>>, {})
MCpause == Ins(<<>>, {})
MC3dnow == Ins(<<"MM", "MM64">>, {M, "3DNOW_FETCH"})

-----------------------------------------------------------------------------
\* Each of these is one instruction in 32 bits, and these are more: longer,
\* shorter or invalid ones, by the mode, the prefixes or the excerpt.
Assembled ==
    { <<1, 0>>, <<1, 68, 36, 8>>, <<1, 132, 229, 1, 2, 3, 4>>, <<1, 5, 1, 2, 3, 4>>,
      <<1, 70, 8>>, <<1, 208>>, <<4, 9>>, <<13, 1, 2, 3, 4>>, <<116, 2>>, <<99, 193>>,
      <<141, 4, 141, 1, 2, 3, 4>>, <<144>>, <<154, 1, 2, 3, 4, 5, 6>>, <<156>>,
      <<161, 1, 2, 3, 4>>, <<164>>, <<184, 1, 2, 3, 4>>, <<194, 8, 0>>,
      <<199, 64, 4, 1, 2, 3, 4>>, <<217, 0>>, <<217, 56>>, <<217, 192>>, <<227, 1>>,
      <<15, 1, 16>>, <<15, 1, 224>>, <<15, 1, 194>>, <<15, 15, 64, 1, 13>>,
      <<15, 32, 192>>, <<15, 56, 1, 193>>, <<15, 132, 1, 2, 3, 4>>, <<15, 174, 16>>,
      <<243, 15, 184, 193>>, <<102, 243, 15, 184, 193>>,
      <<15, 194, 193, 7>>, <<15, 197, 193, 1>>, <<15, 199, 8>>, <<197, 240, 194, 193, 1>>,
      <<197, 248, 174, 16>>, <<197, 1>>, <<196, 226, 113, 1, 193>>,
      <<196, 226, 125, 25, 1>>, <<196, 227, 121, 4, 193, 1>> }
Others ==
    { <<161, 1, 2, 3, 4, 5, 6, 7, 8>>, <<184, 1, 2, 3, 4, 5, 6, 7, 8>>,
      <<155, 217, 56>>, <<155, 144>>, <<15, 1, 248>>, <<15, 15, 193, 14>>, <<15, 32, 200>>,
      <<15, 120, 193, 1, 2>>, <<15, 120, 201, 1>>, <<15, 194, 193, 8>>, <<15, 197, 1, 1>>,
      <<15, 184, 193>>, <<15, 199, 200>>, <<6>>, <<196, 226, 121, 25, 1>> }
Whole == Assembled \cup Others
OnePrefix == {102, 103, 240, 242, 243, 46, 100, 72, 69}
Prefixed ==
    {<<>>} \cup {<<b>> : b \in OnePrefix} \cup {<<102, b>> : b \in {103, 243, 72, 102}}
    \cup {<<b, 102>> : b \in {243, 72}} \cup {<<240, 243>>, <<242, 243>>, <<46, 100>>, <<46, 62>>}
    \cup {[i \in 1 .. n |-> 102] : n \in {9, 14, 15, 17}}
CutOff(code) == {SubSeq(code, 1, n) : n \in 1 .. Len(code) - 1}
Plain(codes) ==
    [code : codes, dt : Modes, room : {16}, fcOnly : {FALSE}, stops : {{}}]

\* Several instructions, little room, the filter and the stops.
Mixed ==
    { <<144, 116, 2, 144, 194, 0, 0, 144>>, <<1, 192, 102, 6, 102, 144, 240, 1, 0>>,
      <<46, 116, 2, 155, 155, 6, 102, 102>>, <<15, 132, 0, 0, 0, 0, 6, 46, 15, 132, 0>>,
      <<197, 248, 194, 193, 9, 243, 144>> \o [i \in 1 .. 16 |-> 243] }
MCCalls ==
    Plain({p \o c : p \in Prefixed, c \in Whole} \cup UNION {CutOff(p \o c) : p \in {<<>>, <<103>>}, c \in Whole})
    \cup [code : Mixed, dt : Modes, room : {0, 1, 2, 3, 5, 8, 30}, fcOnly : BOOLEAN,
          stops : {{}, {"CND_BRANCH"}, {"RET", "CALL"}}]

CutInstructions == UNION {CutOff(c) : c \in Assembled}
\* An instruction is decoded with all of its bytes, those of its operands and
\* suffixes included, and one that the end of the code cuts off is never taken
\* for a shorter one (operands_extract, operands_extract_modrm, decode_inst).
WholeInstructions ==
    pc = "done" /\ call.dt = 32 /\ ~call.fcOnly =>
      /\ call.code \in Assembled =>
           entries = <<[addr |-> 1, size |-> Len(Code), whole |-> TRUE, unused |-> {}]>>
      /\ call.code \in CutInstructions => ~entries[1].whole
=============================================================================
