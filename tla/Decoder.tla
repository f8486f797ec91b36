------------------------------ MODULE Decoder ------------------------------
(***************************************************************************)
(* decoder.c of diStorm, which DdIsFunctionAtKernelAddress calls to look   *)
(* at code in the kernel: prefixes, opcode, ModR/M, operands and suffixes  *)
(* of one instruction after the other, until the code or the room for      *)
(* results ends.  What cannot be decoded is given back byte by byte.       *)
(* Positions in the code start from 1; codeOffset is left out.             *)
(***************************************************************************)
EXTENDS Instructions, Operands, Progress

CONSTANT Calls  \* bound: the arguments the decoder is called with

ASSUME CallsAssumption == \A call \in Calls :
    /\ call.code \in Seq(Bytes) /\ call.dt \in Modes /\ call.room \in Nat
    /\ call.fcOnly \in BOOLEAN

VARIABLES
    call,     \* the arguments: code, dt, room (maxResultCount) and features
    pc,
    from,     \* code: where the next instruction, then its opcode, starts
    ps,       \* the prefixes of the instruction
    ci,       \* code and codeLen inside decode_inst
    inst,     \* ii
    modrm,
    k,        \* the operand to extract next
    lockable,
    entries,  \* result, up to usedInstructionsCount
    next,     \* nextOffset
    res,      \* what is returned
    read      \* history: the positions of the code that were read

vars == <<call, pc, from, ps, ci, inst, modrm, k, lockable, entries, next, res, read>>
inner == <<ci, inst, modrm, k, lockable>>

Code == call.code
End == Len(Code) + 1
PrefixSize == ps.last - ps.start

Init ==
    /\ call \in Calls
    /\ pc = "next" /\ from = 1 /\ ps = NoPrefixes(1)
    /\ ci = [code |-> 1, len |-> 0] /\ inst = None /\ modrm = 0 /\ k = 1
    /\ lockable = FALSE /\ entries = <<>> /\ next = 1 /\ res = "NONE" /\ read = {}

-----------------------------------------------------------------------------
Return(result) == pc' = "done" /\ res' = result
Undecodable(first, last) ==
    [i \in 1 .. last - first + 1 |->
        [addr |-> first + i - 1, size |-> 1, whole |-> FALSE, unused |-> {}]]
\* Mutant: the room is looked at without the prefixes of an instruction.
OverfullByOne(n) == Len(entries) + 1 > call.room
\* Whether n more results do not fit.
Overfull(n) == Len(entries) + n > call.room

StartPrefixes ==
    /\ pc = "next" /\ from < End
    /\ ps' = NoPrefixes(from)
    /\ pc' = IF prefixes_is_valid(Byte(Code, from), call.dt) THEN "prefixes" ELSE "prefixed"
    /\ read' = read \cup {from}
    /\ UNCHANGED <<call, from, inner, entries, next, res>>
ReadPrefix ==
    /\ pc = "prefixes" /\ MorePrefixes(ps, Code, call.dt)
    /\ ps' = TakePrefix(ps, Code[ps.last])
    /\ read' = read \cup {ps.last}
    /\ UNCHANGED <<call, pc, from, inner, entries, next, res>>
ReadVex ==
    /\ pc = "prefixes" /\ ~MorePrefixes(ps, Code, call.dt)
    /\ ps' = WithVex(ps, Code, call.dt)
    /\ read' = read \cup VexRead(ps, Code, call.dt)
    /\ pc' = "prefixed"
    /\ UNCHANGED <<call, from, inner, entries, next, res>>

\* The code ends with the prefixes, or there are so many that no byte is left.
OnlyPrefixes == PrefixSize > 0 /\ (ps.last = End \/ PrefixSize = MaximumSize)
\* Mutant: prefixes without an instruction are not stepped over.
DropPrefixesStays ==
    /\ pc = "prefixed" /\ OnlyPrefixes
    /\ IF ~call.fcOnly /\ Overfull(PrefixSize)
       THEN Return("MEMORYERR") /\ UNCHANGED <<from, entries>>
       ELSE /\ entries' = entries /\ from' = from
            /\ IF ps.last = End THEN Return("SUCCESS")
               ELSE pc' = "next" /\ UNCHANGED res
    /\ UNCHANGED <<call, ps, inner, next, read>>
DropPrefixes ==
    /\ pc = "prefixed" /\ OnlyPrefixes
    /\ IF ~call.fcOnly /\ Overfull(PrefixSize)
       THEN Return("MEMORYERR") /\ UNCHANGED <<from, entries>>
       ELSE /\ entries' = IF call.fcOnly THEN entries
                          ELSE entries \o Undecodable(ps.start, ps.last - 1)
            /\ from' = ps.last
            /\ IF ps.last = End THEN Return("SUCCESS")
               ELSE pc' = "next" /\ UNCHANGED res
    /\ UNCHANGED <<call, ps, inner, next, read>>

\* In 64 bits a REX that does not come last is dropped, but for its letters,
\* and so are the overrides of the segments that are not in use.
In64(p, opcode) ==
    LET late == "REX" \in p.decoded /\ p.rex # opcode - 1
        rexed == IF late
                 THEN prefixes_ignore([p EXCEPT !.decoded = @ \ {"REX"}, !.ext = "NONE"], {"REX"})
                 ELSE p
    IN  IF rexed.decoded \cap Seg32 = {} THEN rexed
        ELSE prefixes_ignore([rexed EXCEPT !.decoded = @ \ Seg32], {"SEG"})
StartInstruction ==
    /\ pc = "prefixed" /\ ~OnlyPrefixes
    /\ from' = ps.last
    /\ ps' = IF call.dt = 64 THEN In64(ps, ps.last) ELSE ps
    /\ IF Overfull(1) THEN Return("MEMORYERR") /\ UNCHANGED ci
       ELSE /\ pc' = "opcode" /\ UNCHANGED res
            /\ ci' = [code |-> ps.last, len |-> End - ps.last]
    /\ inst' = None /\ modrm' = 0 /\ k' = 1 /\ lockable' = FALSE
    /\ UNCHANGED <<call, entries, next, read>>

-----------------------------------------------------------------------------
(* decode_inst.  The byte that was taken off the length last stays under   *)
(* the cursor while the opcode is read.                                    *)

OpcodeRead(found, first) ==
    /\ ci' = [code |-> first + found.taken - 1, len |-> ci.len - found.taken]
    /\ read' = read \cup (first .. first + found.read - 1)

\* REX.W takes precedence over an operand size that is no part of the opcode.
DropOpSize(p) ==
    IF /\ p.ext = "REX" /\ "OP_SIZE" \in p.decoded
       /\ "OP_SIZE" \notin p.mandatory /\ "W" \in p.vrex
    THEN prefixes_ignore([p EXCEPT !.decoded = @ \ {"OP_SIZE"}], {"OPS"}) ELSE p
Suits(ii) ==
    /\ call.dt = 64 => "INVALID_64BITS" \notin ii.flags
    /\ call.dt # 64 => "64BITS_FETCH" \notin ii.flags
Lookup ==
    /\ pc = "opcode"
    /\ LET found == inst_lookup(Code, ci.code, ci.len, ps, call.dt)
       IN  /\ OpcodeRead(found, ci.code)
           /\ inst' = found.ii
           /\ IF found.ii = None
              THEN pc' = "undecodable" /\ ps' = found.ps
              ELSE /\ ps' = DropOpSize(found.ps)
                   /\ pc' = IF Suits(found.ii) THEN "modrm" ELSE "undecodable"
    /\ UNCHANGED <<call, from, modrm, k, lockable, entries, next, res>>

ModRM ==
    /\ pc = "modrm" /\ "MODRM_REQUIRED" \in inst.flags
    /\ LET more == IF "MODRM_INCLUDED" \in inst.flags THEN 0 ELSE 1
           at == ci.code + more
           byte == Byte(Code, at)
       IN  IF ci.len < more
           THEN /\ pc' = "undecodable"
                /\ ci' = [code |-> at, len |-> ci.len - more]
                /\ UNCHANGED <<modrm, read>>
           ELSE /\ modrm' = byte
                /\ read' = read \cup {at}
                /\ ci' = [code |-> at + 1, len |-> ci.len - more]
                /\ pc' = IF \/ "FORCE_REG0" \in inst.flags /\ Reg(byte) # 0
                            \/ "MODRR" \in inst.flags /\ byte < DividedModRM
                         THEN "undecodable" ELSE "operands"
    /\ UNCHANGED <<call, from, ps, inst, k, lockable, entries, next, res>>
NoModRM ==
    /\ pc = "modrm" /\ "MODRM_REQUIRED" \notin inst.flags
    /\ ci' = [ci EXCEPT !.code = @ + 1]
    /\ pc' = "operands"
    /\ UNCHANGED <<call, from, ps, inst, modrm, k, lockable, entries, next, res, read>>

AdrSize ==
    IF "ADDR_SIZE" \notin ps.decoded THEN call.dt ELSE IF call.dt = 32 THEN 16 ELSE 32
OpSize(flags) ==
    IF "OP_SIZE" \in ps.decoded THEN IF call.dt = 16 THEN 32 ELSE 16
    ELSE IF /\ call.dt = 64
            /\ ~("64BITS" \in flags /\ "PRE_REX" \notin flags)
            /\ ~("REX" \in ps.decoded /\ "W" \in ps.vrex)
         THEN 32 ELSE call.dt
Context ==
    [dt |-> call.dt, op |-> OpSize(inst.flags), adr |-> AdrSize, vrex |-> ps.vrex,
     decoded |-> ps.decoded, ext |-> ps.ext, flags |-> inst.flags, hint |-> inst.hint,
     mod |-> modrm \div 64, reg |-> Reg(modrm), rm |-> modrm % 8, first |-> k = 1]

\* Takes some bytes, the first of which tells about the others.
Take(ahead, more) ==
    LET enough == ci.len >= ahead + more
        got == IF enough THEN ahead + more ELSE IF ci.len >= ahead THEN ahead ELSE 0
    IN  /\ ci' = [code |-> ci.code + got, len |-> ci.len - ahead - more]
        /\ read' = read \cup (ci.code .. ci.code + got - 1)
\* d, s, op3 and op4, as far as the instruction has them.
MoreOperands == k <= 4 /\ k <= Len(inst.ops)
ExtractOperand ==
    /\ pc = "operands" /\ MoreOperands
    /\ LET type == inst.ops[k]
           sib == IF HasSib(type, Context) THEN Byte(Code, ci.code) ELSE 0
           ahead == IF HasSib(type, Context) THEN 1 ELSE 0
           more == Size(type, Context, sib)
       IN  IF Invalid(type, Context)
           THEN pc' = "undecodable" /\ UNCHANGED <<ci, read, ps, lockable, k>>
           ELSE /\ Take(ahead, more)
                /\ pc' = IF ci.len < ahead + more THEN "undecodable" ELSE "operands"
                /\ ps' = [ps EXCEPT !.used = @ \cup Marks(type, Context, sib)]
                /\ lockable' = (lockable \/ Lockable(type, Context))
                /\ k' = k + 1
    /\ UNCHANGED <<call, from, inst, modrm, entries, next, res>>

OperandsDone == pc = "operands" /\ ~MoreOperands
ThreeDNow ==
    /\ OperandsDone /\ "3DNOW_FETCH" \in inst.flags
    /\ LET found == inst_lookup_3dnow(Code, ci.code, ci.len)
       IN  /\ inst' = IF found.ii = None THEN inst ELSE [found.ii EXCEPT !.ops = inst.ops]
           /\ pc' = IF found.ii = None THEN "undecodable" ELSE "suffix"
           /\ ci' = IF found.ii = None THEN ci ELSE [code |-> ci.code + 1, len |-> ci.len - 1]
           /\ read' = read \cup (ci.code .. ci.code + found.read - 1)
    /\ UNCHANGED <<call, from, ps, modrm, k, lockable, entries, next, res>>
Suffix ==
    /\ pc = "suffix" \/ (OperandsDone /\ "3DNOW_FETCH" \notin inst.flags)
    /\ IF "PSEUDO_OPCODE" \in inst.flags
       THEN /\ Take(1, 0)
            /\ pc' = IF ci.len < 1 \/ Byte(Code, ci.code) >= 8 THEN "undecodable" ELSE "whole"
       ELSE pc' = "whole" /\ UNCHANGED <<ci, read>>
    /\ UNCHANGED <<call, from, ps, inst, modrm, k, lockable, entries, next, res>>

-----------------------------------------------------------------------------
\* The prefixes that the mnemonic makes use of.
RepMarks ==
    IF lockable /\ "PRE_LOCK" \in inst.flags THEN {"LOCK"}
    ELSE IF "PRE_REPNZ" \in inst.flags /\ "REPNZ" \in ps.decoded THEN {"REPNZ"}
    ELSE If("PRE_REP" \in inst.flags /\ "REP" \in ps.decoded, "REP")
MnemonicMarks ==
    LET extended == "USE_EXMNEMONIC" \in inst.flags
    IN  IF "PRE_ADDR_SIZE" \in inst.flags /\ (extended \/ "NATIVE" \in inst.flags)
        THEN {"ADDR_SIZE"}
        ELSE CASE OpSize(inst.flags) = 16 ->
                    If(extended /\ inst.flags \cap {"32BITS", "64BITS"} = {}, "OP_SIZE")
               [] OpSize(inst.flags) = 32 -> If(extended, "OP_SIZE")
               [] OTHER -> If("USE_EXMNEMONIC2" \in inst.flags /\ "W" \in ps.vrex, "REX")
Used ==
    ps.used \cup RepMarks \cup MnemonicMarks
    \cup If("NATIVE" \in inst.flags /\ "OP_SIZE" \in ps.decoded, "OP_SIZE")

\* Whether the decoder stops after an instruction, for its kind of flow.
Flow(fc) ==
    IF fc \in call.stops THEN Return("SUCCESS") ELSE pc' = "next" /\ UNCHANGED res
\* Mutant: the limit is for the instruction without its prefixes.
TooLongAlone == ci.code - from > MaximumSize
TooLong == ci.code - ps.start > MaximumSize

RecordInstruction ==
    /\ pc = "whole" /\ ~TooLong
    /\ LET masked == prefixes_set_unused_mask([ps EXCEPT !.used = Used])
           filtered == call.fcOnly /\ inst.fc = "NONE"
       IN  /\ ps' = masked
           /\ entries' = IF filtered THEN entries
                ELSE Append(entries,
                       [addr |-> ps.start, size |-> ci.code - ps.start, whole |-> TRUE,
                        unused |-> masked.unused])
           /\ IF filtered THEN pc' = "next" /\ UNCHANGED res ELSE Flow(inst.fc)
    /\ from' = ci.code /\ next' = ci.code
    /\ UNCHANGED <<call, inner, read>>
DropInstruction ==
    /\ pc = "whole" /\ TooLong
    /\ pc' = "undecodable"
    /\ UNCHANGED <<call, from, ps, inner, entries, next, res, read>>

\* A WAIT that is no part of an instruction is one by itself.
RecordWait ==
    /\ pc = "undecodable" /\ Byte(Code, from) = WAIT
    /\ ps' = [ps EXCEPT !.used = {}]
    /\ entries' = IF call.fcOnly THEN entries
         ELSE Append(entries, [addr |-> ps.start, size |-> PrefixSize + 1, whole |-> TRUE,
                               unused |-> {}])
    /\ pc' = "next"
    /\ from' = from + 1 /\ next' = from + 1
    /\ read' = read \cup {from}
    /\ UNCHANGED <<call, inner, res>>
\* The prefixes and one byte more are given back.
RecordBytes ==
    /\ pc = "undecodable" /\ Byte(Code, from) # WAIT
    /\ ps' = [ps EXCEPT !.used = {}]
    /\ IF ~call.fcOnly /\ Overfull(PrefixSize + 1)
       THEN Return("MEMORYERR") /\ UNCHANGED <<from, next, entries>>
       ELSE /\ entries' = IF call.fcOnly THEN entries
                          ELSE entries \o Undecodable(ps.start, ps.last)
            /\ pc' = "next" /\ from' = from + 1 /\ next' = from + 1
            /\ UNCHANGED res
    /\ read' = read \cup {from}
    /\ UNCHANGED <<call, inner>>

EndOfCode ==
    /\ pc = "next" /\ from = End
    /\ Return("SUCCESS")
    /\ UNCHANGED <<call, from, ps, inner, entries, next, read>>

Next ==
    \/ StartPrefixes \/ ReadPrefix \/ ReadVex \/ DropPrefixes \/ StartInstruction
    \/ Lookup \/ ModRM \/ NoModRM \/ ExtractOperand \/ ThreeDNow \/ Suffix
    \/ RecordInstruction \/ DropInstruction \/ RecordWait \/ RecordBytes
    \/ EndOfCode

Fairness == WF_vars(Next)
Spec == Init /\ [][Next]_vars /\ Fairness

-----------------------------------------------------------------------------
\* The types of the variables: in particular the indices of the prefixes
\* stay within the length of an instruction, and the code that is left is
\* never negative when an operand is about to be extracted.
TypeOK ==
    /\ pc \in {"next", "prefixes", "prefixed", "opcode", "modrm", "operands", "suffix", "whole",
               "undecodable", "done"}
    /\ from \in 1 .. End /\ next \in 1 .. End
    /\ ps.at \in [DOMAIN Types -> -1 .. MaximumSize - 1]
    /\ ps.unused \subseteq 0 .. MaximumSize - 1
    /\ ci.code \in 1 .. End + 1 /\ ci.len \in Int
    /\ pc \in {"opcode", "modrm", "operands", "suffix", "whole"} => ci.len >= 0
    /\ k \in Nat /\ modrm \in Bytes /\ lockable \in BOOLEAN
    /\ res \in {"NONE", "SUCCESS", "MEMORYERR"}

\* No byte behind the code is read, whatever is cut off at its end: the page
\* behind it need not be mapped (decode_inst, inst_lookup, operands_extract).
ReadsInside == read \subseteq DOMAIN Code

\* No more results are written than the caller has room for, those of the
\* bytes that are given back one by one included (decode_internal).
RoomKept == Len(entries) <= call.room

\* The results are consecutive pieces of the code from its first byte on, each
\* no longer than an instruction may be, and the next instruction is looked
\* for where the last result ends; a filter leaves gaps, but no overlaps.
EntriesTile ==
    LET ends == [i \in DOMAIN entries |-> entries[i].addr + entries[i].size]
        Follows(start, i) ==
            LET end == IF i = 0 THEN 1 ELSE ends[i]
            IN  start >= end /\ (call.fcOnly \/ start = end)
    IN  /\ \A i \in DOMAIN entries :
             entries[i].size \in 1 .. MaximumSize /\ Follows(entries[i].addr, i - 1)
        /\ pc = "next" => Follows(from, Len(entries))

\* A prefix that a decoded instruction does not report as unused is one that
\* the instruction uses or that its opcode takes in (prefixes_set_unused_mask,
\* prefixes_track_unused, inst_lookup_prefixed, operands_extract).  The converse
\* does not hold: some that are used are reported, such as a LOCK beside a REP.
PrefixesAccounted ==
    [][ pc = "whole" /\ pc' # "undecodable" =>
          \A p \in ps.start .. (IF ps.vex = 0 THEN ps.last ELSE ps.vex - 1) - 1 :
            p - ps.start \in ps'.unused \/ Flag[Code[p]] \in ps'.used \cup ps'.mandatory ]_vars

\* What is still to be done: the code from the next instruction on, then what
\* there is to do for the instruction, prefix by prefix, operand by operand.
DecodeLeft ==
    CASE pc = "next"        -> <<End - from, 9, 0>>
      [] pc = "prefixes"    -> <<End - from, 8, End - ps.last>>
      [] pc = "prefixed"    -> <<End - from, 7, 0>>
      [] pc = "opcode"      -> <<End - from, 6, 0>>
      [] pc = "modrm"       -> <<End - from, 5, 0>>
      [] pc = "operands"    -> <<End - from, 4, 5 - k>>
      [] pc = "suffix"      -> <<End - from, 3, 0>>
      [] pc = "whole"       -> <<End - from, 2, 0>>
      [] pc = "undecodable" -> <<End - from, 1, 0>>
      [] pc = "done"        -> <<0, 0, 0>>

\* Each step leaves less to do, whatever the bytes are: none is decoded or
\* given back twice, and an instruction takes at least one (decode_internal).
DecoderAdvances == [][Descends(DecodeLeft', DecodeLeft)]_vars

\* Whatever the code is, the decoder comes to its end (decode_internal).
Decodes == <>(pc = "done")
=============================================================================
