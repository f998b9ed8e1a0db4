------------------------------ MODULE Codec6502 ------------------------------
(***************************************************************************)
(* The instruction table of Codec6502.h: which instructions exist in which *)
(* addressing mode, how many cycles they take, and the flags that both     *)
(* processors read from it.  The table has one row per opcode; here rows   *)
(* of the same kind are given together.                                    *)
(***************************************************************************)
EXTENDS Integers

Reads  == {"ADC", "AND", "CMP", "EOR", "LDA", "ORA", "SBC"}
Shifts == {"ASL", "LSR", "ROL", "ROR"}
Counts == {"DEC", "INC"}
Combined == {"DCP", "ISC", "RLA", "RRA", "SLO", "SRE"}
Branches == {"BCC", "BCS", "BEQ", "BMI", "BNE", "BPL", "BVC", "BVS"}
Stores   == {"STA", "STX", "STY"}
ByteImmediates == {"ALR", "ANC", "ANC2", "ARR", "SBX"}
OneByte == {"CLC", "CLD", "CLI", "CLV", "DEX", "DEY", "INX", "INY", "NOP", "SEC", "SED", "SEI",
            "TAX", "TAY", "TSX", "TXA", "TXS", "TYA", "BRK", "PHA", "PHP", "PLA", "PLP", "RTI", "RTS"}

Indexed == {"Absolute_X", "Absolute_Y", "PostInd_Y"}
FullModes == {"ZeroPage", "ZeroPage_X", "Absolute", "Absolute_X", "Absolute_Y", "PreInd_X", "PostInd_Y"}

\* The addressing modes in which an instruction exists.
ModesOf(i) ==
  CASE i \in Reads            -> FullModes \cup {"Immediate"}
    [] i \in Combined         -> FullModes
    [] i = "STA"              -> FullModes
    [] i \in Shifts           -> {"Accumulator", "ZeroPage", "ZeroPage_X", "Absolute", "Absolute_X"}
    [] i \in Counts           -> {"ZeroPage", "ZeroPage_X", "Absolute", "Absolute_X"}
    [] i \in Branches         -> {"Relative"}
    [] i \in ByteImmediates   -> {"Immediate"}
    [] i \in OneByte          -> {"Implied"}
    [] i \in {"CPX", "CPY"}   -> {"Immediate", "ZeroPage", "Absolute"}
    [] i = "BIT"              -> {"ZeroPage", "Absolute"}
    [] i = "JMP"              -> {"Absolute", "Indirect"}
    [] i = "JSR"              -> {"Absolute"}
    [] i = "LDX"              -> {"Immediate", "ZeroPage", "ZeroPage_Y", "Absolute", "Absolute_Y"}
    [] i = "LDY"              -> {"Immediate", "ZeroPage", "ZeroPage_X", "Absolute", "Absolute_X"}
    [] i = "STX"              -> {"ZeroPage", "ZeroPage_Y", "Absolute"}
    [] i = "STY"              -> {"ZeroPage", "ZeroPage_X", "Absolute"}
    [] i = "LAX"              -> {"ZeroPage", "ZeroPage_Y", "Absolute", "Absolute_Y", "PreInd_X", "PostInd_Y"}
    [] i = "SAX"              -> {"ZeroPage", "ZeroPage_Y", "Absolute", "PreInd_X"}
    [] i = "LAS"              -> {"Absolute_Y"}

Instructions == Reads \cup Shifts \cup Counts \cup Combined \cup Branches \cup Stores \cup ByteImmediates
                  \cup OneByte \cup {"CPX", "CPY", "BIT", "JMP", "JSR", "LDX", "LDY", "LAX", "SAX", "LAS"}

Opcodes == UNION {{<<i, m>> : m \in ModesOf(i)} : i \in Instructions}

NoMemory == {"Immediate", "Implied", "Relative", "Accumulator", "Indirect"}

\* SAX is marked as reading, SLO and SRE as not reading the memory they work on.
ReadsMem(o) == o[2] \notin NoMemory /\ o[1] \notin Stores \cup {"JMP", "JSR", "SLO", "SRE"}
WritesMem(o) == o[2] \notin NoMemory /\ o[1] \in Stores \cup Shifts \cup Counts \cup Combined

AddCycleAtPageBoundary(o) ==
  \/ o[2] = "Relative" \/ o = <<"JMP", "Indirect">>
  \/ o[2] \in Indexed /\ ReadsMem(o) /\ ~WritesMem(o)

OneByteCycles(i) ==
  CASE i = "BRK"            -> 7
    [] i \in {"RTI", "RTS"} -> 6
    [] i \in {"PLA", "PLP"} -> 4
    [] i \in {"PHA", "PHP"} -> 3
    [] OTHER                -> 2

\* Cycles of the addressing modes, for an instruction that reads.
ReadCycles == [m \in FullModes \cup {"ZeroPage_Y"} |->
                 CASE m = "ZeroPage" -> 3 [] m = "PreInd_X" -> 6 [] m = "PostInd_Y" -> 5 [] OTHER -> 4]

Cycles(o) ==
  CASE o[2] = "Implied"                                -> OneByteCycles(o[1])
    [] o[2] \in {"Immediate", "Accumulator", "Relative"} -> 2
    [] o[2] = "Indirect"                               -> 5
    [] o = <<"JMP", "Absolute">>                       -> 3
    [] o = <<"JSR", "Absolute">>                       -> 6
    [] o[2] \notin NoMemory /\ o[1] \in Stores         -> ReadCycles[o[2]] + (IF o[2] \in Indexed THEN 1 ELSE 0)
    [] o[2] \notin NoMemory /\ o[1] \in Shifts \cup Counts \cup Combined
                                                       -> ReadCycles[o[2]] + (IF o[2] \in Indexed THEN 3 ELSE 2)
    [] OTHER                                           -> ReadCycles[o[2]]

=============================================================================
