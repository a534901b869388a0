------------------------------- MODULE MipsCpu -------------------------------
(***************************************************************************)
(* The multi-cycle MIPS core (mips_cpu.v, alu.v, reg_file.v): up to six       *)
(* clocks for an instruction, of which each reads what registers, control and *)
(* ALU show before the clock edge.  Control signals have the names of the    *)
(* source, states its numbers, operations and functions their mnemonics.     *)
(* The performance counters, which only the host reads, are left out.            *)
(***************************************************************************)
EXTENDS Integers

CONSTANTS
  Width,        \* DATA_WIDTH, 32 in the code
  MemoryWords,  \* 2 ** (MEM_ADDR_WIDTH - 2)
  Registers,    \* 0 .. 31, or those the programs name
  JumpRegion,   \* 2 ** 28: the bytes with one PC[31:28]
  decode,       \* the fields of the instruction that a word stands for
  BitOr(_, _)      \* the bits of one number or the other

VARIABLES
  State, PC, TempofIns, A, B, ALUOut, MDR, Address,
  temp,         \* the register file
  fetched       \* history: the address of the last instruction fetched

cpuVars == <<State, PC, TempofIns, A, B, ALUOut, MDR, Address, temp, fetched>>

Modulus == 2 ^ Width
Half == Modulus \div 2
Words == 0 .. Modulus - 1
Truth(b) == IF b THEN 1 ELSE 0

RTypes == {"addu", "or", "slt", "sll", "jr"}
ITypes == {"addiu", "slti", "sltiu", "lui", "lw", "sw", "beq", "bne"}
Operations == RTypes \cup ITypes \cup {"j", "jal"}

Instructions ==
  [op : Operations, rs : Registers, rt : Registers, rd : Registers,
   imm : -Half .. Half - 1, sa : 0 .. Width - 1,
   target : {n \in Nat : 4 * n < JumpRegion}]

ASSUME CpuAssumption ==
  /\ Width \in Nat \ {0, 1} /\ MemoryWords \in Nat \ {0}
  /\ JumpRegion \in Nat \ {0} /\ Modulus % JumpRegion = 0 /\ {0, 31} \subseteq Registers
  /\ DOMAIN decode = Words /\ \A w \in Words : decode[w] \in Instructions

(* Arithmetic of which the provers know nothing. *)
ASSUME PowersOfTwo ==
  /\ Half \in Nat \ {0} /\ Modulus = Half + Half
  /\ \A n \in 0 .. Width : 2 ^ n \in Nat

ASSUME OrAssumption ==
  /\ \A a, b \in Words : BitOr(a, b) \in Words
  /\ \A a \in 0 .. MemoryWords - 1 : BitOr(a, 0) = a /\ BitOr(0, a) = a

CpuInit ==
  /\ State = 0 /\ PC = 0 /\ fetched = 0
  /\ TempofIns = decode[0]
  /\ A = 0 /\ B = 0 /\ ALUOut = 0 /\ MDR = 0 /\ Address = 0
  /\ temp = [r \in Registers |-> 0]

(* An R-type instruction has the operation "nop" in the source, and a function. *)
Op == IF TempofIns.op \in RTypes THEN "nop" ELSE TempofIns.op
func == IF TempofIns.op \in RTypes THEN TempofIns.op ELSE "none"
sign_extend == TempofIns.imm % Modulus
sign_extend_aft2ls == (4 * TempofIns.imm) % Modulus
rdata1 == temp[TempofIns.rs]
rdata2 == temp[TempofIns.rt]

(* alu.v: a + ~b + 1 with its carry, and without the top bits. *)
Minus(a, b) == a + (Modulus - 1 - b) + 1
Cout(a, b) == Minus(a, b) \div Modulus
reswithsign(a, b) == (a % Half) + (Half - 1 - (b % Half)) + 1
TopBit(w) == (w % Modulus) \div Half

\* Mutant of sltres1: the sign of the difference alone.
sltres1Sign(a, b) == TopBit(Minus(a, b))
(* Signed less than: the overflow, exclusive or the sign of the difference. *)
sltres1(a, b) ==
  LET Overflow == (TopBit(reswithsign(a, b)) + Cout(a, b)) % 2
  IN (Overflow + TopBit(Minus(a, b))) % 2

alu(a, b, ALUop) ==
  CASE ALUop = "or"       -> [Result |-> BitOr(a, b), Zero |-> FALSE, CarryOut |-> 0]
    [] ALUop = "add"      -> [Result |-> (a + b) % Modulus, Zero |-> (a + b) % Modulus = 0,
                              CarryOut |-> (a + b) \div Modulus]
    [] ALUop = "subtract" -> [Result |-> Minus(a, b) % Modulus, Zero |-> a = b,
                              CarryOut |-> 1 - Cout(a, b)]
    [] ALUop = "slt"      -> [Result |-> sltres1(a, b), Zero |-> FALSE,
                              CarryOut |-> 1 - Cout(a, b)]

(* The operands and the operation of the ALU in a state. *)
CPU_A == IF State \in {2, 6, 8, 9, 13} THEN A ELSE PC
CPU_B ==
  CASE State = 0 -> 4
    [] State = 1 -> sign_extend_aft2ls
    [] State \in {2, 6, 13} -> sign_extend
    [] OTHER -> B
ALUop ==
  CASE State = 13 -> "slt"
    [] State = 8 -> "subtract"
    [] State = 9 -> (IF func = "addu" THEN "add" ELSE IF func = "or" THEN "or" ELSE "slt")
    [] OTHER -> "add"
Alu == alu(CPU_A, CPU_B, ALUop)

MemRead == State \in {0, 3}
MemWrite == State = 5
Write_data == rdata2

(* The state after the decoding of an instruction. *)
Decoded ==
  CASE Op \in {"lw", "sw"} -> 2
    [] Op = "addiu" -> 6
    [] Op \in {"beq", "bne"} -> 8
    [] Op = "nop" -> 9
    [] Op \in {"j", "jal"} -> 11
    [] Op = "lui" -> 12
    [] Op \in {"slti", "sltiu"} -> 13
Next_State ==
  CASE State = 0 -> 1
    [] State = 1 -> Decoded
    [] State = 2 -> (IF Op = "lw" THEN 3 ELSE 5)
    [] State = 3 -> 4
    [] State = 6 -> 7
    [] State = 9 -> (IF func = "jr" THEN 8 ELSE 10)
    [] State = 13 -> 14
    [] OTHER -> 0

PCWrite == State \in {0, 11} \/ (State = 9 /\ func = "jr")
PCWriteCond == State = 8

\* Mutant of PCW: a branch on inequality is taken on equality.
PCWAlways == PCWrite \/ (PCWriteCond /\ Alu.Zero /\ func # "jr")
(* The program counter is written; a jump register comes through state 8 too. *)
PCW ==
  \/ PCWrite
  \/ PCWriteCond /\ Op = "bne" /\ ~ Alu.Zero
  \/ PCWriteCond /\ Op \notin {"bne", "j", "jal"} /\ func # "jr" /\ Alu.Zero
(* The upper bits are those of the PC, which is past the jump already. *)
Next_PC_J == (PC - (PC % JumpRegion)) + 4 * TempofIns.target
Next_PC ==
  CASE State = 8 -> ALUOut
    [] State = 9 -> A
    [] State = 11 -> Next_PC_J
    [] OTHER -> Alu.Result

(* The write port of the register file.  A link is two words after the jump. *)
RegWrite == State \in {4, 7, 10, 12, 14} \/ (State = 11 /\ Op = "jal")
waddr == IF State = 11 THEN 31 ELSE IF State = 10 THEN TempofIns.rd ELSE TempofIns.rt
wdata ==
  CASE State = 12 -> (TempofIns.imm * 2 ^ (Width \div 2)) % Modulus
    [] State = 11 -> (PC + 4) % Modulus
    [] State = 4 -> MDR
    [] OTHER -> ALUOut

reg_file ==
  temp' = IF RegWrite /\ waddr # 0 THEN [temp EXCEPT ![waddr] = wdata] ELSE temp

(* A clock edge without reset; Instruction and Read_data come from the memory. *)
Run(Instruction, Read_data) ==
  /\ State' = Next_State
  /\ PC' = IF PCW THEN Next_PC ELSE PC
  /\ TempofIns' = IF State = 0 THEN Instruction ELSE TempofIns
  /\ fetched' = IF State = 0 THEN PC ELSE fetched
  /\ A' = IF State = 1 THEN rdata1 ELSE A
  /\ B' = IF State = 1 THEN rdata2 ELSE B
  /\ ALUOut' =
       CASE State \in {0, 1, 2, 6} -> Alu.Result
         [] State = 9 -> (IF func = "sll" THEN (B * 2 ^ TempofIns.sa) % Modulus ELSE Alu.Result)
         [] State = 13 -> (IF Op = "slti" THEN Alu.Result ELSE Alu.CarryOut)
         [] OTHER -> ALUOut
  /\ Address' = IF State = 2 THEN Alu.Result ELSE Address
  /\ MDR' = IF State = 3 THEN Read_data ELSE MDR
  /\ reg_file

(* One with reset. *)
ResetCpu ==
  /\ State' = 0 /\ PC' = 0 /\ fetched' = 0
  /\ temp' = [r \in Registers |-> 0]
  /\ UNCHANGED <<TempofIns, A, B, ALUOut, MDR, Address>>
=============================================================================
