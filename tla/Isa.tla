--------------------------------- MODULE Isa ---------------------------------
(***************************************************************************)
(* What the MIPS processor promises: each instruction is one step.  There    *)
(* are no delay slots, but a link skips the slot that the compilers fill.    *)
(* Between runs the host writes the memory; a reset ends a run.              *)
(***************************************************************************)
EXTENDS Integers

CONSTANTS
  Width,        \* of a word, in bits
  MemoryWords,  \* words of the memory
  Registers,    \* the numbers of the registers
  JumpRegion,   \* the bytes that a jump stays among, 2 ^ 28 in the code
  decode,       \* the fields of the instruction that a word stands for
  BitOr(_, _),     \* the bits of one word or the other
  Memories      \* the contents of the memory to begin with

VARIABLES pc, regs, memory

Modulus == 2 ^ Width
Words == 0 .. Modulus - 1
Wrap(n) == n % Modulus
Signed(w) == IF w >= Modulus \div 2 THEN w - Modulus ELSE w
Truth(b) == IF b THEN 1 ELSE 0
Index(address) == (address \div 4) % MemoryWords

Zeros == [r \in Registers |-> 0]

Init == pc = 0 /\ regs = Zeros /\ memory \in Memories

Instruction == decode[memory[Index(pc)]]

(* The result of an instruction is for register d. *)
Result(d, value) ==
  /\ regs' = IF d = 0 THEN regs ELSE [regs EXCEPT ![d] = Wrap(value)]
  /\ pc' = Wrap(pc + 4)
  /\ UNCHANGED memory

GoTo(address) == pc' = Wrap(address) /\ UNCHANGED <<regs, memory>>

Arithmetic ==
  LET i == Instruction
      s == regs[i.rs]
      t == regs[i.rt]
  IN
  \/ i.op = "addiu" /\ Result(i.rt, s + i.imm)
  \/ i.op = "slti"  /\ Result(i.rt, Truth(Signed(s) < i.imm))
  \/ i.op = "sltiu" /\ Result(i.rt, Truth(s < Wrap(i.imm)))
  \/ i.op = "lui"   /\ Result(i.rt, i.imm * 2 ^ (Width \div 2))
  \/ i.op = "addu"  /\ Result(i.rd, s + t)
  \/ i.op = "or"    /\ Result(i.rd, BitOr(s, t))
  \/ i.op = "slt"   /\ Result(i.rd, Truth(Signed(s) < Signed(t)))
  \/ i.op = "sll"   /\ Result(i.rd, t * 2 ^ i.sa)

Access ==
  LET i == Instruction
      address == Wrap(regs[i.rs] + i.imm)
  IN
  \/ i.op = "lw" /\ Result(i.rt, memory[Index(address)])
  \/ /\ i.op = "sw"
     /\ memory' = [memory EXCEPT ![Index(address)] = regs[i.rt]]
     /\ pc' = Wrap(pc + 4)
     /\ UNCHANGED regs

Branch ==
  LET i == Instruction
      equal == regs[i.rs] = regs[i.rt]
  IN
  \/ i.op = "beq" /\ GoTo(IF equal THEN pc + 4 + 4 * i.imm ELSE pc + 4)
  \/ i.op = "bne" /\ GoTo(IF equal THEN pc + 4 ELSE pc + 4 + 4 * i.imm)

(* The target of a jump is in the region of the instruction behind it. *)
InRegion(target) == LET next == Wrap(pc + 4) IN (next - (next % JumpRegion)) + 4 * target

Jump ==
  LET i == Instruction IN
  \/ i.op = "j" /\ GoTo(InRegion(i.target))
  \/ i.op = "jr" /\ GoTo(regs[i.rs])
  \/ /\ i.op = "jal"
     /\ regs' = [regs EXCEPT ![31] = Wrap(pc + 8)]
     /\ pc' = Wrap(InRegion(i.target))
     /\ UNCHANGED memory

Execute == Arithmetic \/ Access \/ Branch \/ Jump

(* A reset may come before or after a store takes effect. *)
Reset ==
  /\ pc' = 0 /\ regs' = Zeros
  /\ \/ UNCHANGED memory
     \/ /\ Instruction.op = "sw"
        /\ memory' = [memory EXCEPT ![Index(Wrap(regs[Instruction.rs] + Instruction.imm))]
                        = regs[Instruction.rt]]

(* The host writes a word only while the processor is where a reset puts it. *)
Load ==
  /\ pc = 0 /\ regs = Zeros
  /\ \E a \in DOMAIN memory : \E w \in Words :
       memory' = [memory EXCEPT ![a] = w]
  /\ UNCHANGED <<pc, regs>>

Next == Execute \/ Reset \/ Load
Spec == Init /\ [][Next]_<<pc, regs, memory>>
=============================================================================
