------------------------------ MODULE MipsProofs ------------------------------
(***************************************************************************)
(* Proofs about the processor of the organisation laboratories and its         *)
(* platform, for every width of a word, every memory and every encoding of the *)
(* instructions: the comparisons of the ALU, that the core implements Isa, and  *)
(* the handshakes of the host with the platform.                              *)
(***************************************************************************)
EXTENDS MipsTop, ListProofs

-----------------------------------------------------------------------------
(* Remainders.                                                              *)

LEMMA Remainder ==
  ASSUME NEW m \in Nat \ {0}, NEW x \in Int
  PROVE  x % m \in 0 .. m - 1 /\ x \div m \in Int /\ x = ((x \div m) * m) + (x % m)
OBVIOUS

LEMMA RemainderIs ==
  ASSUME NEW m \in Nat \ {0}, NEW q \in Int, NEW r \in 0 .. m - 1
  PROVE  ((q * m) + r) % m = r /\ ((q * m) + r) \div m = q
OBVIOUS

LEMMA SmallRemainder ==
  ASSUME NEW m \in Nat \ {0}
  PROVE  /\ \A x \in 0 .. m - 1 : x % m = x /\ x \div m = 0
         /\ \A x \in m .. m + m - 1 : x % m = x - m /\ x \div m = 1
         /\ \A x \in -m .. -1 : x % m = x + m
OBVIOUS

LEMMA Rounds ==
  ASSUME NEW m \in Nat \ {0}, NEW q \in Int, NEW x \in Int
  PROVE  ((q * m) + x) % m = x % m
<1> DEFINE k == x \div m
           r == x % m
<1>1. k \in Int /\ r \in 0 .. m - 1 /\ x = (k * m) + r BY Remainder
<1> HIDE DEF k, r
<1>2. (q * m) + x = ((q + k) * m) + r /\ q + k \in Int BY <1>1
<1>3. ((q * m) + x) % m = r BY <1>1, <1>2, RemainderIs
<1>4. x % m = r BY <1>1, RemainderIs
<1> QED BY <1>3, <1>4

(* A sum modulo m, when its parts were taken modulo m before. *)
LEMMA RemainderOfSum ==
  ASSUME NEW m \in Nat \ {0}, NEW a \in Int, NEW b \in Int
  PROVE  /\ (a + (b % m)) % m = (a + b) % m
         /\ ((a % m) + b) % m = (a + b) % m
<1>1. ASSUME NEW x \in Int, NEW y \in Int PROVE (x + (y % m)) % m = (x + y) % m
  <2> DEFINE k == y \div m
             r == y % m
  <2>1. k \in Int /\ r \in 0 .. m - 1 /\ y = (k * m) + r BY Remainder
  <2> HIDE DEF k, r
  <2>2. x + y = (k * m) + (x + r) /\ x + r \in Int BY <2>1
  <2>3. ((k * m) + (x + r)) % m = (x + r) % m BY <2>1, <2>2, Rounds
  <2>4. (x + y) % m = (x + r) % m BY <2>2, <2>3
  <2> QED BY <2>4 DEF r
<1>2. (a + (b % m)) % m = (a + b) % m BY <1>1
<1>3. (b + (a % m)) % m = (b + a) % m BY <1>1
<1>4. a % m \in Int BY Remainder
<1>5. b + (a % m) = (a % m) + b /\ b + a = a + b BY <1>4
<1> QED BY <1>2, <1>3, <1>5

(* What stays in the region of a word is a word. *)
LEMMA RegionOf ==
  ASSUME NEW m \in Nat \ {0}, NEW size \in Nat \ {0}, m % size = 0,
         NEW x \in 0 .. m - 1, NEW y \in 0 .. size - 1
  PROVE  (x - (x % size)) + y \in 0 .. m - 1
<1>1. PICK k, q, r \in Int : /\ m = k * size
                            /\ x = (q * size) + r /\ r = x % size /\ r \in 0 .. size - 1
  <2> DEFINE k == m \div size
             q == x \div size
             r == x % size
  <2>1. k \in Int /\ m = (k * size) + (m % size) BY Remainder
  <2>2. q \in Int /\ r \in 0 .. size - 1 /\ x = (q * size) + r BY Remainder
  <2> HIDE DEF k, q, r
  <2>3. k * size \in Int /\ r \in Int /\ m = k * size BY <2>1, <2>2
  <2> QED BY <2>1, <2>2, <2>3 DEF r
<1>2. \A a, b \in Int : a <= b => a * size <= b * size OBVIOUS
<1>3. q >= 0
  <2>1. SUFFICES ASSUME q <= -1 PROVE FALSE BY <1>1
  <2>2. q * size <= (-1) * size BY <2>1, <1>1, <1>2
  <2>3. q * size \in Int /\ (-1) * size = - size BY <1>1
  <2> QED BY <2>2, <2>3, <1>1
<1>4. q + 1 <= k
  <2>1. SUFFICES ASSUME k <= q PROVE FALSE BY <1>1
  <2>2. k * size <= q * size BY <2>1, <1>1, <1>2
  <2>3. k * size \in Int /\ q * size \in Int BY <1>1
  <2> QED BY <2>2, <2>3, <1>1
<1>5. 0 * size <= q * size /\ (q + 1) * size <= k * size
  <2>1. q + 1 \in Int /\ 0 \in Int BY <1>1
  <2> QED BY <2>1, <1>1, <1>2, <1>3, <1>4
<1>6. 0 * size = 0 /\ (q + 1) * size = (q * size) + size /\ q * size \in Int BY <1>1
<1>7. x - (x % size) = q * size BY <1>1, <1>6
<1> QED BY <1>1, <1>5, <1>6, <1>7
-----------------------------------------------------------------------------
(* The ALU, and what Isa says of the same words.                             *)

LEMMA WordFacts ==
  /\ Half \in Nat \ {0} /\ Modulus = Half + Half /\ Modulus \in Nat \ {0}
  /\ Words = 0 .. Modulus - 1 /\ 0 \in Words /\ 1 \in Words
  /\ \A n \in Int : n % Modulus \in Words
  /\ \A w \in Words : w % Modulus = w /\ w \in Int
<1>1. Half \in Nat \ {0} /\ Modulus = Half + Half BY PowersOfTwo
<1>2. Modulus \in Nat \ {0} BY <1>1
<1>3. Words = 0 .. Modulus - 1 BY DEF Words
<1> HIDE DEF Modulus, Half, Words
<1>4. 0 \in Words /\ 1 \in Words BY <1>1, <1>3
<1>5. \A n \in Int : n % Modulus \in Words BY <1>2, <1>3, Remainder
<1>6. \A w \in Words : w % Modulus = w /\ w \in Int BY <1>2, <1>3, SmallRemainder
<1> QED BY <1>1, <1>2, <1>3, <1>4, <1>5, <1>6

(* The carry out of a + ~b + 1 is that a is not below b. *)
LEMMA CarryIsOrder ==
  ASSUME NEW a \in Words, NEW b \in Words
  PROVE  1 - Cout(a, b) = Truth(a < b)
<1> DEFINE d == a + (Modulus - 1 - b) + 1
           c == d \div Modulus
<1>1. Modulus \in Nat \ {0} /\ Words = 0 .. Modulus - 1 BY WordFacts
<1> HIDE DEF Modulus, Words
<1>2. CASE a < b
  <2>1. d \in 0 .. Modulus - 1 BY <1>1, <1>2
  <2> HIDE DEF d
  <2>2. c = 0 BY <1>1, <2>1, SmallRemainder
  <2> QED BY <1>2, <2>2 DEF Cout, Minus, Truth, d
<1>3. CASE ~ (a < b)
  <2>1. d \in Modulus .. Modulus + Modulus - 1 BY <1>1, <1>3
  <2> HIDE DEF d
  <2>2. c = 1 BY <1>1, <2>1, SmallRemainder
  <2> QED BY <1>3, <2>2 DEF Cout, Minus, Truth, d
<1> QED BY <1>2, <1>3

LEMMA TopBits ==
  ASSUME NEW d \in 0 .. Modulus + Modulus - 1
  PROVE  TopBit(d) = IF d < Half \/ (Modulus <= d /\ d < Modulus + Half) THEN 0 ELSE 1
<1>1. Half \in Nat \ {0} /\ Modulus = Half + Half /\ Modulus \in Nat \ {0} BY WordFacts
<1> HIDE DEF Modulus, Half
<1>2. ASSUME NEW e \in 0 .. Modulus - 1 PROVE e \div Half = IF e < Half THEN 0 ELSE 1
  <2>1. CASE e < Half
    <3>1. e \in 0 .. Half - 1 BY <1>1, <2>1
    <3> QED BY <1>1, <2>1, <3>1, SmallRemainder
  <2>2. CASE ~ (e < Half)
    <3>1. e \in Half .. Half + Half - 1 BY <1>1, <2>2
    <3> QED BY <1>1, <2>2, <3>1, SmallRemainder
  <2> QED BY <2>1, <2>2
<1>3. CASE d < Modulus
  <2>1. d \in 0 .. Modulus - 1 BY <1>1, <1>3
  <2>2. d % Modulus = d BY <1>1, <2>1, SmallRemainder
  <2>3. TopBit(d) = d \div Half BY <2>2 DEF TopBit
  <2>4. ~ (Modulus <= d) BY <1>1, <1>3
  <2> QED BY <1>2, <2>1, <2>3, <2>4
<1>4. CASE ~ (d < Modulus)
  <2>1. d \in Modulus .. Modulus + Modulus - 1 BY <1>1, <1>4
  <2>2. d % Modulus = d - Modulus BY <1>1, <2>1, SmallRemainder
  <2>3. d - Modulus \in 0 .. Modulus - 1 BY <1>1, <2>1
  <2>4. TopBit(d) = (d - Modulus) \div Half BY <2>2 DEF TopBit
  <2>5. (d - Modulus < Half) <=> (d < Half \/ (Modulus <= d /\ d < Modulus + Half))
    BY <1>1, <2>1
  <2> QED BY <1>2, <2>3, <2>4, <2>5
<1> QED BY <1>3, <1>4

(* Halves of the words, by the sign. *)
LEMMA SignIs ==
  ASSUME NEW w \in Words
  PROVE  /\ w < Half => w % Half = w /\ Processor!Signed(w) = w
         /\ ~ (w < Half) => w % Half = w - Half /\ Processor!Signed(w) = w - Modulus
<1>1. Half \in Nat \ {0} /\ Modulus = Half + Half /\ Words = 0 .. Modulus - 1 BY WordFacts
<1>2. Processor!Signed(w) = IF w >= Half THEN w - Modulus ELSE w
  BY DEF Processor!Signed, Processor!Modulus, Modulus, Half
<1> HIDE DEF Modulus, Half, Words
<1>3. CASE w < Half
  <2>1. w \in 0 .. Half - 1 /\ ~ (w >= Half) BY <1>1, <1>3
  <2> QED BY <1>1, <1>2, <1>3, <2>1, SmallRemainder
<1>4. CASE ~ (w < Half)
  <2>1. w \in Half .. Half + Half - 1 /\ w >= Half BY <1>1, <1>4
  <2> QED BY <1>1, <1>2, <1>4, <2>1, SmallRemainder
<1> QED BY <1>3, <1>4

(* Overflow, exclusive or the sign of the difference, is the order of signed words. *)
THEOREM SignedOrder ==
  ASSUME NEW a \in Words, NEW b \in Words
  PROVE  sltres1(a, b) = Truth(Processor!Signed(a) < Processor!Signed(b))
<1>1. Half \in Nat \ {0} /\ Modulus = Half + Half /\ Words = 0 .. Modulus - 1 BY WordFacts
<1>2. Cout(a, b) = IF a < b THEN 0 ELSE 1
  <2>1. 1 - Cout(a, b) = Truth(a < b) BY CarryIsOrder
  <2>2. Cout(a, b) \in Int
    <3> DEFINE d == a + (Modulus - 1 - b) + 1
    <3>1. d \in Int /\ Modulus \in Nat \ {0} BY <1>1, WordFacts
    <3> HIDE DEF d
    <3>2. d \div Modulus \in Int BY <3>1, Remainder
    <3> QED BY <3>2 DEF Cout, Minus, d
  <2>3. \A c \in Int : (1 - c = 0 => c = 1) /\ (1 - c = 1 => c = 0) OBVIOUS
  <2> QED BY <2>1, <2>2, <2>3 DEF Truth
<1> DEFINE la == a % Half
           lb == b % Half
           sa == Processor!Signed(a)
           sb == Processor!Signed(b)
           d == a + (Modulus - 1 - b) + 1
           e == la + (Half - 1 - lb) + 1
<1>3. /\ a < Half => la = a /\ sa = a
      /\ ~ (a < Half) => la = a - Half /\ sa = a - Modulus
      /\ b < Half => lb = b /\ sb = b
      /\ ~ (b < Half) => lb = b - Half /\ sb = b - Modulus
  BY SignIs
<1>4. /\ sltres1(a, b) = (((TopBit(e) + Cout(a, b)) % 2) + TopBit(d)) % 2
  BY DEF sltres1, reswithsign, Minus
<1> HIDE DEF la, lb, sa, sb, Modulus, Half, Words
<1>5. d \in 0 .. Modulus + Modulus - 1 /\ e \in 0 .. Modulus + Modulus - 1
  BY <1>1, <1>3
<1>6. /\ TopBit(d) = IF d < Half \/ (Modulus <= d /\ d < Modulus + Half) THEN 0 ELSE 1
      /\ TopBit(e) = IF e < Half \/ (Modulus <= e /\ e < Modulus + Half) THEN 0 ELSE 1
  <2> HIDE DEF d, e
  <2> QED BY <1>5, TopBits
<1>7. TopBit(e) = IF la < lb THEN 0 ELSE 1 BY <1>1, <1>3, <1>6
<1>8. CASE a < Half /\ b < Half
  <2>1. TopBit(d) = IF a < b THEN 1 ELSE 0 BY <1>1, <1>6, <1>8
  <2> QED BY <1>1, <1>2, <1>3, <1>4, <1>7, <1>8, <2>1 DEF Truth, sa, sb
<1>9. CASE ~ (a < Half) /\ ~ (b < Half)
  <2>1. TopBit(d) = IF a < b THEN 1 ELSE 0 BY <1>1, <1>6, <1>9
  <2> QED BY <1>1, <1>2, <1>3, <1>4, <1>7, <1>9, <2>1 DEF Truth, sa, sb
<1>10. CASE a < Half /\ ~ (b < Half)
  <2>1. TopBit(d) = IF la < lb THEN 0 ELSE 1 BY <1>1, <1>3, <1>6, <1>10
  <2> QED BY <1>1, <1>2, <1>3, <1>4, <1>7, <1>10, <2>1 DEF Truth, sa, sb
<1>11. CASE ~ (a < Half) /\ b < Half
  <2>1. TopBit(d) = IF la < lb THEN 0 ELSE 1 BY <1>1, <1>3, <1>6, <1>11
  <2> QED BY <1>1, <1>2, <1>3, <1>4, <1>7, <1>11, <2>1 DEF Truth, sa, sb
<1> QED BY <1>8, <1>9, <1>10, <1>11

(* An immediate, as the ALU gets it and as the number it stands for. *)
LEMMA Immediate ==
  ASSUME NEW n \in -Half .. Half - 1
  PROVE  n \in Int /\ n % Modulus \in Words /\ Processor!Signed(n % Modulus) = n
<1>1. /\ Half \in Nat \ {0} /\ Modulus = Half + Half /\ Modulus \in Nat \ {0}
      /\ Words = 0 .. Modulus - 1
  BY WordFacts
<1>2. n \in Int BY <1>1
<1>3. n % Modulus \in Words BY <1>2, WordFacts
<1>4. /\ n % Modulus < Half => Processor!Signed(n % Modulus) = n % Modulus
      /\ ~ (n % Modulus < Half) => Processor!Signed(n % Modulus) = (n % Modulus) - Modulus
  BY <1>3, SignIs
<1> HIDE DEF Half, Modulus, Words
<1>5. CASE n >= 0
  <2>1. n \in 0 .. Modulus - 1 /\ n < Half BY <1>1, <1>5
  <2>2. n % Modulus = n BY <1>1, <2>1, SmallRemainder
  <2> QED BY <1>2, <1>3, <1>4, <2>1, <2>2
<1>6. CASE ~ (n >= 0)
  <2>1. n \in -Modulus .. -1 BY <1>1, <1>6
  <2>2. n % Modulus = n + Modulus BY <1>1, <2>1, SmallRemainder
  <2>3. ~ (n + Modulus < Half) /\ (n + Modulus) - Modulus = n BY <1>1
  <2> QED BY <1>2, <1>3, <1>4, <2>2, <2>3
<1> QED BY <1>5, <1>6

LEMMA AluIs ==
  ASSUME NEW a, NEW b
  PROVE  /\ alu(a, b, "add").Result = (a + b) % Modulus
         /\ alu(a, b, "or").Result = BitOr(a, b)
         /\ alu(a, b, "subtract").Zero = (a = b)
         /\ alu(a, b, "slt").Result = sltres1(a, b)
         /\ alu(a, b, "slt").CarryOut = 1 - Cout(a, b)
<1> HIDE DEF sltres1, Cout, Minus, Modulus
<1>1. alu(a, b, "add").Result = (a + b) % Modulus BY DEF alu
<1>2. alu(a, b, "or").Result = BitOr(a, b) BY DEF alu
<1>3. alu(a, b, "subtract").Zero = (a = b) BY DEF alu
<1>4. alu(a, b, "slt").Result = sltres1(a, b) BY DEF alu
<1>5. alu(a, b, "slt").CarryOut = 1 - Cout(a, b) BY DEF alu
<1> QED BY <1>1, <1>2, <1>3, <1>4, <1>5

(* What the ALU shows in the states in which it is read. *)
LEMMA AluShows ==
  /\ State = 0 => Alu.Result = (PC + 4) % Modulus
  /\ State = 1 => Alu.Result = (PC + sign_extend_aft2ls) % Modulus
  /\ State \in {2, 6} => Alu.Result = (A + sign_extend) % Modulus
  /\ State = 8 => Alu.Zero = (A = B)
  /\ State = 9 /\ func = "addu" => Alu.Result = (A + B) % Modulus
  /\ State = 9 /\ func = "or" => Alu.Result = BitOr(A, B)
  /\ State = 9 /\ func \notin {"addu", "or"} => Alu.Result = sltres1(A, B)
  /\ State = 13 => /\ Alu.Result = sltres1(A, sign_extend)
                   /\ Alu.CarryOut = 1 - Cout(A, sign_extend)
<1>0. Alu = alu(CPU_A, CPU_B, ALUop) BY DEF Alu
<1>1. CASE State = 0
  <2>1. CPU_A = PC /\ CPU_B = 4 /\ ALUop = "add" BY <1>1 DEF CPU_A, CPU_B, ALUop
  <2> QED BY <1>0, <1>1, <2>1, AluIs
<1>2. CASE State = 1
  <2>1. CPU_A = PC /\ CPU_B = sign_extend_aft2ls /\ ALUop = "add"
    BY <1>2 DEF CPU_A, CPU_B, ALUop
  <2> QED BY <1>0, <1>2, <2>1, AluIs
<1>3. CASE State \in {2, 6}
  <2>1. CPU_A = A /\ CPU_B = sign_extend /\ ALUop = "add" BY <1>3 DEF CPU_A, CPU_B, ALUop
  <2> QED BY <1>0, <1>3, <2>1, AluIs
<1>4. CASE State = 8
  <2>1. CPU_A = A /\ CPU_B = B /\ ALUop = "subtract" BY <1>4 DEF CPU_A, CPU_B, ALUop
  <2> QED BY <1>0, <1>4, <2>1, AluIs
<1>5. CASE State = 9
  <2>1. CPU_A = A /\ CPU_B = B BY <1>5 DEF CPU_A, CPU_B
  <2>2. /\ func = "addu" => ALUop = "add"
        /\ func = "or" => ALUop = "or"
        /\ func \notin {"addu", "or"} => ALUop = "slt"
    BY <1>5 DEF ALUop
  <2> QED BY <1>0, <1>5, <2>1, <2>2, AluIs
<1>6. CASE State = 13
  <2>1. CPU_A = A /\ CPU_B = sign_extend /\ ALUop = "slt" BY <1>6 DEF CPU_A, CPU_B, ALUop
  <2> QED BY <1>0, <1>6, <2>1, AluIs
<1> QED BY <1>1, <1>2, <1>3, <1>4, <1>5, <1>6
-----------------------------------------------------------------------------
(***************************************************************************)
(* The core, clock by clock.  What an instruction has computed when the core    *)
(* is in a state, from the registers as they were when it was fetched.        *)
(***************************************************************************)
EffectiveAddress == (rdata1 + TempofIns.imm) % Modulus
Target == ((fetched + 4) + 4 * TempofIns.imm) % Modulus
ByFunction ==
  IF TempofIns.op = "addu" THEN (rdata1 + rdata2) % Modulus
  ELSE IF TempofIns.op = "or" THEN BitOr(rdata1, rdata2)
  ELSE IF TempofIns.op = "slt" THEN Truth(Processor!Signed(rdata1) < Processor!Signed(rdata2))
  ELSE (rdata2 * 2 ^ TempofIns.sa) % Modulus
ByOrder ==
  IF TempofIns.op = "slti" THEN Truth(Processor!Signed(rdata1) < TempofIns.imm)
  ELSE Truth(rdata1 < TempofIns.imm % Modulus)

CpuTyped ==
  /\ State \in 0 .. 14 /\ PC \in Words /\ fetched \in Words
  /\ TempofIns \in Instructions
  /\ {A, B, ALUOut, MDR, Address} \subseteq Words
  /\ temp \in [Registers -> Words]
  /\ mem \in [0 .. MemoryWords - 1 -> Words]

(* The word that was fetched is there still, and so are the registers. *)
Holds ==
  /\ State # 0 => TempofIns = decode[mem[At(fetched)]]
  /\ State # 0 /\ ~ (State = 8 /\ TempofIns.op = "jr") => PC = (fetched + 4) % Modulus
  /\ State \notin {0, 1} => A = rdata1 /\ B = rdata2

Computed ==
  /\ State = 2 => TempofIns.op \in {"lw", "sw"}
  /\ State = 3 => TempofIns.op = "lw" /\ Address = EffectiveAddress
  /\ State = 4 => TempofIns.op = "lw" /\ MDR = mem[At(EffectiveAddress)]
  /\ State = 5 => TempofIns.op = "sw" /\ Address = EffectiveAddress
  /\ State = 6 => TempofIns.op = "addiu"
  /\ State = 7 => TempofIns.op = "addiu" /\ ALUOut = EffectiveAddress
  /\ State = 8 => \/ TempofIns.op = "jr" /\ PC = rdata1
                  \/ TempofIns.op \in {"beq", "bne"} /\ ALUOut = Target
  /\ State = 9 => TempofIns.op \in RTypes
  /\ State = 10 => TempofIns.op \in RTypes \ {"jr"} /\ ALUOut = ByFunction
  /\ State = 11 => TempofIns.op \in {"j", "jal"}
  /\ State = 12 => TempofIns.op = "lui"
  /\ State = 13 => TempofIns.op \in {"slti", "sltiu"}
  /\ State = 14 => TempofIns.op \in {"slti", "sltiu"} /\ ALUOut = ByOrder

(* The inductive invariant of the core and its memory. *)
CpuInv == CpuTyped /\ Holds /\ Computed

LEMMA InsKinds ==
  ASSUME CpuTyped
  PROVE  /\ TempofIns.op \in Operations
         /\ TempofIns.imm \in -Half .. Half - 1 /\ TempofIns.imm \in Int
         /\ TempofIns.sa \in Nat /\ 2 ^ TempofIns.sa \in Nat
         /\ {TempofIns.rs, TempofIns.rt, TempofIns.rd} \subseteq Registers
         /\ rdata1 \in Words /\ rdata2 \in Words
<1>1. TempofIns \in Instructions BY DEF CpuTyped
<1>2. /\ TempofIns.op \in Operations /\ TempofIns.imm \in -Half .. Half - 1
      /\ TempofIns.sa \in 0 .. Width - 1
      /\ {TempofIns.rs, TempofIns.rt, TempofIns.rd} \subseteq Registers
  BY <1>1 DEF Instructions
<1>3. TempofIns.imm \in Int BY <1>2, Immediate
<1>4. TempofIns.sa \in 0 .. Width /\ TempofIns.sa \in Nat BY <1>2, CpuAssumption
<1>5. 2 ^ TempofIns.sa \in Nat BY <1>4, PowersOfTwo
<1>6. rdata1 \in Words /\ rdata2 \in Words BY <1>2 DEF CpuTyped, rdata1, rdata2
<1> QED BY <1>2, <1>3, <1>4, <1>5, <1>6

(* A jump goes to a word, of the region of the instruction behind it. *)
LEMMA JumpIs ==
  ASSUME CpuTyped
  PROVE  Next_PC_J \in Words
<1>1. TempofIns \in Instructions /\ PC \in Words BY DEF CpuTyped
<1> DEFINE y == 4 * TempofIns.target
<1>2. TempofIns.target \in {n \in Nat : 4 * n < JumpRegion} BY <1>1 DEF Instructions
<1>3. Modulus \in Nat \ {0} /\ Words = 0 .. Modulus - 1 BY WordFacts
<1>4. JumpRegion \in Nat \ {0} /\ Modulus % JumpRegion = 0 BY CpuAssumption
<1>5. y \in 0 .. JumpRegion - 1 BY <1>2, <1>4
<1> HIDE DEF y, Modulus, Words
<1>6. (PC - (PC % JumpRegion)) + y \in 0 .. Modulus - 1
  BY <1>1, <1>3, <1>4, <1>5, RegionOf
<1> QED BY <1>3, <1>6 DEF Next_PC_J, y

(* What stays in a clock. *)
LEMMA RunLeaves ==
  ASSUME NEW w, NEW d, Run(w, d)
  PROVE  /\ State # 0 => UNCHANGED <<TempofIns, fetched>>
         /\ State # 1 => UNCHANGED <<A, B>>
         /\ State # 2 => UNCHANGED Address
         /\ State # 3 => UNCHANGED MDR
         /\ State \notin {0, 8, 9, 11} => UNCHANGED PC
         /\ State \notin {0, 1, 2, 6, 9, 13} => UNCHANGED ALUOut
         /\ State \notin {4, 7, 10, 11, 12, 14} => UNCHANGED temp
<1>1. State # 0 => UNCHANGED <<TempofIns, fetched>> BY DEF Run
<1>2. State # 1 => UNCHANGED <<A, B>> BY DEF Run
<1>3. State # 2 => UNCHANGED Address BY DEF Run
<1>4. State # 3 => UNCHANGED MDR BY DEF Run
<1>5. State \notin {0, 8, 9, 11} => UNCHANGED PC BY DEF Run, PCW, PCWrite, PCWriteCond
<1>6. State \notin {0, 1, 2, 6, 9, 13} => UNCHANGED ALUOut BY DEF Run
<1>7. State \notin {4, 7, 10, 11, 12, 14} => UNCHANGED temp BY DEF Run, reg_file, RegWrite
<1> QED BY <1>1, <1>2, <1>3, <1>4, <1>5, <1>6, <1>7

(* A clock of the core without reset, with its side of the memory. *)
CoreClock ==
  /\ ~ mips_rst
  /\ Run(decode[mem[At(PC)]], Read_data)
  /\ mem' = IF MemWrite THEN [mem EXCEPT ![At(Address)] = Write_data] ELSE mem

LEMMA AtIs ==
  ASSUME NEW x \in Words
  PROVE  At(x) \in 0 .. MemoryWords - 1
<1>1. x \in Int /\ MemoryWords \in Nat \ {0} BY WordFacts, CpuAssumption
<1>2. x \div 4 \in Int BY <1>1, Remainder
<1>3. (x \div 4) % MemoryWords \in 0 .. MemoryWords - 1 BY <1>1, <1>2, Remainder
<1> QED BY <1>3 DEF At

LEMMA MemoryTyped ==
  ASSUME CpuTyped
  PROVE  \A x \in Words : mem[At(x)] \in Words /\ decode[mem[At(x)]] \in Instructions
<1>1. \A x \in Words : mem[At(x)] \in Words BY AtIs DEF CpuTyped
<1> QED BY <1>1, CpuAssumption

LEMMA OrdersAreWords ==
  /\ \A a, b \in Words : sltres1(a, b) \in Words /\ 1 - Cout(a, b) \in Words
  /\ \A b \in BOOLEAN : Truth(b) \in Words
<1>1. \A b \in BOOLEAN : Truth(b) \in Words
  <2>1. 0 \in Words /\ 1 \in Words BY WordFacts
  <2> QED BY <2>1 DEF Truth
<1>2. ASSUME NEW a \in Words, NEW b \in Words
      PROVE  sltres1(a, b) \in Words /\ 1 - Cout(a, b) \in Words
  <2>1. sltres1(a, b) = Truth(Processor!Signed(a) < Processor!Signed(b)) BY SignedOrder
  <2>2. 1 - Cout(a, b) = Truth(a < b) BY CarryIsOrder
  <2>3. (Processor!Signed(a) < Processor!Signed(b)) \in BOOLEAN /\ (a < b) \in BOOLEAN
    OBVIOUS
  <2> QED BY <1>1, <2>1, <2>2, <2>3
<1> QED BY <1>1, <1>2

LEMMA AluOutTyped ==
  ASSUME CpuTyped, NEW w, NEW d, Run(w, d)
  PROVE  ALUOut' \in Words
<1>1. /\ {A, B, ALUOut, PC} \subseteq Words /\ PC \in Int /\ A \in Int /\ B \in Int
  BY WordFacts DEF CpuTyped
<1>2. TempofIns.imm \in Int /\ 2 ^ TempofIns.sa \in Nat BY InsKinds
<1>3. \A n \in Int : n % Modulus \in Words BY WordFacts
<1>4. 4 * TempofIns.imm \in Int BY <1>2
<1>5. sign_extend \in Words /\ sign_extend_aft2ls \in Words
  BY <1>2, <1>3, <1>4 DEF sign_extend, sign_extend_aft2ls
<1>6. sign_extend \in Int /\ sign_extend_aft2ls \in Int BY <1>5, WordFacts
<1> HIDE DEF sign_extend, sign_extend_aft2ls, Modulus, Words
<1>7. CASE State \in {0, 1, 2, 6}
  <2>1. ALUOut' = Alu.Result BY <1>7 DEF Run
  <2>2. \A a, b \in Int : (a + b) % Modulus \in Words
    <3>1. \A a, b \in Int : a + b \in Int OBVIOUS
    <3> QED BY <3>1, <1>3
  <2>3. (PC + 4) % Modulus \in Words /\ (PC + sign_extend_aft2ls) % Modulus \in Words
        /\ (A + sign_extend) % Modulus \in Words
    BY <1>1, <1>6, <2>2
  <2> QED BY <1>7, <2>1, <2>3, AluShows
<1>8. CASE State = 9
  <2>1. ALUOut' = IF func = "sll" THEN (B * 2 ^ TempofIns.sa) % Modulus ELSE Alu.Result
    BY <1>8 DEF Run
  <2>2. B * 2 ^ TempofIns.sa \in Int BY <1>1, <1>2
  <2>3. (B * 2 ^ TempofIns.sa) % Modulus \in Words BY <2>2, <1>3
  <2>4. A + B \in Int BY <1>1
  <2>5. (A + B) % Modulus \in Words BY <2>4, <1>3
  <2>6. BitOr(A, B) \in Words BY <1>1, OrAssumption
  <2>7. sltres1(A, B) \in Words BY <1>1, OrdersAreWords
  <2>8. Alu.Result \in Words BY <1>8, <2>5, <2>6, <2>7, AluShows
  <2> QED BY <2>1, <2>3, <2>8
<1>9. CASE State = 13
  <2>1. ALUOut' = IF Op = "slti" THEN Alu.Result ELSE Alu.CarryOut BY <1>9 DEF Run
  <2>2. sltres1(A, sign_extend) \in Words /\ 1 - Cout(A, sign_extend) \in Words
    BY <1>1, <1>5, OrdersAreWords
  <2> QED BY <1>9, <2>1, <2>2, AluShows
<1>10. CASE State \notin {0, 1, 2, 6, 9, 13}
  BY <1>10, <1>1, RunLeaves
<1> QED BY <1>7, <1>8, <1>9, <1>10

(* What the core does not write is as it was, and what an instruction computes from
   it, too. *)
LEMMA SameSources ==
  ASSUME UNCHANGED <<TempofIns, fetched, temp>>
  PROVE  /\ rdata1' = rdata1 /\ rdata2' = rdata2
         /\ EffectiveAddress' = EffectiveAddress /\ Target' = Target
         /\ ByFunction' = ByFunction /\ ByOrder' = ByOrder
<1>1. rdata1' = rdata1 /\ rdata2' = rdata2 BY DEF rdata1, rdata2
<1>2. EffectiveAddress' = EffectiveAddress BY <1>1 DEF EffectiveAddress
<1>3. Target' = Target BY DEF Target
<1>4. ByFunction' = ByFunction BY <1>1 DEF ByFunction
<1>5. ByOrder' = ByOrder BY <1>1 DEF ByOrder
<1> QED BY <1>1, <1>2, <1>3, <1>4, <1>5

LEMMA ReadIs ==
  ASSUME CpuTyped, State = 3, ~ mips_rst
  PROVE  Read_data = mem[At(Address)]
<1>1. mips_mem_rd /\ ~ axi_lite_mem_rd
  BY DEF mips_mem_rd, MemRead, axi_lite_mem_rd
<1>2. At(Address) \in 0 .. MemoryWords - 1 BY AtIs DEF CpuTyped
<1>3. Raddr = BitOr(At(Address), 0) BY <1>1 DEF Raddr
<1>4. Raddr = At(Address) BY <1>2, <1>3, OrAssumption
<1> QED BY <1>1, <1>4 DEF Read_data

(* Where the core goes. *)
LEMMA Goes ==
  ASSUME CpuTyped, NEW w, NEW d, Run(w, d)
  PROVE  /\ State = 0 => State' = 1 /\ PC' = (PC + 4) % Modulus
         /\ State = 1 =>
              /\ TempofIns.op \in {"lw", "sw"} => State' = 2
              /\ TempofIns.op = "addiu" => State' = 6
              /\ TempofIns.op \in {"beq", "bne"} => State' = 8
              /\ TempofIns.op \in RTypes => State' = 9
              /\ TempofIns.op \in {"j", "jal"} => State' = 11
              /\ TempofIns.op = "lui" => State' = 12
              /\ TempofIns.op \in {"slti", "sltiu"} => State' = 13
         /\ State = 2 => State' = IF TempofIns.op = "lw" THEN 3 ELSE 5
         /\ State = 3 => State' = 4
         /\ State = 6 => State' = 7
         /\ State = 9 /\ TempofIns.op \in RTypes =>
              IF TempofIns.op = "jr" THEN State' = 8 /\ PC' = A ELSE State' = 10 /\ PC' = PC
         /\ State = 11 => PC' = Next_PC_J
         /\ State = 13 => State' = 14
         /\ State \in {4, 5, 7, 8, 10, 11, 12, 14} => State' = 0
<1>0. TempofIns.op \in Operations BY InsKinds
<1>1. State = 0 => State' = 1 /\ PC' = (PC + 4) % Modulus
  BY AluShows DEF Run, Next_State, PCW, PCWrite, Next_PC
<1>2. ASSUME State = 1
      PROVE  /\ TempofIns.op \in {"lw", "sw"} => State' = 2
             /\ TempofIns.op = "addiu" => State' = 6
             /\ TempofIns.op \in {"beq", "bne"} => State' = 8
             /\ TempofIns.op \in RTypes => State' = 9
             /\ TempofIns.op \in {"j", "jal"} => State' = 11
             /\ TempofIns.op = "lui" => State' = 12
             /\ TempofIns.op \in {"slti", "sltiu"} => State' = 13
  <2>1. State' = Decoded BY <1>2 DEF Run, Next_State
  <2> QED BY <2>1, <1>0 DEF Decoded, Op, Operations, RTypes, ITypes
<1>3. State = 2 => State' = IF TempofIns.op = "lw" THEN 3 ELSE 5
  BY DEF Run, Next_State, Op, RTypes
<1>4. State = 3 => State' = 4 BY DEF Run, Next_State
<1>5. State = 6 => State' = 7 BY DEF Run, Next_State
<1>6. State = 9 /\ TempofIns.op \in RTypes =>
        IF TempofIns.op = "jr" THEN State' = 8 /\ PC' = A ELSE State' = 10 /\ PC' = PC
  BY DEF Run, Next_State, func, PCW, PCWrite, PCWriteCond, Next_PC
<1>7. State = 11 => PC' = Next_PC_J
  BY DEF Run, PCW, PCWrite, Next_PC
<1>8. State = 13 => State' = 14 BY DEF Run, Next_State
<1>9. State \in {4, 5, 7, 8, 10, 11, 12, 14} => State' = 0 BY DEF Run, Next_State
<1> QED BY <1>1, <1>2, <1>3, <1>4, <1>5, <1>6, <1>7, <1>8, <1>9

LEMMA ClockTyped ==
  ASSUME CpuInv, CoreClock
  PROVE  CpuTyped'
<1>1. CpuTyped /\ Computed BY DEF CpuInv
<1>2. Run(decode[mem[At(PC)]], Read_data) /\ ~ mips_rst
      /\ mem' = IF MemWrite THEN [mem EXCEPT ![At(Address)] = Write_data] ELSE mem
  BY DEF CoreClock
<1>3. /\ TempofIns.op \in Operations /\ TempofIns.imm \in Int
      /\ {TempofIns.rs, TempofIns.rt, TempofIns.rd} \subseteq Registers
      /\ rdata1 \in Words /\ rdata2 \in Words
  BY <1>1, InsKinds
<1>4. \A n \in Int : n % Modulus \in Words BY WordFacts
<1>5. \A a, b \in Words : (a + b) % Modulus \in Words /\ (a + 4) % Modulus \in Words
  <2>1. \A a, b \in Words : a + b \in Int /\ a + 4 \in Int BY WordFacts
  <2> QED BY <2>1, <1>4
<1>6. State' \in 0 .. 14
  <2>1. State \in 0 .. 14 BY <1>1 DEF CpuTyped
  <2>2. State \in {0, 1, 2, 3, 6, 9, 13} \cup {4, 5, 7, 8, 10, 11, 12, 14} BY <2>1
  <2>3. State = 9 => TempofIns.op \in RTypes BY <1>1 DEF Computed
  <2>4. State' \in {0, 1, 2, 3, 4, 5, 6, 7, 8, 9, 10, 11, 12, 13, 14}
    BY <2>2, <2>3, <1>1, <1>2, <1>3, Goes DEF Operations, ITypes
  <2> QED BY <2>4
<1>7. PC' \in Words
  <2>1. CASE State = 0 BY <2>1, <1>1, <1>2, <1>5, Goes DEF CpuTyped
  <2>2. CASE State = 8
    <3>1. PC' \in {ALUOut, PC} BY <2>2, <1>2 DEF Run, Next_PC
    <3> QED BY <3>1, <1>1 DEF CpuTyped
  <2>3. CASE State = 9
    <3>1. PC' \in {A, PC} BY <2>3, <1>2 DEF Run, Next_PC
    <3> QED BY <3>1, <1>1 DEF CpuTyped
  <2>4. CASE State = 11 BY <2>4, <1>1, <1>2, Goes, JumpIs
  <2>5. CASE State \notin {0, 8, 9, 11} BY <2>5, <1>1, <1>2, RunLeaves DEF CpuTyped
  <2> QED BY <2>1, <2>2, <2>3, <2>4, <2>5
<1>8. fetched' \in Words /\ TempofIns' \in Instructions
  BY <1>1, <1>2, MemoryTyped DEF Run, CpuTyped
<1>9. A' \in Words /\ B' \in Words BY <1>1, <1>2, <1>3 DEF Run, CpuTyped
<1>10. ALUOut' \in Words BY <1>1, <1>2, AluOutTyped
<1>11. Address' \in Words
  <2>1. CASE State = 2
    <3>1. sign_extend \in Words BY <1>3, <1>4 DEF sign_extend
    <3>2. Address' = (A + sign_extend) % Modulus BY <2>1, <1>2, AluShows DEF Run
    <3> QED BY <3>1, <3>2, <1>1, <1>5 DEF CpuTyped
  <2>2. CASE State # 2 BY <2>2, <1>1, <1>2, RunLeaves DEF CpuTyped
  <2> QED BY <2>1, <2>2
<1>12. MDR' \in Words
  <2>1. CASE State = 3
    <3>1. MDR' = mem[At(Address)] BY <2>1, <1>1, <1>2, ReadIs DEF Run
    <3> QED BY <3>1, <1>1, MemoryTyped DEF CpuTyped
  <2>2. CASE State # 3 BY <2>2, <1>1, <1>2, RunLeaves DEF CpuTyped
  <2> QED BY <2>1, <2>2
<1>13. wdata \in Words
  <2>1. (PC + 4) % Modulus \in Words BY <1>1, <1>5 DEF CpuTyped
  <2>2. (TempofIns.imm * 2 ^ (Width \div 2)) % Modulus \in Words
    <3>1. Width \div 2 \in 0 .. Width BY CpuAssumption
    <3>2. 2 ^ (Width \div 2) \in Nat BY <3>1, PowersOfTwo
    <3>3. TempofIns.imm * 2 ^ (Width \div 2) \in Int BY <3>2, <1>3
    <3> QED BY <3>3, <1>4
  <2> QED BY <2>1, <2>2, <1>1 DEF wdata, CpuTyped
<1>14. temp' \in [Registers -> Words]
  <2>1. waddr \in Registers BY <1>3, CpuAssumption DEF waddr
  <2>2. temp \in [Registers -> Words] BY <1>1 DEF CpuTyped
  <2> QED BY <2>1, <2>2, <1>2, <1>13 DEF Run, reg_file
<1>15. mem' \in [0 .. MemoryWords - 1 -> Words]
  <2>1. mem \in [0 .. MemoryWords - 1 -> Words] BY <1>1 DEF CpuTyped
  <2> QED BY <2>1, <1>2, <1>3 DEF Write_data
<1> QED BY <1>6, <1>7, <1>8, <1>9, <1>10, <1>11, <1>12, <1>14, <1>15 DEF CpuTyped

(***************************************************************************)
(* The processor that is seen at the ends of instructions.                    *)
(***************************************************************************)
ShownPc == IF State = 0 THEN PC ELSE fetched

LEMMA FetchClock ==
  ASSUME CpuInv, CoreClock, State = 0
  PROVE  CpuInv' /\ UNCHANGED <<ShownPc, temp, mem>>
<1>1. Run(decode[mem[At(PC)]], Read_data) /\ mem' = mem
  BY DEF CoreClock, MemWrite
<1>2. CpuTyped /\ CpuTyped' BY ClockTyped DEF CpuInv
<1>3. State' = 1 /\ PC' = (PC + 4) % Modulus BY <1>1, <1>2, Goes
<1>4. TempofIns' = decode[mem[At(PC)]] /\ fetched' = PC BY <1>1 DEF Run
<1>5. temp' = temp BY <1>1, RunLeaves
<1>6. Holds' BY <1>1, <1>3, <1>4 DEF Holds, At
<1>7. Computed' BY <1>3 DEF Computed
<1>8. ShownPc' = ShownPc BY <1>3, <1>4 DEF ShownPc
<1> QED BY <1>1, <1>2, <1>5, <1>6, <1>7, <1>8 DEF CpuInv

LEMMA InnerClock ==
  ASSUME CpuInv, CoreClock, State \in {1, 2, 3, 6, 9, 13}
  PROVE  CpuInv' /\ UNCHANGED <<ShownPc, temp, mem>>
<1>1. Run(decode[mem[At(PC)]], Read_data) /\ mem' = mem /\ ~ mips_rst
  BY DEF CoreClock, MemWrite
<1>2. CpuTyped /\ CpuTyped' /\ Holds /\ Computed BY ClockTyped DEF CpuInv
<1>3. UNCHANGED <<TempofIns, fetched, temp>> BY <1>1, RunLeaves
<1>4. /\ rdata1' = rdata1 /\ rdata2' = rdata2
      /\ EffectiveAddress' = EffectiveAddress /\ Target' = Target
      /\ ByFunction' = ByFunction /\ ByOrder' = ByOrder
  BY <1>3, SameSources
<1>5. /\ TempofIns.op \in Operations /\ TempofIns.imm \in -Half .. Half - 1
      /\ TempofIns.imm \in Int /\ rdata1 \in Words /\ rdata2 \in Words
  BY <1>2, InsKinds
<1>6. TempofIns' = decode[mem'[At(fetched')]] BY <1>1, <1>2, <1>3 DEF Holds
<1>7. A' = rdata1' /\ B' = rdata2'
  <2>1. CASE State = 1 BY <2>1, <1>1, <1>4 DEF Run
  <2>2. CASE State # 1 BY <2>2, <1>1, <1>2, <1>4, RunLeaves DEF Holds
  <2> QED BY <2>1, <2>2
<1>8. PC = (fetched + 4) % Modulus BY <1>2 DEF Holds
<1>9. State # 9 => PC' = PC BY <1>1, RunLeaves
<1>10. rdata1 \in Int /\ sign_extend \in Int
       /\ (rdata1 + sign_extend) % Modulus = EffectiveAddress
  <2>1. rdata1 \in Int /\ Modulus \in Nat \ {0} BY <1>5, WordFacts
  <2>2. sign_extend \in Int BY <2>1, <1>5, Remainder DEF sign_extend
  <2> QED BY <2>1, <2>2, <1>5, RemainderOfSum DEF sign_extend, EffectiveAddress
<1>11. CASE State = 1
  <2>1. ALUOut' = Target
    <3>1. ALUOut' = (PC + sign_extend_aft2ls) % Modulus BY <1>1, <1>11, AluShows DEF Run
    <3> DEFINE a == fetched + 4
               b == 4 * TempofIns.imm
    <3>1a. fetched \in Int BY <1>2, WordFacts DEF CpuTyped
    <3>2. a \in Int /\ b \in Int BY <3>1a, <1>5
    <3>3. Modulus \in Nat \ {0} /\ b % Modulus \in Int BY <3>2, WordFacts, Remainder
    <3>4. PC + sign_extend_aft2ls = (a % Modulus) + (b % Modulus)
      BY <1>8 DEF sign_extend_aft2ls
    <3>5. Target = (a + b) % Modulus BY DEF Target
    <3> HIDE DEF a, b, Modulus
    <3>6. ((a % Modulus) + (b % Modulus)) % Modulus = (a + (b % Modulus)) % Modulus
      BY <3>2, <3>3, RemainderOfSum
    <3>7. (a + (b % Modulus)) % Modulus = (a + b) % Modulus
      BY <3>2, <3>3, RemainderOfSum
    <3> QED BY <3>1, <3>4, <3>5, <3>6, <3>7
  <2>2. /\ TempofIns.op \in {"lw", "sw"} => State' = 2
        /\ TempofIns.op = "addiu" => State' = 6
        /\ TempofIns.op \in {"beq", "bne"} => State' = 8
        /\ TempofIns.op \in RTypes => State' = 9
        /\ TempofIns.op \in {"j", "jal"} => State' = 11
        /\ TempofIns.op = "lui" => State' = 12
        /\ TempofIns.op \in {"slti", "sltiu"} => State' = 13
    BY <1>1, <1>2, <1>11, Goes
  <2>3. State' # 0 BY <2>2, <1>5 DEF Operations, ITypes
  <2>4. Holds' BY <1>3, <1>6, <1>7, <1>8, <1>9, <1>11 DEF Holds
  <2>5. Computed'
    BY <2>1, <2>2, <1>3, <1>4, <1>5 DEF Computed, Operations, RTypes, ITypes
  <2> QED BY <2>3, <2>4, <2>5, <1>1, <1>2, <1>3, <1>11 DEF CpuInv, ShownPc
<1>12. CASE State = 2
  <2>1. State' = IF TempofIns.op = "lw" THEN 3 ELSE 5 BY <1>1, <1>2, <1>12, Goes
  <2>2. A = rdata1 BY <1>2, <1>12 DEF Holds
  <2>3. Address' = EffectiveAddress BY <1>1, <1>10, <1>12, <2>2, AluShows DEF Run
  <2>4. Holds' BY <1>3, <1>6, <1>7, <1>8, <1>9, <1>12 DEF Holds
  <2>5. Computed' BY <2>1, <2>3, <1>2, <1>3, <1>4, <1>12 DEF Computed
  <2> QED BY <2>1, <2>4, <2>5, <1>1, <1>2, <1>3, <1>12 DEF CpuInv, ShownPc
<1>13. CASE State = 3
  <2>1. State' = 4 BY <1>1, <1>2, <1>13, Goes
  <2>2. TempofIns.op = "lw" /\ Address = EffectiveAddress BY <1>2, <1>13 DEF Computed
  <2>3. MDR' = mem[At(EffectiveAddress)] BY <2>2, <1>1, <1>2, <1>13, ReadIs DEF Run
  <2>4. mem'[At(EffectiveAddress')] = mem[At(EffectiveAddress)] BY <1>1, <1>4
  <2>5. Holds' BY <1>3, <1>6, <1>7, <1>8, <1>9, <1>13 DEF Holds
  <2>6. Computed' BY <2>1, <2>2, <2>3, <2>4, <1>3 DEF Computed
  <2> QED BY <2>1, <2>5, <2>6, <1>1, <1>2, <1>3, <1>13 DEF CpuInv, ShownPc
<1>14. CASE State = 6
  <2>1. State' = 7 BY <1>1, <1>2, <1>14, Goes
  <2>2. A = rdata1 BY <1>2, <1>14 DEF Holds
  <2>3. ALUOut' = EffectiveAddress BY <1>1, <1>10, <1>14, <2>2, AluShows DEF Run
  <2>4. Holds' BY <1>3, <1>6, <1>7, <1>8, <1>9, <1>14 DEF Holds
  <2>5. Computed' BY <2>1, <2>3, <1>2, <1>3, <1>4, <1>14 DEF Computed
  <2> QED BY <2>1, <2>4, <2>5, <1>1, <1>2, <1>3, <1>14 DEF CpuInv, ShownPc
<1>15. CASE State = 9
  <2>1. TempofIns.op \in RTypes /\ A = rdata1 /\ B = rdata2
    BY <1>2, <1>15 DEF Computed, Holds
  <2>2. IF TempofIns.op = "jr" THEN State' = 8 /\ PC' = A ELSE State' = 10 /\ PC' = PC
    BY <1>1, <1>2, <1>15, <2>1, Goes
  <2>3. func = TempofIns.op BY <2>1 DEF func
  <2>4. TempofIns.op # "jr" => ALUOut' = ByFunction
    <3>1. ALUOut' = IF func = "sll" THEN (B * 2 ^ TempofIns.sa) % Modulus ELSE Alu.Result
      BY <1>1, <1>15 DEF Run
    <3>2. /\ func = "addu" => Alu.Result = (A + B) % Modulus
          /\ func = "or" => Alu.Result = BitOr(A, B)
          /\ func = "slt" => Alu.Result = sltres1(A, B)
      BY <1>15, AluShows
    <3>3. sltres1(rdata1, rdata2)
            = Truth(Processor!Signed(rdata1) < Processor!Signed(rdata2))
      BY <1>5, SignedOrder
    <3> HIDE DEF Modulus, rdata1, rdata2
    <3> QED BY <3>1, <3>2, <3>3, <2>1, <2>3 DEF ByFunction, RTypes
  <2>5. Holds' BY <2>2, <1>3, <1>6, <1>7, <1>8 DEF Holds
  <2>6. Computed' BY <2>1, <2>2, <2>4, <1>3, <1>4 DEF Computed
  <2> QED BY <2>2, <2>5, <2>6, <1>1, <1>2, <1>3, <1>15 DEF CpuInv, ShownPc
<1>16. CASE State = 13
  <2>1. State' = 14 BY <1>1, <1>2, <1>16, Goes
  <2>2. A = rdata1 /\ TempofIns.op \in {"slti", "sltiu"} BY <1>2, <1>16 DEF Holds, Computed
  <2>3. ALUOut' = ByOrder
    <3>1. ALUOut' = IF TempofIns.op = "slti" THEN Alu.Result ELSE Alu.CarryOut
      BY <2>2, <1>1, <1>16 DEF Run, Op, RTypes
    <3>2. Alu.Result = sltres1(rdata1, sign_extend)
          /\ Alu.CarryOut = 1 - Cout(rdata1, sign_extend)
      BY <2>2, <1>16, AluShows
    <3>3. sign_extend \in Words /\ Processor!Signed(sign_extend) = TempofIns.imm
      BY <1>5, Immediate DEF sign_extend
    <3>4. sltres1(rdata1, sign_extend) = Truth(Processor!Signed(rdata1) < TempofIns.imm)
      BY <3>3, <1>5, SignedOrder
    <3>5. 1 - Cout(rdata1, sign_extend) = Truth(rdata1 < TempofIns.imm % Modulus)
      BY <3>3, <1>5, CarryIsOrder DEF sign_extend
    <3> QED BY <3>1, <3>2, <3>4, <3>5 DEF ByOrder
  <2>4. Holds' BY <1>3, <1>6, <1>7, <1>8, <1>9, <1>16 DEF Holds
  <2>5. Computed' BY <2>1, <2>2, <2>3, <1>3, <1>4 DEF Computed
  <2> QED BY <2>1, <2>4, <2>5, <1>1, <1>2, <1>3, <1>16 DEF CpuInv, ShownPc
<1> QED BY <1>11, <1>12, <1>13, <1>14, <1>15, <1>16

(* The instruction that Isa executes is the one in the core's register. *)
LEMMA SameInstruction ==
  ASSUME CpuInv, State # 0
  PROVE  /\ Processor!Instruction = TempofIns
         /\ ShownPc = fetched
         /\ \A x : Processor!Index(x) = At(x)
         /\ \A x : Processor!Wrap(x) = x % Modulus
         /\ \A b : Processor!Truth(b) = Truth(b)
<1>1. ShownPc = fetched BY DEF ShownPc
<1>2. \A x : Processor!Index(x) = At(x) BY DEF Processor!Index, At
<1>3. \A x : Processor!Wrap(x) = x % Modulus
  BY DEF Processor!Wrap, Processor!Modulus, Modulus
<1>4. Processor!Instruction = decode[mem[At(fetched)]]
  BY <1>1, <1>2 DEF Processor!Instruction, ShownPc
<1>5. \A b : Processor!Truth(b) = Truth(b) BY DEF Processor!Truth, Truth
<1> QED BY <1>1, <1>2, <1>3, <1>4, <1>5 DEF CpuInv, Holds

(* A write to a register at the end of an instruction is a result in Isa. *)
LEMMA ResultClock ==
  ASSUME CpuInv, CoreClock, State \in {4, 7, 10, 12, 14},
         NEW value, wdata = value % Modulus
  PROVE  CpuInv' /\ Processor!Result(waddr, value)
<1>1. Run(decode[mem[At(PC)]], Read_data) /\ mem' = mem
  BY DEF CoreClock, MemWrite
<1>2. CpuTyped /\ CpuTyped' /\ Holds BY ClockTyped DEF CpuInv
<1>3. State' = 0 BY <1>1, <1>2, Goes
<1>4. Holds' /\ Computed' BY <1>3 DEF Holds, Computed
<1>5. PC' = PC /\ PC = (fetched + 4) % Modulus BY <1>1, <1>2, RunLeaves DEF Holds
<1>6. temp' = IF waddr # 0 THEN [temp EXCEPT ![waddr] = wdata] ELSE temp
  BY <1>1 DEF Run, reg_file, RegWrite
<1>7. /\ ShownPc = fetched /\ \A x : Processor!Wrap(x) = x % Modulus
  BY SameInstruction
<1>8. ShownPc' = PC' BY <1>3 DEF ShownPc
<1>9. Processor!Result(waddr, value)
  BY <1>1, <1>5, <1>6, <1>7, <1>8 DEF Processor!Result, ShownPc
<1> QED BY <1>2, <1>4, <1>9 DEF CpuInv

(* The instructions that write a register. *)
LEMMA WriteBackClock ==
  ASSUME CpuInv, CoreClock, State \in {4, 7, 10, 12, 14}
  PROVE  CpuInv' /\ Processor!Execute
<1>1. CpuTyped /\ Holds /\ Computed BY DEF CpuInv
<1>2. /\ Processor!Instruction = TempofIns
      /\ \A x : Processor!Index(x) = At(x)
      /\ \A x : Processor!Wrap(x) = x % Modulus
      /\ \A b : Processor!Truth(b) = Truth(b)
  BY SameInstruction
<1>3. \A w \in Words : w % Modulus = w BY WordFacts
<1>4. rdata1 \in Words /\ rdata2 \in Words BY <1>1, InsKinds
<1>5. \A b \in BOOLEAN : Truth(b) \in Words BY OrdersAreWords
<1>6. temp[TempofIns.rs] = rdata1 /\ temp[TempofIns.rt] = rdata2 BY DEF rdata1, rdata2
<1>7. CASE State = 4
  <2> DEFINE v == mem[At(EffectiveAddress)]
  <2>1. TempofIns.op = "lw" /\ MDR = v BY <1>1, <1>7 DEF Computed
  <2>2. MDR \in Words BY <1>1 DEF CpuTyped
  <2>3. waddr = TempofIns.rt /\ wdata = v BY <1>7, <2>1 DEF waddr, wdata
  <2>4. wdata = v % Modulus BY <1>3, <2>1, <2>2, <2>3
  <2>5. v = mem[Processor!Index(Processor!Wrap(temp[TempofIns.rs] + TempofIns.imm))]
    BY <1>2, <1>6 DEF EffectiveAddress
  <2> HIDE DEF v
  <2>6. CpuInv' /\ Processor!Result(TempofIns.rt, v) BY <1>7, <2>3, <2>4, ResultClock
  <2>7. Processor!Access BY <1>2, <2>1, <2>5, <2>6 DEF Processor!Access
  <2> QED BY <2>6, <2>7 DEF Processor!Execute
<1>8. CASE State = 7
  <2> DEFINE v == temp[TempofIns.rs] + TempofIns.imm
  <2>1. TempofIns.op = "addiu" /\ ALUOut = v % Modulus
    BY <1>1, <1>6, <1>8 DEF Computed, EffectiveAddress
  <2>2. waddr = TempofIns.rt /\ wdata = v % Modulus BY <1>8, <2>1 DEF waddr, wdata
  <2> HIDE DEF v
  <2>3. CpuInv' /\ Processor!Result(TempofIns.rt, v) BY <1>8, <2>2, ResultClock
  <2>4. Processor!Arithmetic BY <1>2, <2>1, <2>3 DEF Processor!Arithmetic, v
  <2> QED BY <2>3, <2>4 DEF Processor!Execute
<1>9. CASE State = 10
  <2> DEFINE less == Processor!Signed(temp[TempofIns.rs]) < Processor!Signed(temp[TempofIns.rt])
  <2>1. TempofIns.op \in {"addu", "or", "slt", "sll"} /\ ALUOut = ByFunction
    BY <1>1, <1>9 DEF Computed, RTypes
  <2>2. waddr = TempofIns.rd /\ wdata = ByFunction BY <1>9, <2>1 DEF waddr, wdata
  <2>3. ASSUME NEW v, ByFunction = v % Modulus
        PROVE  CpuInv' /\ Processor!Result(TempofIns.rd, v)
    BY <1>9, <2>2, <2>3, ResultClock
  <2>4. CASE TempofIns.op = "addu"
    <3> DEFINE v == temp[TempofIns.rs] + temp[TempofIns.rt]
    <3>1. ByFunction = v % Modulus BY <2>4, <1>6 DEF ByFunction
    <3> HIDE DEF v
    <3>2. CpuInv' /\ Processor!Result(TempofIns.rd, v) BY <2>3, <3>1
    <3>3. Processor!Arithmetic BY <1>2, <2>4, <3>2 DEF Processor!Arithmetic, v
    <3> QED BY <3>2, <3>3 DEF Processor!Execute
  <2>5. CASE TempofIns.op = "or"
    <3> DEFINE v == BitOr(temp[TempofIns.rs], temp[TempofIns.rt])
    <3>1. v \in Words BY <1>4, <1>6, OrAssumption
    <3>2. ByFunction = v BY <2>5, <1>6 DEF ByFunction
    <3>3. ByFunction = v % Modulus BY <3>1, <3>2, <1>3
    <3> HIDE DEF v
    <3>4. CpuInv' /\ Processor!Result(TempofIns.rd, v) BY <2>3, <3>3
    <3>5. Processor!Arithmetic BY <1>2, <2>5, <3>4 DEF Processor!Arithmetic, v
    <3> QED BY <3>4, <3>5 DEF Processor!Execute
  <2>6. CASE TempofIns.op = "slt"
    <3> DEFINE v == Processor!Truth(less)
    <3>1. v = Truth(less) /\ less \in BOOLEAN BY <1>2
    <3>2. v \in Words BY <3>1, <1>5
    <3>3. ByFunction = v BY <2>6, <3>1, <1>6 DEF ByFunction
    <3>4. ByFunction = v % Modulus BY <3>2, <3>3, <1>3
    <3> HIDE DEF v
    <3>5. CpuInv' /\ Processor!Result(TempofIns.rd, v) BY <2>3, <3>4
    <3>6. Processor!Arithmetic BY <1>2, <2>6, <3>5 DEF Processor!Arithmetic, v
    <3> QED BY <3>5, <3>6 DEF Processor!Execute
  <2>7. CASE TempofIns.op = "sll"
    <3> DEFINE v == temp[TempofIns.rt] * 2 ^ TempofIns.sa
    <3>1. ByFunction = v % Modulus BY <2>7, <1>6 DEF ByFunction
    <3> HIDE DEF v
    <3>2. CpuInv' /\ Processor!Result(TempofIns.rd, v) BY <2>3, <3>1
    <3>3. Processor!Arithmetic BY <1>2, <2>7, <3>2 DEF Processor!Arithmetic, v
    <3> QED BY <3>2, <3>3 DEF Processor!Execute
  <2> QED BY <2>1, <2>4, <2>5, <2>6, <2>7
<1>10. CASE State = 12
  <2> DEFINE v == TempofIns.imm * 2 ^ (Width \div 2)
  <2>1. TempofIns.op = "lui" BY <1>1, <1>10 DEF Computed
  <2>2. waddr = TempofIns.rt /\ wdata = v % Modulus BY <1>10 DEF waddr, wdata
  <2> HIDE DEF v
  <2>3. CpuInv' /\ Processor!Result(TempofIns.rt, v) BY <1>10, <2>2, ResultClock
  <2>4. Processor!Arithmetic BY <1>2, <2>1, <2>3 DEF Processor!Arithmetic, v
  <2> QED BY <2>3, <2>4 DEF Processor!Execute
<1>11. CASE State = 14
  <2>1. TempofIns.op \in {"slti", "sltiu"} /\ ALUOut = ByOrder
    BY <1>1, <1>11 DEF Computed
  <2>2. waddr = TempofIns.rt /\ wdata = ByOrder BY <1>11, <2>1 DEF waddr, wdata
  <2>3. ASSUME NEW less \in BOOLEAN, ByOrder = Truth(less)
        PROVE  CpuInv' /\ Processor!Result(TempofIns.rt, Processor!Truth(less))
    <3>1. Truth(less) \in Words /\ Processor!Truth(less) = Truth(less) BY <1>2, <1>5
    <3>2. wdata = Processor!Truth(less) % Modulus BY <2>2, <2>3, <3>1, <1>3
    <3> QED BY <1>11, <2>2, <3>2, ResultClock
  <2>4. CASE TempofIns.op = "slti"
    <3> DEFINE less == Processor!Signed(temp[TempofIns.rs]) < TempofIns.imm
    <3>1. less \in BOOLEAN /\ ByOrder = Truth(less) BY <2>4, <1>6 DEF ByOrder
    <3> HIDE DEF less
    <3>2. CpuInv' /\ Processor!Result(TempofIns.rt, Processor!Truth(less)) BY <2>3, <3>1
    <3>3. Processor!Arithmetic BY <1>2, <2>4, <3>2 DEF Processor!Arithmetic, less
    <3> QED BY <3>2, <3>3 DEF Processor!Execute
  <2>5. CASE TempofIns.op = "sltiu"
    <3> DEFINE less == temp[TempofIns.rs] < Processor!Wrap(TempofIns.imm)
    <3>1. less \in BOOLEAN /\ ByOrder = Truth(less) BY <2>5, <1>2, <1>6 DEF ByOrder
    <3> HIDE DEF less
    <3>2. CpuInv' /\ Processor!Result(TempofIns.rt, Processor!Truth(less)) BY <2>3, <3>1
    <3>3. Processor!Arithmetic BY <1>2, <2>5, <3>2 DEF Processor!Arithmetic, less
    <3> QED BY <3>2, <3>3 DEF Processor!Execute
  <2> QED BY <2>1, <2>4, <2>5
<1> QED BY <1>7, <1>8, <1>9, <1>10, <1>11

LEMMA StoreClock ==
  ASSUME CpuInv, CoreClock, State = 5
  PROVE  CpuInv' /\ Processor!Execute
<1>1. /\ Run(decode[mem[At(PC)]], Read_data)
      /\ mem' = [mem EXCEPT ![At(Address)] = Write_data]
  BY DEF CoreClock, MemWrite
<1>2. CpuTyped /\ CpuTyped' /\ Holds /\ Computed BY ClockTyped DEF CpuInv
<1>3. State' = 0 /\ UNCHANGED <<PC, temp>> BY <1>1, <1>2, Goes, RunLeaves
<1>4. Holds' /\ Computed' BY <1>3 DEF Holds, Computed
<1>5. /\ Processor!Instruction = TempofIns /\ ShownPc = fetched
      /\ \A x : Processor!Index(x) = At(x)
      /\ \A x : Processor!Wrap(x) = x % Modulus
  BY SameInstruction
<1>6. TempofIns.op = "sw" /\ Address = EffectiveAddress /\ PC = (fetched + 4) % Modulus
  BY <1>2 DEF Computed, Holds
<1>7. ShownPc' = Processor!Wrap(ShownPc + 4) BY <1>3, <1>5, <1>6 DEF ShownPc
<1>8. mem' = [mem EXCEPT ![Processor!Index(Processor!Wrap(temp[TempofIns.rs] + TempofIns.imm))]
                = temp[TempofIns.rt]]
  BY <1>1, <1>5, <1>6 DEF EffectiveAddress, Write_data, rdata1, rdata2
<1>9. Processor!Access BY <1>3, <1>5, <1>6, <1>7, <1>8 DEF Processor!Access, ShownPc
<1> QED BY <1>2, <1>4, <1>9 DEF CpuInv, Processor!Execute

LEMMA BranchClock ==
  ASSUME CpuInv, CoreClock, State = 8
  PROVE  CpuInv' /\ Processor!Execute
<1>1. Run(decode[mem[At(PC)]], Read_data) /\ mem' = mem
  BY DEF CoreClock, MemWrite
<1>2. CpuTyped /\ CpuTyped' /\ Holds /\ Computed BY ClockTyped DEF CpuInv
<1>3. State' = 0 /\ temp' = temp BY <1>1, <1>2, Goes, RunLeaves
<1>4. Holds' /\ Computed' BY <1>3 DEF Holds, Computed
<1>5. /\ Processor!Instruction = TempofIns /\ ShownPc = fetched
      /\ \A x : Processor!Wrap(x) = x % Modulus
  BY SameInstruction
<1>6. ShownPc' = PC' BY <1>3 DEF ShownPc
<1>7. Alu.Zero = (rdata1 = rdata2) BY <1>2, AluShows DEF Holds
<1>8. ASSUME NEW address, PC' = address % Modulus PROVE Processor!GoTo(address)
  BY <1>1, <1>3, <1>5, <1>6, <1>8 DEF Processor!GoTo, ShownPc
<1>9. CASE TempofIns.op = "jr"
  <2>1. PC = rdata1 BY <1>2, <1>9 DEF Computed
  <2>2. PC' = PC BY <1>1, <1>9 DEF Run, PCW, PCWrite, PCWriteCond, Op, func, RTypes
  <2>3. rdata1 \in Words BY <1>2, InsKinds
  <2>4. PC' = rdata1 % Modulus BY <2>1, <2>2, <2>3, WordFacts
  <2>5. Processor!GoTo(temp[TempofIns.rs]) BY <2>4, <1>8 DEF rdata1
  <2>6. Processor!Jump BY <2>5, <1>5, <1>9 DEF Processor!Jump
  <2> QED BY <2>6, <1>2, <1>4 DEF CpuInv, Processor!Execute
<1>10. CASE TempofIns.op # "jr"
  <2>1. /\ TempofIns.op \in {"beq", "bne"} /\ ALUOut = Target
        /\ PC = (fetched + 4) % Modulus
    BY <1>2, <1>10 DEF Computed, Holds
  <2>2. PC' = IF IF TempofIns.op = "beq" THEN rdata1 = rdata2 ELSE rdata1 # rdata2
              THEN ALUOut ELSE PC
    <3>1. PC' = IF PCW THEN Next_PC ELSE PC BY <1>1 DEF Run
    <3>2. Next_PC = ALUOut /\ ~ PCWrite /\ PCWriteCond BY DEF Next_PC, PCWrite, PCWriteCond
    <3>3. Op = TempofIns.op /\ func = "none" BY <2>1 DEF Op, func, RTypes
    <3>4. PCW = IF TempofIns.op = "beq" THEN rdata1 = rdata2 ELSE rdata1 # rdata2
      <4>1. CASE rdata1 = rdata2
        <5>1. Alu.Zero BY <4>1, <1>7
        <5> QED BY <4>1, <5>1, <3>2, <3>3, <2>1 DEF PCW
      <4>2. CASE rdata1 # rdata2
        <5>1. ~ Alu.Zero BY <4>2, <1>7
        <5> QED BY <4>2, <5>1, <3>2, <3>3, <2>1 DEF PCW
      <4> QED BY <4>1, <4>2
    <3> QED BY <3>1, <3>2, <3>4
  <2> DEFINE near == ShownPc + 4
             far == ShownPc + 4 + 4 * TempofIns.imm
  <2>3. near % Modulus = PC /\ far % Modulus = ALUOut BY <1>5, <2>1 DEF Target
  <2> HIDE DEF near, far
  <2>4. CASE TempofIns.op = "beq"
    <3>1. PC' = (IF rdata1 = rdata2 THEN far ELSE near) % Modulus
      BY <2>2, <2>3, <2>4, <1>7
    <3>2. Processor!GoTo(IF rdata1 = rdata2 THEN far ELSE near) BY <3>1, <1>8
    <3>3. Processor!Branch
      BY <3>2, <1>5, <2>4 DEF Processor!Branch, near, far, rdata1, rdata2, ShownPc
    <3> QED BY <3>3, <1>2, <1>4 DEF CpuInv, Processor!Execute
  <2>5. CASE TempofIns.op = "bne"
    <3>1. PC' = (IF rdata1 = rdata2 THEN near ELSE far) % Modulus
      BY <2>2, <2>3, <2>5, <1>7
    <3>2. Processor!GoTo(IF rdata1 = rdata2 THEN near ELSE far) BY <3>1, <1>8
    <3>3. Processor!Branch
      BY <3>2, <1>5, <2>5 DEF Processor!Branch, near, far, rdata1, rdata2, ShownPc
    <3> QED BY <3>3, <1>2, <1>4 DEF CpuInv, Processor!Execute
  <2> QED BY <2>1, <2>4, <2>5
<1> QED BY <1>9, <1>10

LEMMA JumpClock ==
  ASSUME CpuInv, CoreClock, State = 11
  PROVE  CpuInv' /\ Processor!Execute
<1>1. Run(decode[mem[At(PC)]], Read_data) /\ mem' = mem
  BY DEF CoreClock, MemWrite
<1>2. CpuTyped /\ CpuTyped' /\ Holds /\ Computed BY ClockTyped DEF CpuInv
<1>3. State' = 0 /\ PC' = Next_PC_J BY <1>1, <1>2, Goes
<1>4. Holds' /\ Computed' BY <1>3 DEF Holds, Computed
<1>5. /\ Processor!Instruction = TempofIns /\ ShownPc = fetched
      /\ \A x : Processor!Wrap(x) = x % Modulus
  BY SameInstruction
<1>6. TempofIns.op \in {"j", "jal"} /\ PC = (fetched + 4) % Modulus
  BY <1>2 DEF Computed, Holds
<1> DEFINE region == Processor!InRegion(TempofIns.target)
<1>7. region = Next_PC_J
  BY <1>5, <1>6 DEF Processor!InRegion, Next_PC_J, ShownPc
<1>8. ShownPc' = Processor!Wrap(region)
  <2>1. Next_PC_J % Modulus = Next_PC_J BY <1>2, JumpIs, WordFacts
  <2> QED BY <2>1, <1>3, <1>5, <1>7 DEF ShownPc
<1>9. CASE TempofIns.op = "j"
  <2>1. temp' = temp BY <1>1, <1>9 DEF Run, reg_file, RegWrite, Op, RTypes
  <2>2. Processor!GoTo(Processor!InRegion(TempofIns.target))
    BY <2>1, <1>1, <1>8 DEF Processor!GoTo, ShownPc
  <2>3. Processor!Jump BY <2>2, <1>5, <1>9 DEF Processor!Jump
  <2> QED BY <2>3, <1>2, <1>4 DEF CpuInv, Processor!Execute
<1>10. CASE TempofIns.op = "jal"
  <2>1. temp' = [temp EXCEPT ![31] = (PC + 4) % Modulus]
    BY <1>1, <1>10 DEF Run, reg_file, RegWrite, Op, RTypes, waddr, wdata
  <2>2. (PC + 4) % Modulus = (fetched + 8) % Modulus
    <3> DEFINE a == fetched + 4
    <3>1. fetched \in Int BY <1>2, WordFacts DEF CpuTyped
    <3>2. a \in Int /\ a + 4 = fetched + 8 BY <3>1
    <3>3. PC = a % Modulus /\ Modulus \in Nat \ {0} BY <1>6, WordFacts
    <3> HIDE DEF a, Modulus
    <3>4. \A b \in Int : ((a % Modulus) + b) % Modulus = (a + b) % Modulus
      BY <3>2, <3>3, RemainderOfSum
    <3>5. ((a % Modulus) + 4) % Modulus = (a + 4) % Modulus BY <3>4
    <3> QED BY <3>2, <3>3, <3>5
  <2>3. temp' = [temp EXCEPT ![31] = Processor!Wrap(ShownPc + 8)] BY <2>1, <2>2, <1>5
  <2> DEFINE linked == [temp EXCEPT ![31] = Processor!Wrap(ShownPc + 8)]
             there == Processor!Wrap(Processor!InRegion(TempofIns.target))
  <2>4. temp' = linked /\ ShownPc' = there BY <2>3, <1>8
  <2>5. Processor!Jump
    BY <2>4, <1>1, <1>5, <1>10 DEF Processor!Jump, ShownPc
  <2> QED BY <2>5, <1>2, <1>4 DEF CpuInv, Processor!Execute
<1> QED BY <1>6, <1>9, <1>10
-----------------------------------------------------------------------------
(***************************************************************************)
(* The host and the interface: which signals go with which access.            *)
(***************************************************************************)
Loading == \E i \in 1 .. Len(script) : IsLoad(script[i])

ScriptInv == script \in Seq(Accesses) /\ LoadsFirst(script)

Handshake ==
  /\ valid \subseteq IF Accessing THEN Channels ELSE {}
  /\ {issued, axi_awready, axi_wready, axi_bvalid, axi_arready, axi_rvalid, mips_rst}
       \subseteq BOOLEAN
  /\ axi_awready = axi_wready
  /\ axi_awready =>
       Accessing /\ access.kind = "write" /\ valid = {"AW", "W"} /\ ~ issued
  /\ axi_arready =>
       Accessing /\ access.kind = "wait" /\ valid = {"AR"} /\ ~ issued /\ axi_rvalid
  /\ issued => /\ Accessing /\ valid = {}
               /\ access.kind = "write" => axi_bvalid
               /\ access.kind = "wait" => axi_rvalid
  /\ axi_bvalid => issued /\ access.kind = "write"
  /\ axi_rvalid => (issued \/ axi_arready) /\ access.kind = "wait"

(* While something is left to load, nothing has happened yet. *)
LoadInv ==
  Loading => mips_rst /\ State = 0 /\ PC = 0 /\ temp = [r \in Registers |-> 0] /\ ret = -1

(* The inductive invariant of the platform. *)
TopInv == CpuInv /\ ScriptInv /\ Handshake /\ axi_rdata \in Words /\ LoadInv

LEMMA FirstAccess ==
  ASSUME ScriptInv
  PROVE  /\ Accessing => /\ access \in Accesses /\ access.kind \in {"write", "wait"}
                         /\ access.kind = "wait" => access.address = FINISH
                         /\ access.kind = "write" => access.address \in 0 .. MemoryWords
                                                     /\ access.data \in Words
         /\ Accessing /\ IsLoad(access) => Loading
         /\ Loading => Accessing /\ (IsLoad(access) \/ IsHold(access))
<1>1. script \in Seq(Accesses) /\ LoadsFirst(script) BY DEF ScriptInv
<1>2. ASSUME Accessing
      PROVE  access \in Accesses /\ access = script[1] /\ Len(script) \in Nat \ {0}
    BY <1>1, <1>2, HeadTailProperties, LenProperties, EmptySeq DEF Accessing, access
<1>3. ASSUME Accessing
      PROVE  /\ access.kind \in {"write", "wait"}
             /\ access.kind = "wait" => access.address = FINISH
             /\ access.kind = "write" => access.address \in 0 .. MemoryWords
                                         /\ access.data \in Words
  <2> DEFINE a == access
  <2>1. a \in Accesses BY <1>2, <1>3
  <2> HIDE DEF a
  <2>2. /\ a.kind \in {"write", "wait"}
        /\ a.kind = "wait" => a.address = FINISH
        /\ a.kind = "write" => a.address \in 0 .. MemoryWords /\ a.data \in Words
    BY <2>1 DEF Accesses
  <2> QED BY <2>2 DEF a
<1>4. ASSUME Accessing, IsLoad(access) PROVE Loading
  <2>1. 1 \in 1 .. Len(script) /\ script[1] = access BY <1>2, <1>4
  <2> QED BY <2>1, <1>4 DEF Loading
<1>5. ASSUME Loading PROVE Accessing /\ (IsLoad(access) \/ IsHold(access))
  <2>1. PICK j \in 1 .. Len(script) : IsLoad(script[j]) BY <1>5 DEF Loading
  <2>2. Accessing
    <3>1. Len(script) \in Nat /\ Len(script) # 0 BY <1>1, <2>1, LenProperties
    <3> QED BY <3>1, <1>1, EmptySeq DEF Accessing
  <2>3. 1 \in 1 .. Len(script) /\ access = script[1] BY <1>2, <2>2
  <2>4. j = 1 \/ 1 < j BY <2>1
  <2> QED BY <2>1, <2>2, <2>3, <2>4, <1>1 DEF LoadsFirst
<1> QED BY <1>2, <1>3, <1>4, <1>5

(* The script after an access is what is left of it. *)
LEMMA NextAccess ==
  ASSUME ScriptInv, Accessing, script' = Tail(script)
  PROVE  ScriptInv' /\ (Loading' => Loading)
<1> DEFINE n == Len(script)
           rest == Tail(script)
<1>1. script \in Seq(Accesses) /\ script # <<>> /\ LoadsFirst(script)
  BY DEF ScriptInv, Accessing
<1>2. /\ n \in Nat \ {0} /\ rest \in Seq(Accesses) /\ Len(rest) = n - 1
      /\ \A i \in 1 .. n - 1 : rest[i] = script[i + 1]
  BY <1>1, HeadTailProperties, LenProperties, EmptySeq
<1> HIDE DEF rest, n
<1>3. \A i \in 1 .. n - 1 : i + 1 \in 1 .. n BY <1>2
<1>4. \A i, j \in 1 .. n - 1 : i < j => i + 1 < j + 1 BY <1>2
<1>5. LoadsFirst(rest) BY <1>1, <1>2, <1>3, <1>4 DEF LoadsFirst, n
<1>6. Loading' => Loading
  BY <1>2, <1>3 DEF Loading, rest, n
<1>7. script' = rest BY DEF rest
<1> QED BY <1>2, <1>5, <1>6, <1>7 DEF ScriptInv

(* Between two accesses everything is low. *)
LEMMA LowHandshake ==
  ASSUME mips_rst' \in BOOLEAN, valid' = {}, issued' = FALSE,
         axi_awready' = FALSE, axi_wready' = FALSE, axi_bvalid' = FALSE,
         axi_arready' = FALSE, axi_rvalid' = FALSE
  PROVE  Handshake'
BY DEF Handshake

LEMMA WriteHandshake ==
  ASSUME ScriptInv, Handshake, Accessing, access.kind = "write",
         NEW BREADY \in BOOLEAN, NEW RREADY \in BOOLEAN,
         axi_lite_if(BREADY, RREADY), host(BREADY, RREADY)
  PROVE  Handshake' /\ script' \in {script, Tail(script)}
<1>1. /\ valid \subseteq {"AW", "W"} /\ axi_awready = axi_wready
      /\ axi_awready \in BOOLEAN /\ axi_bvalid \in BOOLEAN /\ mips_rst \in BOOLEAN
      /\ axi_arready = FALSE /\ axi_rvalid = FALSE /\ issued = axi_bvalid
      /\ axi_awready => valid = {"AW", "W"} /\ issued = FALSE
      /\ issued => valid = {}
  BY DEF Handshake, Channels
<1>2. mips_rst' \in BOOLEAN BY <1>1 DEF axi_lite_if
<1>3. axi_arready' = FALSE /\ axi_rvalid' = FALSE BY <1>1 DEF axi_lite_if, AXI_MemRead
<1>4. CASE issued
  <2>1. /\ axi_awready' = FALSE /\ axi_wready' = FALSE /\ axi_bvalid' = ~ BREADY
    BY <1>1, <1>4 DEF axi_lite_if, write_response
  <2>2. /\ valid' = {} /\ issued' = ~ BREADY
        /\ script' = IF BREADY THEN Tail(script) ELSE script
    BY <1>1, <1>4 DEF host, Responded
  <2>3. CASE BREADY
    BY <2>1, <2>2, <2>3, <1>2, <1>3, LowHandshake
  <2>4. CASE ~ BREADY
    <3>1. Accessing' /\ access' = access BY <2>2, <2>4 DEF Accessing, access
    <3> QED BY <3>1, <2>1, <2>2, <2>4, <1>2, <1>3 DEF Handshake
  <2> QED BY <2>3, <2>4
<1>5. CASE axi_awready
  <2>1. /\ axi_awready' = FALSE /\ axi_wready' = FALSE /\ axi_bvalid' = TRUE
    BY <1>1, <1>5 DEF axi_lite_if, write_response
  <2>2. /\ valid' = {} /\ issued' = TRUE /\ script' = script
    BY <1>1, <1>5 DEF host, Responded, Taken
  <2>3. Accessing' /\ access' = access BY <2>2 DEF Accessing, access
  <2> QED BY <2>1, <2>2, <2>3, <1>2, <1>3 DEF Handshake
<1>6. CASE ~ issued /\ ~ axi_awready
  <2>1. /\ axi_awready' = axi_wready' /\ axi_bvalid' = FALSE
        /\ axi_awready' = ({"AW", "W"} \subseteq valid)
    BY <1>1, <1>6 DEF axi_lite_if, write_response
  <2>2. /\ valid \subseteq valid' /\ valid' \subseteq {"AW", "W"}
        /\ issued' = FALSE /\ script' = script
    BY <1>1, <1>6 DEF host, Responded, Taken, Channels
  <2>3. Accessing' /\ access' = access BY <2>2 DEF Accessing, access
  <2>4. axi_awready' => valid' = {"AW", "W"} BY <2>1, <2>2
  <2> QED BY <2>1, <2>2, <2>3, <2>4, <1>2, <1>3 DEF Handshake, Channels
<1> QED BY <1>4, <1>5, <1>6

LEMMA WaitHandshake ==
  ASSUME ScriptInv, Handshake, Accessing, access.kind = "wait",
         NEW BREADY \in BOOLEAN, NEW RREADY \in BOOLEAN,
         axi_lite_if(BREADY, RREADY), host(BREADY, RREADY)
  PROVE  Handshake' /\ script' \in {script, Tail(script)}
<1>1. /\ valid \subseteq {"AR"} /\ mips_rst \in BOOLEAN
      /\ axi_awready = FALSE /\ axi_wready = FALSE /\ axi_bvalid = FALSE
      /\ axi_arready \in BOOLEAN /\ axi_rvalid \in BOOLEAN /\ issued \in BOOLEAN
      /\ axi_rvalid = (issued \/ axi_arready)
      /\ axi_arready => valid = {"AR"} /\ issued = FALSE
      /\ issued => valid = {}
  BY DEF Handshake, Channels
<1>2. mips_rst' = mips_rst BY <1>1 DEF axi_lite_if, mips_rst_sel, wren
<1>3. axi_awready' = FALSE /\ axi_wready' = FALSE /\ axi_bvalid' = FALSE
  BY <1>1 DEF axi_lite_if, write_response
<1>4. CASE issued \/ axi_arready
  <2>1. axi_arready' = FALSE /\ axi_rvalid' = ~ RREADY
    BY <1>1, <1>4 DEF axi_lite_if, AXI_MemRead
  <2>2. /\ valid' = {} /\ issued' = ~ RREADY
        /\ script' = IF RREADY /\ axi_rdata # AllOnes THEN Tail(script) ELSE script
    BY <1>1, <1>4 DEF host, Responded, Taken
  <2>3. CASE RREADY
    BY <2>1, <2>2, <2>3, <1>1, <1>2, <1>3, LowHandshake
  <2>4. CASE ~ RREADY
    <3>1. Accessing' /\ access' = access BY <2>2, <2>4 DEF Accessing, access
    <3> QED BY <3>1, <2>1, <2>2, <2>4, <1>1, <1>2, <1>3 DEF Handshake
  <2> QED BY <2>3, <2>4, <2>2
<1>5. CASE ~ issued /\ ~ axi_arready
  <2>1. /\ axi_arready' \in BOOLEAN /\ axi_rvalid' \in BOOLEAN
        /\ axi_arready' => "AR" \in valid
        /\ axi_arready' => axi_rvalid'
        /\ axi_rvalid' => axi_arready'
    BY <1>1, <1>5 DEF axi_lite_if, AXI_MemRead
  <2>2. /\ valid \subseteq valid' /\ valid' \subseteq {"AR"}
        /\ issued' = FALSE /\ script' = script
    BY <1>1, <1>5 DEF host, Responded, Taken, Channels
  <2>3. Accessing' /\ access' = access BY <2>2 DEF Accessing, access
  <2>4. axi_arready' => valid' = {"AR"} BY <2>1, <2>2
  <2> QED BY <2>1, <2>2, <2>3, <2>4, <1>1, <1>2, <1>3 DEF Handshake, Channels
<1> QED BY <1>4, <1>5

(* An edge of the clock keeps the handshake and what is left to do. *)
LEMMA HandshakeKeeps ==
  ASSUME ScriptInv, Handshake, NEW BREADY \in BOOLEAN, NEW RREADY \in BOOLEAN,
         axi_lite_if(BREADY, RREADY), host(BREADY, RREADY)
  PROVE  Handshake' /\ ScriptInv' /\ (Loading' => Loading)
<1>1. CASE ~ Accessing
  <2>1. /\ valid = {} /\ issued = FALSE /\ mips_rst \in BOOLEAN
        /\ axi_awready = FALSE /\ axi_wready = FALSE /\ axi_bvalid = FALSE
        /\ axi_arready = FALSE /\ axi_rvalid = FALSE
    BY <1>1 DEF Handshake
  <2>2. UNCHANGED <<valid, issued, script>> BY <1>1 DEF host, hostVars
  <2>3. /\ mips_rst' = mips_rst
        /\ axi_awready' = FALSE /\ axi_wready' = FALSE /\ axi_bvalid' = FALSE
        /\ axi_arready' = FALSE /\ axi_rvalid' = FALSE
    BY <2>1 DEF axi_lite_if, AXI_MemRead, mips_rst_sel, wren, write_response
  <2>4. Handshake' BY <2>1, <2>2, <2>3, LowHandshake
  <2> QED BY <2>2, <2>4 DEF ScriptInv, Loading
<1>2. CASE Accessing
  <2>1. access.kind \in {"write", "wait"} BY <1>2, FirstAccess
  <2>2. Handshake' /\ script' \in {script, Tail(script)}
    BY <1>2, <2>1, WriteHandshake, WaitHandshake
  <2>3. CASE script' = script BY <2>2, <2>3 DEF ScriptInv, Loading
  <2>4. CASE script' = Tail(script) BY <2>2, <2>4, <1>2, NextAccess
  <2> QED BY <2>2, <2>3, <2>4
<1> QED BY <1>1, <1>2

(* The host reads the word that it waits for, or that the core is reading. *)
LEMMA HostReads ==
  ASSUME TopInv, AXI_MemRead
  PROVE  /\ Accessing /\ access.kind = "wait" /\ mem[FINISH] \in Words
         /\ AXI_Read_data \in {AllOnes, mem[FINISH]} /\ AXI_Read_data \in Words
<1>1. "AR" \in valid BY DEF AXI_MemRead
<1>2. Accessing /\ access.kind # "write" BY <1>1 DEF TopInv, Handshake, Channels
<1>3. access.kind = "wait" /\ access.address = FINISH BY <1>2, FirstAccess DEF TopInv
<1>4. FINISH \in 0 .. MemoryWords - 1 BY TopAssumption
<1>5. mem[FINISH] \in Words BY <1>4 DEF TopInv, CpuInv, CpuTyped
<1>6. CASE axi_lite_mem_rd
  <2>1. ~ mips_mem_rd BY <1>6 DEF axi_lite_mem_rd, mips_mem_rd
  <2>2. Raddr = FINISH BY <2>1, <1>3, <1>4, <1>6, OrAssumption DEF Raddr
  <2> QED BY <2>2, <1>2, <1>3, <1>5, <1>6 DEF AXI_Read_data
<1>7. CASE ~ axi_lite_mem_rd
  <2>1. AllOnes \in Words BY WordFacts DEF AllOnes, Words
  <2> QED BY <2>1, <1>2, <1>3, <1>5, <1>7 DEF AXI_Read_data
<1> QED BY <1>6, <1>7

(* The host writes only while it loads. *)
LEMMA HostWrites ==
  ASSUME TopInv, AXI_MemWrite
  PROVE  /\ access.address \in 0 .. MemoryWords - 1 /\ access.data \in Words
         /\ mips_rst /\ State = 0 /\ PC = 0 /\ temp = [r \in Registers |-> 0]
<1>1. {"AW", "W"} \subseteq valid /\ access.address # RESET BY DEF AXI_MemWrite, wren
<1>2. Accessing /\ access.kind # "wait" BY <1>1 DEF TopInv, Handshake, Channels
<1>3. /\ access.kind = "write" /\ access.address \in 0 .. MemoryWords
      /\ access.data \in Words
  BY <1>2, FirstAccess DEF TopInv
<1>4. IsLoad(access) BY <1>1, <1>3 DEF IsLoad
<1>5. Loading BY <1>2, <1>4, FirstAccess DEF TopInv
<1>6. access.address \in 0 .. MemoryWords - 1 BY <1>1, <1>3, CpuAssumption DEF RESET
<1> QED BY <1>3, <1>5, <1>6 DEF TopInv, LoadInv

LEMMA WritesAreApart ==
  ASSUME TopInv
  PROVE  ~ WritesCollide
BY HostWrites DEF WritesCollide, MemWrite

LEMMA ResponseTyped ==
  ASSUME TopInv, NEW BREADY, NEW RREADY, axi_lite_if(BREADY, RREADY)
  PROVE  axi_rdata' \in Words
BY HostReads DEF axi_lite_if, TopInv

(* A clock with reset: the end of a run, or a word loaded. *)
LEMMA ResetClock ==
  ASSUME TopInv, mips_rst, ResetCpu, ideal_mem
  PROVE  CpuInv' /\ (Processor!Reset \/ Processor!Load)
<1>1. CpuTyped /\ Holds /\ Computed BY DEF TopInv, CpuInv
<1>2. /\ State' = 0 /\ PC' = 0 /\ fetched' = 0
      /\ temp' = [r \in Registers |-> 0]
      /\ UNCHANGED <<TempofIns, A, B, ALUOut, MDR, Address>>
  BY DEF ResetCpu
<1>3. ShownPc' = 0 BY <1>2 DEF ShownPc
<1>4. Holds' /\ Computed' BY <1>2 DEF Holds, Computed
<1>5. ASSUME mem' \in [0 .. MemoryWords - 1 -> Words] PROVE CpuTyped'
  <2>1. 0 \in Words BY WordFacts
  <2>2. temp' \in [Registers -> Words] BY <2>1, <1>2
  <2>3. State' \in 0 .. 14 /\ PC' \in Words /\ fetched' \in Words BY <2>1, <1>2
  <2> QED BY <2>2, <2>3, <1>1, <1>2, <1>5 DEF CpuTyped
<1>6. mem \in [0 .. MemoryWords - 1 -> Words] BY <1>1 DEF CpuTyped
<1>7. temp' = Processor!Zeros BY <1>2 DEF Processor!Zeros
<1>8. CASE MemWrite
  <2>1. State = 5 BY <1>8 DEF MemWrite
  <2>2. TempofIns.op = "sw" /\ Address = EffectiveAddress BY <1>1, <2>1 DEF Computed
  <2>3. mem' = [mem EXCEPT ![At(EffectiveAddress)] = rdata2]
    BY <1>8, <2>2 DEF ideal_mem, Write_data
  <2>4. rdata2 \in Words BY <1>1, InsKinds
  <2>5. CpuTyped' BY <2>3, <2>4, <1>5, <1>6
  <2>6. /\ Processor!Instruction = TempofIns
        /\ \A x : Processor!Index(x) = At(x)
        /\ \A x : Processor!Wrap(x) = x % Modulus
    BY <2>1, SameInstruction DEF TopInv
  <2>7. mem' = [mem EXCEPT ![Processor!Index(Processor!Wrap(temp[TempofIns.rs]
                                                          + TempofIns.imm))]
                  = temp[TempofIns.rt]]
    BY <2>3, <2>6 DEF EffectiveAddress, rdata1, rdata2
  <2>8. Processor!Reset BY <2>2, <2>6, <2>7, <1>3, <1>7 DEF Processor!Reset, ShownPc
  <2> QED BY <2>5, <2>8, <1>4 DEF CpuInv
<1>9. CASE ~ MemWrite /\ AXI_MemWrite
  <2>1. /\ access.address \in 0 .. MemoryWords - 1 /\ access.data \in Words
        /\ State = 0 /\ PC = 0 /\ temp = [r \in Registers |-> 0]
    BY <1>9, HostWrites
  <2>2. mem' = [mem EXCEPT ![access.address] = access.data] BY <1>9 DEF ideal_mem
  <2>3. CpuTyped' BY <2>1, <2>2, <1>5, <1>6
  <2>4. ShownPc = 0 /\ temp = Processor!Zeros BY <2>1 DEF ShownPc, Processor!Zeros
  <2>5. access.address \in DOMAIN mem /\ access.data \in Processor!Words
    BY <2>1, <1>6 DEF Processor!Words, Processor!Modulus, Words, Modulus
  <2>6. Processor!Load
    BY <2>2, <2>4, <2>5, <1>3, <1>7 DEF Processor!Load, ShownPc
  <2> QED BY <2>3, <2>6, <1>4 DEF CpuInv
<1>10. CASE ~ MemWrite /\ ~ AXI_MemWrite
  <2>1. mem' = mem BY <1>10 DEF ideal_mem
  <2>2. CpuTyped' BY <2>1, <1>5, <1>6
  <2>3. Processor!Reset BY <2>1, <1>3, <1>7 DEF Processor!Reset, ShownPc
  <2> QED BY <2>2, <2>3, <1>4 DEF CpuInv
<1> QED BY <1>8, <1>9, <1>10

(* Every clock is an instruction, a reset, a load, or nothing that shows. *)
LEMMA ClockIsStep ==
  ASSUME TopInv, Clock
  PROVE  CpuInv' /\ (Processor!Next \/ UNCHANGED <<ShownPc, temp, mem>>)
<1>1. CpuInv BY DEF TopInv
<1>2. CASE mips_rst
  <2>1. ResetCpu /\ ideal_mem BY <1>2 DEF Clock
  <2> QED BY <2>1, <1>2, ResetClock DEF Processor!Next
<1>3. CASE ~ mips_rst
  <2>1. ~ AXI_MemWrite BY <1>3, HostWrites
  <2>2. CoreClock BY <2>1, <1>3 DEF Clock, CoreClock, ideal_mem
  <2>3. State \in {0} \cup {1, 2, 3, 6, 9, 13} \cup {4, 7, 10, 12, 14} \cup {5} \cup {8} \cup {11}
    BY <1>1 DEF CpuInv, CpuTyped
  <2>4. CASE State = 0 BY <2>2, <2>4, <1>1, FetchClock
  <2>5. CASE State \in {1, 2, 3, 6, 9, 13} BY <2>2, <2>5, <1>1, InnerClock
  <2>6. CASE State \in {4, 7, 10, 12, 14} BY <2>2, <2>6, <1>1, WriteBackClock DEF Processor!Next
  <2>7. CASE State = 5 BY <2>2, <2>7, <1>1, StoreClock DEF Processor!Next
  <2>8. CASE State = 8 BY <2>2, <2>8, <1>1, BranchClock DEF Processor!Next
  <2>9. CASE State = 11 BY <2>2, <2>9, <1>1, JumpClock DEF Processor!Next
  <2> QED BY <2>3, <2>4, <2>5, <2>6, <2>7, <2>8, <2>9
<1> QED BY <1>2, <1>3

LEMMA LoadKeeps ==
  ASSUME TopInv, Clock, Loading' => Loading
  PROVE  LoadInv'
<1> SUFFICES ASSUME Loading'
             PROVE  /\ mips_rst' /\ State' = 0 /\ PC' = 0
                    /\ temp' = [r \in Registers |-> 0] /\ ret' = -1
  BY DEF LoadInv
<1>1. mips_rst /\ ret = -1 /\ Accessing /\ (IsLoad(access) \/ IsHold(access))
  BY FirstAccess DEF TopInv, LoadInv
<1>2. access.kind = "write" BY <1>1 DEF IsLoad, IsHold
<1>3. State' = 0 /\ PC' = 0 /\ temp' = [r \in Registers |-> 0]
  BY <1>1 DEF Clock, ResetCpu
<1>4. PICK BREADY, RREADY \in BOOLEAN : axi_lite_if(BREADY, RREADY) /\ host(BREADY, RREADY)
  BY DEF Clock
<1>5. mips_rst'
  BY <1>1, <1>4 DEF axi_lite_if, mips_rst_sel, IsLoad, IsHold
<1>6. ret' = -1 BY <1>1, <1>2, <1>4 DEF host
<1> QED BY <1>3, <1>5, <1>6

LEMMA TopStarts ==
  ASSUME TopInit
  PROVE  TopInv /\ Processor!Init
<1>1. 0 \in Words BY WordFacts
<1>2. PICK image \in Images : mem = image.memory /\ script = image.script BY DEF TopInit
<1>3. /\ mem \in [0 .. MemoryWords - 1 -> Words] /\ ScriptInv
  BY <1>2, TopAssumption DEF ScriptInv
<1>4. /\ State = 0 /\ PC = 0 /\ fetched = 0 /\ TempofIns \in Instructions
      /\ A = 0 /\ B = 0 /\ ALUOut = 0 /\ MDR = 0 /\ Address = 0
      /\ temp = [r \in Registers |-> 0]
  BY <1>1, CpuAssumption DEF TopInit, CpuInit
<1>5. temp \in [Registers -> Words] BY <1>1, <1>4
<1>6. State \in 0 .. 14 BY <1>4
<1>7. CpuTyped BY <1>1, <1>3, <1>4, <1>5, <1>6 DEF CpuTyped
<1>8. CpuInv BY <1>4, <1>7 DEF CpuInv, Holds, Computed
<1>9. Handshake BY DEF TopInit, Handshake
<1>10. axi_rdata \in Words /\ LoadInv BY <1>1, <1>4 DEF TopInit, LoadInv
<1>11. Processor!Init
  <2>1. mem \in {other.memory : other \in Images} BY <1>2
  <2>2. ShownPc = 0 /\ temp = Processor!Zeros BY <1>4 DEF ShownPc, Processor!Zeros
  <2> QED BY <2>1, <2>2 DEF Processor!Init, ShownPc
<1> QED BY <1>3, <1>8, <1>9, <1>10, <1>11 DEF TopInv

LEMMA TopKeeps ==
  ASSUME TopInv, [Clock]_topVars
  PROVE  TopInv'
<1>1. CASE Clock
  <2>1. CpuInv' BY <1>1, ClockIsStep
  <2>2. PICK BREADY, RREADY \in BOOLEAN : axi_lite_if(BREADY, RREADY) /\ host(BREADY, RREADY)
    BY <1>1 DEF Clock
  <2>3. Handshake' /\ ScriptInv' /\ (Loading' => Loading)
    BY <2>2, HandshakeKeeps DEF TopInv
  <2>4. axi_rdata' \in Words BY <2>2, ResponseTyped
  <2>5. LoadInv' BY <2>3, <1>1, LoadKeeps
  <2> QED BY <2>1, <2>3, <2>4, <2>5 DEF TopInv
<1>2. CASE UNCHANGED topVars
  <2>1. UNCHANGED <<State, PC, TempofIns, A, B, ALUOut, MDR, Address, temp, fetched>>
    BY <1>2 DEF topVars, cpuVars
  <2>2. UNCHANGED <<mem, mips_rst, valid, issued, script, ret, axi_awready, axi_wready,
                    axi_bvalid, axi_arready, axi_rvalid, axi_rdata>>
    BY <1>2 DEF topVars, axiVars, hostVars
  <2>3. rdata1' = rdata1 /\ rdata2' = rdata2 /\ EffectiveAddress' = EffectiveAddress
        /\ Target' = Target /\ ByFunction' = ByFunction /\ ByOrder' = ByOrder
    BY <2>1, SameSources
  <2>4. CpuTyped' BY <2>1, <2>2 DEF TopInv, CpuInv, CpuTyped
  <2>5. Holds' BY <2>1, <2>2, <2>3 DEF TopInv, CpuInv, Holds, At
  <2>6. Computed' BY <2>1, <2>2, <2>3 DEF TopInv, CpuInv, Computed, At
  <2>7. ScriptInv' /\ (Loading' => Loading) BY <2>2 DEF TopInv, ScriptInv, Loading
  <2>8. Accessing' = Accessing /\ access' = access /\ Channels' = Channels
    BY <2>2 DEF Accessing, access, Channels
  <2>9. Handshake' BY <2>2, <2>8 DEF TopInv, Handshake
  <2>10. LoadInv' BY <2>1, <2>2, <2>7 DEF TopInv, LoadInv
  <2> QED BY <2>2, <2>4, <2>5, <2>6, <2>7, <2>9, <2>10 DEF TopInv, CpuInv
<1> QED BY <1>1, <1>2

LEMMA TopAlways == TopSpec => []TopInv
<1>1. TopInit => TopInv BY TopStarts
<1>2. TopInv /\ [Clock]_topVars => TopInv' BY TopKeeps
<1> QED BY <1>1, <1>2, PTL DEF TopSpec
-----------------------------------------------------------------------------
(* No two writes meet on the port of the memory that is not arbitrated, no two
   responses are up at once, and no access finds the handshake of the one before
   (axi_lite_if.v, mips_cpu_top.v:234), whatever the program, its image and the
   timing of the host, for a loader that is done before it lets the core go. *)
THEOREM TypeOKAlways == TopSpec => []TopTypeOK
<1>1. TopInv => TopTypeOK
  <2> SUFFICES ASSUME TopInv PROVE TopTypeOK
    OBVIOUS
  <2>1. ~ WritesCollide BY WritesAreApart
  <2>2. State \in 0 .. 14 /\ mem \in [0 .. MemoryWords - 1 -> Words]
    BY DEF TopInv, CpuInv, CpuTyped
  <2>3. ~ (axi_bvalid /\ axi_rvalid) BY DEF TopInv, Handshake
  <2>4. ~ issued => ~ axi_bvalid /\ (axi_rvalid => axi_arready) BY DEF TopInv, Handshake
  <2> QED BY <2>1, <2>2, <2>3, <2>4 DEF TopTypeOK
<1> QED BY <1>1, TopAlways, PTL

(* The multi-cycle core refines the processor of one step for an instruction: for
   every width of a word, memory, program and timing of the host, each instruction
   does what it promises, wholly and only once (mips_cpu.v, alu.v, reg_file.v). *)
THEOREM CoreIsProcessor == TopSpec => CpuImplementsIsa
<1>1. TopInit => Processor!Init BY TopStarts
<1>2. TopInv /\ [Clock]_topVars => [Processor!Next]_<<ShownPc, temp, mem>>
  <2> SUFFICES ASSUME TopInv, [Clock]_topVars
               PROVE  Processor!Next \/ UNCHANGED <<ShownPc, temp, mem>>
    OBVIOUS
  <2>1. CASE Clock BY <2>1, ClockIsStep
  <2>2. CASE UNCHANGED topVars BY <2>2 DEF topVars, cpuVars, ShownPc
  <2> QED BY <2>1, <2>2
<1>3. TopInv /\ [Clock]_topVars
        => [Processor!Next]_<<IF State = 0 THEN PC ELSE fetched, temp, mem>>
  BY <1>2 DEF ShownPc
<1> QED BY <1>1, <1>3, TopAlways, PTL DEF TopSpec, CpuImplementsIsa, Processor!Spec
-----------------------------------------------------------------------------
(* What the programs promise: the word the host waits for is written once, by a
   store of something else than the value that means "not yet". *)
StoresOnce == MemWrite /\ mem[FINISH] # AllOnes => mem'[FINISH] = mem[FINISH]

(* What a read has brought, or has been told, is what the word holds. *)
ResultInv ==
  /\ axi_rvalid /\ axi_rdata # AllOnes => axi_rdata = mem[FINISH]
  /\ ret # -1 => ret = mem[FINISH] /\ ret # AllOnes

LEMMA ResultStays ==
  ASSUME TopInv, Clock, StoresOnce, ~ AXI_MemWrite, mem[FINISH] # AllOnes
  PROVE  mem'[FINISH] = mem[FINISH]
BY DEF Clock, ideal_mem, StoresOnce

LEMMA ResultKeeps ==
  ASSUME TopInv, ResultInv, Clock, StoresOnce
  PROVE  ResultInv'
<1>1. PICK BREADY, RREADY \in BOOLEAN : axi_lite_if(BREADY, RREADY) /\ host(BREADY, RREADY)
  BY DEF Clock
<1>2. CASE AXI_MemWrite
  <2>1. {"AW", "W"} \subseteq valid BY <1>2 DEF AXI_MemWrite, wren
  <2>2. Accessing /\ access.kind # "wait" BY <2>1 DEF TopInv, Handshake, Channels
  <2>3. ~ AXI_MemRead BY <2>2, HostReads
  <2>4. ~ axi_rvalid BY <2>2 DEF TopInv, Handshake
  <2>5. ~ axi_rvalid' BY <2>3, <2>4, <1>1 DEF axi_lite_if
  <2>6. ret = -1
    <3>1. access.kind \in {"write", "wait"} /\ access.address # RESET
      BY <2>2, <1>2, FirstAccess DEF TopInv, AXI_MemWrite
    <3>2. Loading BY <3>1, <2>2, FirstAccess DEF TopInv, IsLoad
    <3> QED BY <3>2 DEF TopInv, LoadInv
  <2>7. ret' = ret BY <2>2, <1>1 DEF host
  <2> QED BY <2>5, <2>6, <2>7 DEF ResultInv
<1>3. CASE ~ AXI_MemWrite
  <2>1. mem[FINISH] # AllOnes => mem'[FINISH] = mem[FINISH] BY <1>3, ResultStays
  <2>2. ASSUME axi_rvalid', axi_rdata' # AllOnes PROVE axi_rdata' = mem'[FINISH]
    <3>1. CASE AXI_MemRead
      <4>1. axi_rdata' \in {AllOnes, mem[FINISH]} BY <3>1, <1>1, HostReads DEF axi_lite_if
      <4> QED BY <4>1, <2>1, <2>2
    <3>2. CASE ~ AXI_MemRead
      <4>1. axi_rvalid /\ axi_rdata' = axi_rdata BY <3>2, <2>2, <1>1 DEF axi_lite_if
      <4> QED BY <4>1, <2>1, <2>2 DEF ResultInv
    <3> QED BY <3>1, <3>2
  <2>3. ASSUME ret' # -1 PROVE ret' = mem'[FINISH] /\ ret' # AllOnes
    <3>1. CASE ret' = ret BY <3>1, <2>1, <2>3 DEF ResultInv
    <3>2. CASE ret' # ret
      <4>1. /\ Accessing /\ access.kind = "wait" /\ axi_rdata # AllOnes
            /\ Responded(BREADY, RREADY) /\ ret' = axi_rdata
        BY <3>2, <1>1 DEF host, hostVars
      <4>2. ~ axi_bvalid BY <4>1 DEF TopInv, Handshake
      <4>3. axi_rvalid BY <4>1, <4>2 DEF Responded
      <4> QED BY <4>1, <4>3, <2>1 DEF ResultInv
    <3> QED BY <3>1, <3>2
  <2> QED BY <2>2, <2>3 DEF ResultInv
<1> QED BY <1>2, <1>3

(* The host is told the result that the program stored: not what a read of the core
   left on the port of the memory, nor the value that stands for such a read
   (mips_cpu_top.v:215-227, wait_for_finish), if the program stores it once. *)
THEOREM ResultAlwaysTrue == TopSpec /\ [][StoresOnce]_topVars => []ResultIsTrue
<1>1. TopInit => ResultInv BY DEF TopInit, ResultInv
<1>2. TopInv /\ ResultInv /\ [Clock]_topVars /\ [StoresOnce]_topVars => ResultInv'
  <2> SUFFICES ASSUME TopInv, ResultInv, [Clock]_topVars, [StoresOnce]_topVars
               PROVE  ResultInv'
    OBVIOUS
  <2>1. CASE Clock /\ StoresOnce BY <2>1, ResultKeeps
  <2>2. CASE UNCHANGED topVars
    <3>1. UNCHANGED <<mem, axi_rvalid, axi_rdata, ret>>
      BY <2>2 DEF topVars, axiVars, hostVars
    <3> QED BY <3>1 DEF ResultInv
  <2> QED BY <2>1, <2>2
<1>3. ResultInv => ResultIsTrue BY DEF ResultInv, ResultIsTrue
<1> QED BY <1>1, <1>2, <1>3, TopAlways, PTL DEF TopSpec
===============================================================================
