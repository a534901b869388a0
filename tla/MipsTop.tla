------------------------------- MODULE MipsTop -------------------------------
(***************************************************************************)
(* The evaluation platform of the MIPS core: mips_cpu_top.v with the core,    *)
(* ideal_mem.v and axi_lite_if.v, and mips_cpu_elf_loader.c on the host.      *)
(*                                                                         *)
(* A step is a clock edge.  The host's accesses are those of one thread to    *)
(* volatile words, so that one is outstanding at most; its AXI master may      *)
(* raise VALID and READY in any clock.  While one access is outstanding the   *)
(* other channel's address is zero and the two are not confused.  Reads of    *)
(* the performance counters are left out.                                    *)
(***************************************************************************)
EXTENDS MipsCpu, Sequences

CONSTANTS
  Images,       \* what the loader may load: [memory, script]
  FINISH        \* the index of the word the host waits for, MIPS_CPU_FINISH_DW_OFFSET

AllOnes == Modulus - 1
RESET == MemoryWords   \* the index of the reset register, beyond the memory

VARIABLES
  mem,          \* ideal_mem
  mips_rst,     \* the reset register, which holds the core
  axi_awready, axi_wready, axi_bvalid, axi_arready, axi_rvalid, axi_rdata,
  valid,        \* the channels whose VALID the host holds
  issued,       \* the address of the access was taken
  script,       \* what is left for the host to do
  ret           \* what wait_for_finish returned, or -1

axiVars == <<axi_awready, axi_wready, axi_bvalid, axi_arready, axi_rvalid, axi_rdata>>
hostVars == <<valid, issued, script, ret>>
topVars == <<cpuVars, mem, mips_rst, axiVars, hostVars>>

TopInit ==
  /\ CpuInit
  /\ \E image \in Images : mem = image.memory /\ script = image.script
  /\ mips_rst = TRUE
  /\ axi_awready = FALSE /\ axi_wready = FALSE /\ axi_bvalid = FALSE
  /\ axi_arready = FALSE /\ axi_rvalid = FALSE /\ axi_rdata = 0
  /\ valid = {} /\ issued = FALSE /\ ret = -1

(* The program of the host, as its accesses: the loader's segments, word by word,
   while the processor is held, and the word that it waits for in the end. *)
resetn(val) == [kind |-> "write", address |-> RESET, data |-> val]
loader(words) == [i \in DOMAIN words |->
                    [kind |-> "write", address |-> words[i].address, data |-> words[i].data]]
wait_for_finish == [kind |-> "wait", address |-> FINISH]
main(words) == <<resetn(0)>> \o loader(words) \o <<resetn(1), wait_for_finish, resetn(0)>>

(* The loader is done before the processor is let go and before the host waits. *)
Accesses == [kind : {"write"}, address : 0 .. MemoryWords, data : Words]
            \cup [kind : {"wait"}, address : {FINISH}]
IsLoad(a) == a.kind = "write" /\ a.address # RESET
IsHold(a) == a.kind = "write" /\ a.address = RESET /\ a.data = 0
LoadsFirst(list) ==
  \A i, j \in 1 .. Len(list) : i < j /\ IsLoad(list[j]) => IsLoad(list[i]) \/ IsHold(list[i])

ASSUME TopAssumption ==
  /\ FINISH \in 0 .. MemoryWords - 1
  /\ \A image \in Images :
       /\ image.memory \in [0 .. MemoryWords - 1 -> Words]
       /\ image.script \in Seq(Accesses) /\ LoadsFirst(image.script)

At(address) == (address \div 4) % MemoryWords

(* The access under way; it is over when its response is taken. *)
Accessing == script # <<>>
access == Head(script)
Channels == IF access.kind = "write" THEN {"AW", "W"} ELSE {"AR"}

wren == ~ axi_awready /\ ~ axi_wready /\ {"AW", "W"} \subseteq valid
AXI_MemWrite == wren /\ access.address # RESET
mips_rst_sel == wren /\ access.address = RESET
AXI_MemRead == ~ axi_arready /\ "AR" \in valid

\* Mutant of axi_lite_mem_rd: the host reads although the core does.
axi_lite_mem_rdAlways == AXI_MemRead
(* The arbitration of the second read port of the memory. *)
axi_lite_mem_rd == AXI_MemRead /\ (mips_rst \/ ~ MemRead)
mips_mem_rd == MemRead /\ ~ mips_rst

(* Both addresses on the port are or-ed. *)
Raddr == BitOr(IF mips_mem_rd THEN At(Address) ELSE 0,
            IF axi_lite_mem_rd THEN access.address ELSE 0)
AXI_Read_data == IF axi_lite_mem_rd THEN mem[Raddr] ELSE AllOnes
Read_data == IF mips_mem_rd THEN mem[Raddr] ELSE 0

(* The write port is not arbitrated: both addresses and both data would be or-ed. *)
WritesCollide == MemWrite /\ AXI_MemWrite
ideal_mem ==
  mem' = IF MemWrite THEN [mem EXCEPT ![At(Address)] = Write_data]
         ELSE IF AXI_MemWrite THEN [mem EXCEPT ![access.address] = access.data]
         ELSE mem

\* Mutant of write_response: it is not taken back.
write_responseHeld(BREADY) ==
  axi_bvalid \/ (axi_awready /\ axi_wready /\ {"AW", "W"} \subseteq valid)
(* A response to a write is raised, and lowered when the master has taken it. *)
write_response(BREADY) ==
  \/ ~ axi_bvalid /\ axi_awready /\ axi_wready /\ {"AW", "W"} \subseteq valid
  \/ axi_bvalid /\ ~ BREADY

axi_lite_if(BREADY, RREADY) ==
  /\ axi_awready' = (~ axi_awready /\ {"AW", "W"} \subseteq valid)
  /\ axi_wready' = (~ axi_wready /\ {"AW", "W"} \subseteq valid)
  /\ mips_rst' = IF mips_rst_sel THEN access.data = 0 ELSE mips_rst
  /\ axi_bvalid' = write_response(BREADY)
  /\ axi_arready' = AXI_MemRead
  /\ axi_rvalid' = \/ AXI_MemRead /\ ~ axi_rvalid
                   \/ axi_rvalid /\ ~ RREADY
  /\ axi_rdata' = IF AXI_MemRead THEN AXI_Read_data ELSE axi_rdata

(* The host: VALID goes up in some clock and stays until READY is seen. *)
Taken == (IF axi_awready THEN {"AW"} ELSE {}) \cup (IF axi_wready THEN {"W"} ELSE {})
         \cup (IF axi_arready THEN {"AR"} ELSE {})
Responded(BREADY, RREADY) == (axi_bvalid /\ BREADY) \/ (axi_rvalid /\ RREADY)

host(BREADY, RREADY) ==
  LET finished == Responded(BREADY, RREADY)
      again == access.kind = "wait" /\ axi_rdata = AllOnes
  IN
  IF ~ Accessing THEN UNCHANGED hostVars
  ELSE
  /\ IF issued \/ valid \cap Taken # {}
     THEN valid' = valid \ Taken
     ELSE \E up \in SUBSET Channels : valid \subseteq up /\ valid' = up
  /\ issued' = (~ finished /\ (issued \/ valid \cap Taken # {}))
  /\ script' = IF finished /\ ~ again THEN Tail(script) ELSE script
  /\ ret' = IF finished /\ access.kind = "wait" /\ ~ again THEN axi_rdata ELSE ret

Clock ==
  /\ \E BREADY, RREADY \in BOOLEAN : axi_lite_if(BREADY, RREADY) /\ host(BREADY, RREADY)
  /\ ideal_mem
  /\ IF mips_rst THEN ResetCpu ELSE Run(decode[mem[At(PC)]], Read_data)

TopSpec == TopInit /\ [][Clock]_topVars
-----------------------------------------------------------------------------
(* "AXI Lite IF only generates memory write requests before MIPS CPU is running"
   (mips_cpu_top.v:234): no two writes meet on the port without arbitration, nor two
   responses, and an access never finds the handshake of the one before it. *)
TopTypeOK ==
  /\ ~ WritesCollide
  /\ ~ (axi_bvalid /\ axi_rvalid)
  /\ ~ issued => ~ axi_bvalid /\ (axi_rvalid => axi_arready)
  /\ State \in 0 .. 14 /\ mem \in [0 .. MemoryWords - 1 -> Words]

(* The host is told the result that the program stored, and not what a read of the
   core was on the memory's port, or that there was one (mips_cpu_top.v:215-227,
   wait_for_finish). *)
ResultIsTrue == ret # -1 => ret = mem[FINISH] /\ ret # AllOnes

(* Seen at the ends of instructions, the core is the processor of Isa: with any
   timing of the host, each instruction does what it promises, wholly and only once,
   a reset in the middle included (mips_cpu.v). *)
Processor == INSTANCE Isa WITH
  pc <- IF State = 0 THEN PC ELSE fetched, regs <- temp, memory <- mem,
  Memories <- {image.memory : image \in Images}
CpuImplementsIsa == Processor!Spec
=============================================================================
