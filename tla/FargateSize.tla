----------------------------- MODULE FargateSize -----------------------------
(***************************************************************************)
(* The size of a Fargate task (aws/service.ts 540-596): the memory and the *)
(* cpu its containers ask for, rounded up to a size Fargate offers.        *)
(***************************************************************************)
EXTENDS Integers, Sequences

\* What a container definition adds to the task; 0 is an absent number.
MemoryOf(def) == IF def.memoryReservation # 0 THEN def.memoryReservation ELSE def.memory
CpuOf(def)    == def.cpu

\* The sums of the first numbers, by how many.
SumsOf(numbers) ==
  LET sum[n \in 0..Len(numbers)] == IF n = 0 THEN 0 ELSE sum[n - 1] + numbers[n]
  IN  sum

TotalMemory(defs) == SumsOf([i \in DOMAIN defs |-> MemoryOf(defs[i])])[Len(defs)]
TotalCpu(defs)    == SumsOf([i \in DOMAIN defs |-> CpuOf(defs[i])])[Len(defs)]

\* 512 MB or whole gigabytes: Math.ceil(mem / 1024) * 1024.
TaskMemory(mem) == IF mem <= 512 THEN 512 ELSE ((mem + 1023) \div 1024) * 1024

\* Powers of 2 from 256: all those up to a bound far above what Fargate has.
CpuValues == {256, 512, 1024, 2048, 4096, 8192, 16384, 32768, 65536}

Larger(a, b) == IF a >= b THEN a ELSE b

\* Math.pow(2, Math.ceil(Math.log2(Math.max(cpu, 256)))).
PowerOf2From(cpu) ==
  CHOOSE p \in CpuValues : p >= cpu /\ \A q \in CpuValues : q >= cpu => p <= q

\* Mutant of TaskCpu: >= for >.
TaskCpuGreedy(mem, cpu) ==
  IF mem >= 16384 THEN Larger(PowerOf2From(cpu), 4096)
  ELSE IF mem >= 8192 THEN Larger(PowerOf2From(cpu), 2048)
  ELSE IF mem >= 4096 THEN Larger(PowerOf2From(cpu), 1024)
  ELSE IF mem >= 2048 THEN Larger(PowerOf2From(cpu), 512)
  ELSE PowerOf2From(cpu)

\* The cpu for a task of mem (rounded) whose containers ask for cpu.
TaskCpu(mem, cpu) ==
  IF mem > 16384 THEN Larger(PowerOf2From(cpu), 4096)
  ELSE IF mem > 8192 THEN Larger(PowerOf2From(cpu), 2048)
  ELSE IF mem > 4096 THEN Larger(PowerOf2From(cpu), 1024)
  ELSE IF mem > 2048 THEN Larger(PowerOf2From(cpu), 512)
  ELSE PowerOf2From(cpu)

\* The size written into the task definition.
TaskMemoryAndCpu(defs) ==
  LET mem == TaskMemory(TotalMemory(defs))
  IN  [memory |-> mem, cpu |-> TaskCpu(mem, TotalCpu(defs))]

-----------------------------------------------------------------------------
\* The combinations Fargate offers (the page the code's comment cites).
GB(n) == n * 1024
Offered(size) ==
  \/ size.cpu = 256  /\ size.memory \in {512, GB(1), GB(2)}
  \/ size.cpu = 512  /\ size.memory \in {GB(n) : n \in 1..4}
  \/ size.cpu = 1024 /\ size.memory \in {GB(n) : n \in 2..8}
  \/ size.cpu = 2048 /\ size.memory \in {GB(n) : n \in 4..16}
  \/ size.cpu = 4096 /\ size.memory \in {GB(n) : n \in 8..30}

\* The least and the most memory Fargate offers with a cpu value it offers.
LeastMemory(cpu) == 2 * cpu
MostMemory(cpu) == IF cpu >= 4096 THEN GB(30) ELSE 8 * cpu
=============================================================================
