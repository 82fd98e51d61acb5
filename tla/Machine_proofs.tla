--------------------------- MODULE Machine_proofs ---------------------------
(***************************************************************************)
(* A sleeper wakes in time, interrupts of the timer come exactly a period  *)
(* apart and bytes go out on time: for all rates of the processor and the  *)
(* timer that fit into each other and into the clock, all widths of the    *)
(* registers, and whatever the devices and the program do.                 *)
(***************************************************************************)
EXTENDS Machine, TLAPS

\* Division with remainder.
LEMMA Remainders ==
    ASSUME NEW a \in Nat, NEW d \in Nat \ {0}
    PROVE  /\ a \div d \in Nat /\ a % d \in 0 .. d - 1
           /\ a = (d * (a \div d)) + (a % d)
  OBVIOUS

LEMMA Rests ==
    ASSUME NEW a \in Nat, NEW d \in Nat \ {0}
    PROVE  a % d \in 0 .. d - 1
  OBVIOUS

\* There is only one rest below the divisor.
LEMMA Unique ==
    ASSUME NEW k \in Int, NEW d \in Nat \ {0}, NEW p \in 0 .. d - 1
    PROVE  ((d * k) + p) % d = p
  <1> DEFINE a == (d * k) + p
             q == a \div d
             r == a % d
  <1>1. q \in Int /\ r \in 0 .. d - 1 /\ (d * k) + p = (d * q) + r
    OBVIOUS
  <1> HIDE DEF q, r
  <1>2. d * (k - q) = r - p
    BY <1>1
  <1>3. k - q <= 0
    <2>1. SUFFICES ASSUME k - q >= 1 PROVE FALSE
      BY <1>1
    <2>2. d * (k - q) >= d
      BY <1>1, <2>1
    <2> QED
      BY <1>1, <1>2, <2>2
  <1>4. k - q >= 0
    <2>1. SUFFICES ASSUME k - q <= -1 PROVE FALSE
      BY <1>1
    <2>2. d * (k - q) <= -d
      BY <1>1, <2>1
    <2> QED
      BY <1>1, <1>2, <2>2
  <1>5. r = p
    BY <1>1, <1>2, <1>3, <1>4
  <1> QED
    BY <1>5 DEF r

\* A quotient and the rest to it are the only ones.
LEMMA UniqueQuotient ==
    ASSUME NEW k \in Nat, NEW d \in Nat \ {0}, NEW p \in 0 .. d - 1
    PROVE  ((d * k) + p) \div d = k
  <1> DEFINE a == (d * k) + p
             q == a \div d
             r == a % d
  <1>1. a \in Nat /\ d * k \in Nat
    <2>1. d * k \in Nat
      OBVIOUS
    <2> QED
      BY <2>1
  <1>2. q \in Nat /\ r \in 0 .. d - 1 /\ a = (d * q) + r
    BY <1>1, Remainders
  <1>3. r = p
    BY Unique
  <1> HIDE DEF q, r
  <1>4. d * (k - q) = 0
    BY <1>2, <1>3
  <1>5. k = q
    BY <1>2, <1>4
  <1> QED
    BY <1>5 DEF q

\* The rest of a negative number.
LEMMA NegativeRest ==
    ASSUME NEW a \in Nat, NEW d \in Nat \ {0}
    PROVE  (-a) % d = IF a % d = 0 THEN 0 ELSE d - (a % d)
  <1> DEFINE q == a \div d
             r == a % d
  <1>1. q \in Nat /\ r \in 0 .. d - 1 /\ a = (d * q) + r
    BY Remainders
  <1> HIDE DEF q, r
  <1>2. d * (-q) = -(d * q) /\ d * (-q - 1) = -(d * q) - d /\ d * q \in Nat
    BY <1>1
  <1>3. CASE r = 0
    <2>1. -a = (d * (-q)) + 0 /\ 0 \in 0 .. d - 1 /\ -q \in Int
      BY <1>1, <1>2, <1>3
    <2>2. ((d * (-q)) + 0) % d = 0
      BY <2>1, Unique
    <2> QED
      BY <1>3, <2>1, <2>2 DEF r
  <1>4. CASE r # 0
    <2>1. -a = (d * (-q - 1)) + (d - r) /\ d - r \in 0 .. d - 1 /\ -q - 1 \in Int
      BY <1>1, <1>2, <1>4
    <2>2. ((d * (-q - 1)) + (d - r)) % d = d - r
      BY <2>1, Unique
    <2> QED
      BY <1>4, <2>1, <2>2 DEF r
  <1> QED
    BY <1>3, <1>4

\* What divides a divisor divides.
LEMMA Divides ==
    ASSUME NEW a \in Nat, NEW b \in Nat \ {0}, NEW c \in Nat \ {0}, a % b = 0, b % c = 0
    PROVE  a % c = 0
  <1> DEFINE m == a \div b
             n == b \div c
  <1>1. m \in Nat /\ a = (b * m) + (a % b)
    BY Remainders
  <1>2. n \in Nat /\ b = (c * n) + (b % c)
    BY Remainders
  <1> HIDE DEF m, n
  <1>3. n * m \in Nat /\ b * m \in Nat /\ c * n \in Nat /\ c * (n * m) = (c * n) * m
    BY <1>1, <1>2
  <1>4. a = b * m /\ b = c * n
    BY <1>1, <1>2, <1>3
  <1>5. a = (c * (n * m)) + 0
    BY <1>3, <1>4
  <1>6. 0 \in 0 .. c - 1 /\ n * m \in Int
    BY <1>3
  <1>7. ((c * (n * m)) + 0) % c = 0
    BY <1>6, Unique
  <1> QED
    BY <1>5, <1>7, Zenon

\* The rest of the next number.
LEMMA NextRest ==
    ASSUME NEW a \in Nat, NEW d \in Nat \ {0}
    PROVE  (a + 1) % d = IF a % d = d - 1 THEN 0 ELSE (a % d) + 1
  <1> DEFINE q == a \div d
             r == a % d
  <1>1. q \in Nat /\ r \in 0 .. d - 1 /\ a = (d * q) + r
    BY Remainders
  <1> HIDE DEF q, r
  <1>2. d * q \in Nat /\ d * (q + 1) = (d * q) + d /\ q + 1 \in Nat
    BY <1>1
  <1>3. CASE r = d - 1
    <2>1. a + 1 = (d * (q + 1)) + 0 /\ 0 \in 0 .. d - 1
      BY <1>1, <1>2, <1>3
    <2>2. ((d * (q + 1)) + 0) % d = 0
      BY <1>2, <2>1, Unique
    <2> QED
      BY <1>3, <2>1, <2>2 DEF r
  <1>4. CASE r # d - 1
    <2>1. a + 1 = (d * q) + (r + 1) /\ r + 1 \in 0 .. d - 1
      BY <1>1, <1>2, <1>4
    <2>2. ((d * q) + (r + 1)) % d = r + 1
      BY <1>1, <2>1, Unique
    <2> QED
      BY <1>4, <2>1, <2>2 DEF r
  <1> QED
    BY <1>3, <1>4

-----------------------------------------------------------------------------
(* The inductive invariant *)

\* Ticks since the processor's last turn, before this tick.
Since(n) == IF n % CpuEvery = 0 THEN CpuEvery - 1 ELSE (n % CpuEvery) - 1

\* A sleeper has waited since the last turn at most, since it has not rested from
\* an instruction then; when the timer's interrupt comes, it is its turn.
InTime ==
    /\ t \in 0 .. 2 * Burst - 1
    /\ turn = "cpu" => CpuTurn
    /\ halt => busy = 0
    /\ late \in Nat /\ late <= Since(t)
    /\ did = "irq" /\ turn = "devices" => late = 0

\* The turns of the next tick, the wrap of the clock included.
LEMMA LaterTurns ==
    ASSUME t \in 0 .. 2 * Burst - 1
    PROVE  /\ Later \in 0 .. 2 * Burst - 1
           /\ t % CpuEvery \in 0 .. CpuEvery - 1
           /\ Later % CpuEvery = IF t % CpuEvery = CpuEvery - 1 THEN 0 ELSE (t % CpuEvery) + 1
  <1>1. t \in Nat /\ CpuEvery \in Nat \ {0} /\ 2 * Burst \in Nat \ {0}
    BY RateAssumption
  <1>2. Later \in 0 .. 2 * Burst - 1
    BY <1>1 DEF Later, Inc
  <1>3. (t + 1) % CpuEvery = IF t % CpuEvery = CpuEvery - 1 THEN 0 ELSE (t % CpuEvery) + 1
    BY <1>1, NextRest
  <1>4. (2 * Burst) % CpuEvery = 0
    BY <1>1, Divides, RateAssumption
  <1>5. 0 % CpuEvery = 0
    BY <1>1
  <1>6. Later % CpuEvery = (t + 1) % CpuEvery
    BY <1>4, <1>5, Zenon DEF Later, Inc
  <1>7. t % CpuEvery \in 0 .. CpuEvery - 1
    BY <1>1, Rests
  <1> QED
    BY <1>2, <1>3, <1>6, <1>7

LEMMA SinceNat == \A n \in 0 .. 2 * Burst - 1 : 0 <= Since(n)
  <1> SUFFICES ASSUME NEW n \in 0 .. 2 * Burst - 1 PROVE 0 <= Since(n)
    OBVIOUS
  <1>1. n \in Nat /\ CpuEvery \in Nat \ {0}
    BY RateAssumption
  <1>2. n % CpuEvery \in 0 .. CpuEvery - 1
    BY <1>1, Rests
  <1> QED
    BY <1>1, <1>2 DEF Since

\* Nobody sleeps through a turn of the processor.
LEMMA CpuKeeps == ASSUME InTime, Cpu PROVE InTime'
  <1>1. late' = 0
    <2>1. CASE Rest /\ late' = Waited
      <3>1. ~halt
        BY <2>1 DEF Rest, InTime
      <3> QED
        BY <2>1, <3>1 DEF Waited
    <2>2. CASE Sleep /\ late' = Waited
      <3>1. Pending = {} /\ requested' = requested /\ enabled' = enabled
        BY <2>2 DEF Sleep, Sleeps
      <3>2. requested' \cap enabled' = {}
        BY <3>1 DEF Pending
      <3> QED
        BY <2>2, <3>2 DEF Waited
    <2>3. CASE late' = 0
      BY <2>3
    <2> QED
      BY <2>1, <2>2, <2>3 DEF Cpu
  <1>2. halt' => busy' = 0
    <2>1. CASE Rest
      BY <2>1 DEF Rest, InTime
    <2>2. CASE Sleep
      BY <2>2 DEF Sleep, Spend
    <2>3. CASE Dispatch
      BY <2>3 DEF Dispatch
    <2>4. CASE Instruction
      BY <2>4 DEF Instruction, Compute, SetMaster, Halt, WriteIE, WriteIF, WriteTimer,
                  WriteSC, Spend
    <2> QED
      BY <2>1, <2>2, <2>3, <2>4 DEF Cpu
  <1>3. t' = Later /\ turn' = "devices"
    BY DEF Cpu
  <1>4. t' \in 0 .. 2 * Burst - 1
    BY <1>3, LaterTurns DEF InTime
  <1>5. 0 <= Since(t)'
    BY <1>4, SinceNat, Zenon DEF Since
  <1> QED
    BY <1>1, <1>2, <1>3, <1>4, <1>5 DEF InTime

\* Between two turns a sleeper waits a tick longer with every tick.
LEMMA DevicesKeep == ASSUME InTime, Devices PROVE InTime'
  <1>1. busy' = busy /\ halt' = halt
    BY DEF Devices, cpu
  <1>2. CASE CpuTurn
    <2>1. turn' = "cpu" /\ t' = t /\ late' = late
      BY <1>2 DEF Devices
    <2> QED
      BY <1>1, <1>2, <2>1 DEF InTime, CpuTurn, Since
  <1>3. CASE ~CpuTurn
    <2>1. turn' = "devices" /\ t' = Later /\ late' = Waited
      BY <1>3 DEF Devices
    <2>2. late' \in Nat /\ late' <= late + 1
      BY <2>1 DEF Waited, InTime
    <2>3. late' <= Since(t)'
      <3>1. Since(t)' = t % CpuEvery
        BY <1>3, <2>1, LaterTurns, RateAssumption DEF Since, CpuTurn, InTime
      <3>2. late <= (t % CpuEvery) - 1 /\ t % CpuEvery \in Nat
        BY <1>3, LaterTurns DEF InTime, Since, CpuTurn
      <3> QED
        BY <2>2, <3>1, <3>2 DEF InTime
    <2>4. did' # "irq"
      <3>1. ~TimerTurn
        <4>1. t \in Nat
          BY RateAssumption DEF InTime
        <4> QED
          BY <1>3, <4>1, Divides, RateAssumption DEF TimerTurn, CpuTurn
      <3> QED
        BY <3>1 DEF Devices, TimerTick
    <2>5. t' \in 0 .. 2 * Burst - 1
      BY <2>1, LaterTurns DEF InTime
    <2> QED
      BY <1>1, <2>1, <2>2, <2>3, <2>4, <2>5 DEF InTime
  <1> QED
    BY <1>2, <1>3

\* A processor in HALT wakes within one of its turns after an enabled request, and on
\* the tick of the overflow when the request is the timer's.
THEOREM SleepersWake == MachineSpec => []SleeperWakesInTime
  <1>1. MachineInit => InTime
    <2> SUFFICES ASSUME MachineInit PROVE InTime
      OBVIOUS
    <2>1. t \in 0 .. 2 * Burst - 1 /\ late = 0 /\ turn = "devices" /\ ~halt
      BY RateAssumption DEF MachineInit
    <2>2. 0 <= Since(t)
      BY <2>1, SinceNat
    <2> QED
      BY <2>1, <2>2 DEF InTime
  <1>2. InTime /\ [MachineNext]_machineVars => InTime'
    <2> SUFFICES ASSUME InTime, [MachineNext]_machineVars PROVE InTime'
      OBVIOUS
    <2>1. CASE UNCHANGED machineVars
      BY <2>1 DEF InTime, machineVars, clock, cpu, vars, CpuTurn, Since
    <2> QED
      BY <2>1, CpuKeeps, DevicesKeep DEF MachineNext
  <1>3. InTime => SleeperWakesInTime
    <2> SUFFICES ASSUME InTime PROVE SleeperWakesInTime
      OBVIOUS
    <2>1. late < CpuEvery
      <3>1. t % CpuEvery \in 0 .. CpuEvery - 1
        BY LaterTurns DEF InTime
      <3> QED
        BY <3>1, RateAssumption DEF InTime, Since
    <2> QED
      BY <2>1 DEF InTime, SleeperWakesInTime
  <1> QED
    BY <1>1, <1>2, <1>3, PTL DEF MachineSpec

-----------------------------------------------------------------------------
(* The time to the timer's interrupt *)

\* The registers of the timer stay in their ranges.
Ranges ==
    /\ fulldiv \in 0 .. FullMod - 1 /\ tima \in Counter /\ tma \in Counter
    /\ tac \in [on : BOOLEAN, sel : Select]

\* A bit of the divider is set in the upper half of its period.
LEMMA BitIsSet ==
    ASSUME NEW f \in Nat, NEW b \in Nat \ {0}
    PROVE  IsSet(f, b) <=> f % (2 * b) >= b
  <1> DEFINE w == 2 * b
             q == f \div w
             x == f % w
  <1>1. w \in Nat \ {0} /\ w = b + b
    OBVIOUS
  <1>2. q \in Nat /\ x \in 0 .. w - 1 /\ f = (w * q) + x
    BY <1>1, Remainders
  <1> HIDE DEF q, x
  <1>3. w * q = b * (2 * q) /\ b * (2 * q + 1) = b * (2 * q) + b /\ b * (2 * q) \in Nat
        /\ 2 * q \in Nat /\ 2 * q + 1 \in Nat
    BY <1>2
  <1> HIDE DEF w
  <1>4. CASE x < b
    <2>1. f = (b * (2 * q)) + x /\ x \in 0 .. b - 1
      BY <1>1, <1>2, <1>3, <1>4
    <2>2. f \div b = 2 * q
      BY <1>3, <2>1, UniqueQuotient
    <2>3. (2 * q) % 2 = 0
      BY <1>2
    <2> QED
      BY <1>1, <1>2, <1>4, <2>2, <2>3 DEF IsSet, x, w
  <1>5. CASE ~ (x < b)
    <2>1. f = (b * (2 * q + 1)) + (x - b) /\ x - b \in 0 .. b - 1
      BY <1>1, <1>2, <1>3, <1>5
    <2>2. f \div b = 2 * q + 1
      BY <1>3, <2>1, UniqueQuotient
    <2>3. (2 * q + 1) % 2 = 1
      BY <1>2
    <2> QED
      BY <1>1, <1>2, <1>5, <2>2, <2>3 DEF IsSet, x, w
  <1> QED
    BY <1>4, <1>5

\* Ticks to the next edge of a bit of weight b, from place x of its period.
EdgeIn(x, b) == IF x < b THEN b - x ELSE 3 * b - x

LEMMA ToEdgeIs ==
    ASSUME NEW f \in Nat, NEW b \in Nat \ {0}
    PROVE  ((b - f - 1) % (2 * b)) + 1 = EdgeIn(f % (2 * b), b)
  <1> DEFINE w == 2 * b
             q == f \div w
             x == f % w
  <1>1. w \in Nat \ {0} /\ w = b + b
    OBVIOUS
  <1>2. q \in Nat /\ x \in 0 .. w - 1 /\ f = (w * q) + x
    BY <1>1, Remainders
  <1> HIDE DEF q, x, w
  <1>3. w * (-q) = -(w * q) /\ w * (-q - 1) = -(w * q) - w /\ w * q \in Nat
        /\ -q \in Int /\ -q - 1 \in Int
    BY <1>1, <1>2
  <1>4. CASE x < b
    <2>1. b - f - 1 = (w * (-q)) + (b - 1 - x) /\ b - 1 - x \in 0 .. w - 1
      BY <1>1, <1>2, <1>3, <1>4
    <2>2. (b - f - 1) % w = b - 1 - x
      BY <1>1, <1>3, <2>1, Unique
    <2>3. EdgeIn(x, b) = b - x /\ (b - 1 - x) + 1 = b - x
      BY <1>1, <1>2, <1>4 DEF EdgeIn
    <2> QED
      BY <2>2, <2>3, Zenon DEF x, w
  <1>5. CASE ~ (x < b)
    <2>1. b - f - 1 = (w * (-q - 1)) + (3 * b - 1 - x) /\ 3 * b - 1 - x \in 0 .. w - 1
      BY <1>1, <1>2, <1>3, <1>5
    <2>2. (b - f - 1) % w = 3 * b - 1 - x
      BY <1>1, <1>3, <2>1, Unique
    <2>3. EdgeIn(x, b) = 3 * b - x /\ (3 * b - 1 - x) + 1 = 3 * b - x
      BY <1>1, <1>2, <1>5 DEF EdgeIn
    <2> QED
      BY <2>2, <2>3, Zenon DEF x, w
  <1> QED
    BY <1>4, <1>5

\* The rate in force: the weight of the bit the timer counts and its place.
Weight == Bit[tac.sel]
Place == fulldiv % Width

\* Edges come when the place reaches the weight of the bit.
LEMMA Places ==
    ASSUME Ranges
    PROVE  /\ Weight \in Nat \ {0} /\ Width = 2 * Weight /\ Width \in Nat \ {0}
           /\ Place \in 0 .. Width - 1 /\ FullMod % Width = 0
           /\ ToEdge = EdgeIn(Place, Weight)
  <1>1. tac.sel \in Select /\ fulldiv \in Nat
    BY DEF Ranges
  <1>2. Weight \in Nat \ {0} /\ Width = 2 * Weight
    BY <1>1, WidthAssumption, Zenon DEF Weight, Width
  <1>3. Width \in Nat \ {0}
    BY <1>2
  <1>4. Place \in 0 .. Width - 1
    BY <1>1, <1>3, Rests DEF Place
  <1>5. FullMod % Width = 0
    BY <1>1, WidthAssumption, Zenon DEF Width
  <1>6. ((Weight - fulldiv - 1) % (2 * Weight)) + 1 = EdgeIn(fulldiv % (2 * Weight), Weight)
    BY <1>1, <1>2, ToEdgeIs
  <1>7. ToEdge = EdgeIn(Place, Weight)
    BY <1>2, <1>6, Zenon DEF ToEdge, Weight, Place
  <1> QED
    BY <1>2, <1>3, <1>4, <1>5, <1>7

\* A tick of the timer moves the place by one, the wrap of the divider included.
LEMMA PlaceMoves ==
    ASSUME Ranges
    PROVE  /\ Inc(fulldiv, FullMod) \in 0 .. FullMod - 1
           /\ Inc(fulldiv, FullMod) % Width = IF Place = Width - 1 THEN 0 ELSE Place + 1
  <1>1. fulldiv \in Nat /\ FullMod \in Nat \ {0} /\ Width \in Nat \ {0} /\ FullMod % Width = 0
    BY Places, WidthAssumption DEF Ranges
  <1>2. Inc(fulldiv, FullMod) \in 0 .. FullMod - 1
    BY <1>1 DEF Inc, Ranges
  <1>3. (fulldiv + 1) % Width = IF Place = Width - 1 THEN 0 ELSE Place + 1
    BY <1>1, NextRest, Zenon DEF Place
  <1>4. 0 % Width = 0
    BY <1>1
  <1>5. Inc(fulldiv, FullMod) % Width = (fulldiv + 1) % Width
    BY <1>1, <1>4, Zenon DEF Inc
  <1> QED
    BY <1>2, <1>3, <1>5

\* The timer counts an edge when the place reaches the weight of the bit.
LEMMA EdgeAtWeight ==
    ASSUME Ranges
    PROVE  Edge(fulldiv, Inc(fulldiv, FullMod)) <=> tac.on /\ Place = Weight - 1
  <1> DEFINE next == Inc(fulldiv, FullMod)
  <1>1. fulldiv \in Nat /\ next \in Nat
    BY PlaceMoves DEF Ranges
  <1>2. Weight \in Nat \ {0} /\ Width = 2 * Weight /\ Place \in 0 .. Width - 1
    BY Places
  <1>3. IsSet(fulldiv, Weight) <=> Place >= Weight
    BY <1>1, <1>2, BitIsSet DEF Place
  <1>4. next % Width = IF Place = Width - 1 THEN 0 ELSE Place + 1
    BY PlaceMoves
  <1> HIDE DEF next
  <1>5. IsSet(next, Weight) <=> next % Width >= Weight
    BY <1>1, <1>2, BitIsSet
  <1>6. IsSet(next, Weight) /\ ~IsSet(fulldiv, Weight) <=> Place = Weight - 1
    BY <1>2, <1>3, <1>4, <1>5
  <1> QED
    BY <1>6, Zenon DEF Edge, next, Weight

\* Ticks of the timer until its interrupt.
Turns == (TimaMod - 1 - tima) * Width + ToEdge

\* A multiple of a width, one more, and its bounds.
LEMMA Multiples ==
    ASSUME NEW m \in Nat, NEW w \in Nat \ {0}
    PROVE  m * w \in Nat /\ (m + 1) * w = (m * w) + w
  OBVIOUS

LEMMA TurnsPositive ==
    ASSUME Ranges
    PROVE  Turns \in Nat \ {0} /\ ToEdge \in 1 .. Width /\ tima \in Counter
  <1>1. ToEdge \in 1 .. Width
    BY Places DEF EdgeIn
  <1>2. tima \in Counter /\ TimaMod - 1 - tima \in Nat /\ Width \in Nat \ {0}
    BY Places, WidthAssumption DEF Ranges, Counter
  <1> DEFINE m == TimaMod - 1 - tima
  <1>3. m * Width \in Nat
    BY <1>2, Multiples
  <1> HIDE DEF m
  <1> QED
    BY <1>1, <1>2, <1>3 DEF Turns, m

\* A tick of a timer that is on brings the interrupt one turn nearer, or it raises it
\* and starts a whole period.
LEMMA TurnsCount ==
    ASSUME Ranges, Tick, tac.on
    PROVE  IF Turns = 1 THEN did' = "irq" /\ Turns' = (TimaMod - tma) * Width
           ELSE did' = "tick" /\ Turns' = Turns - 1
  <1> DEFINE edge == Place = Weight - 1
             over == edge /\ Inc(tima, TimaMod) = 0
  <1>1. /\ fulldiv' = Inc(fulldiv, FullMod)
        /\ tima' = IF over THEN tma ELSE IF edge THEN Inc(tima, TimaMod) ELSE tima
        /\ did' = IF over THEN "irq" ELSE "tick"
        /\ tma' = tma /\ tac' = tac
    BY EdgeAtWeight, Zenon DEF Tick
  <1>2. Width' = Width /\ Weight' = Weight
    BY <1>1, Zenon DEF Width, Weight
  <1>3. Place' = IF Place = Width - 1 THEN 0 ELSE Place + 1
    <2>1. Place' = Inc(fulldiv, FullMod) % Width
      BY <1>1, <1>2, Zenon DEF Place
    <2> QED
      BY <2>1, PlaceMoves, Zenon
  <1>4. fulldiv' \in Nat /\ Weight \in Nat \ {0} /\ Width = 2 * Weight
        /\ Place \in 0 .. Width - 1 /\ ToEdge = EdgeIn(Place, Weight)
    BY <1>1, PlaceMoves, Places
  <1>5. ToEdge' = EdgeIn(Place', Weight)
    <2>1. ((Weight - fulldiv' - 1) % (2 * Weight)) + 1 = EdgeIn(fulldiv' % (2 * Weight), Weight)
      BY <1>4, ToEdgeIs
    <2>2. ToEdge' = ((Weight' - fulldiv' - 1) % Width') + 1 /\ Place' = fulldiv' % Width'
      BY Zenon DEF ToEdge, Weight, Place
    <2> QED
      BY <1>2, <1>4, <2>1, <2>2, Zenon
  <1>6. ToEdge' = IF edge THEN Width ELSE ToEdge - 1
    BY <1>3, <1>4, <1>5 DEF EdgeIn
  <1>7. edge <=> ToEdge = 1
    BY <1>4 DEF EdgeIn
  <1>8. TimaMod \in Nat /\ tima \in Counter /\ tma \in Counter
    BY WidthAssumption DEF Ranges
  <1>9. Turns' = (TimaMod - 1 - tima') * Width + ToEdge'
    BY <1>2, Zenon DEF Turns
  <1> HIDE DEF edge
  <1>10. CASE ~edge
    <2>1. tima' = tima /\ did' = "tick" /\ ToEdge' = ToEdge - 1 /\ ToEdge # 1
      BY <1>1, <1>6, <1>7, <1>10
    <2> DEFINE high == (TimaMod - 1 - tima) * Width
    <2>2. high \in Nat /\ ToEdge \in 1 .. Width
      <3>1. TimaMod - 1 - tima \in Nat /\ Width \in Nat \ {0}
        BY <1>4, <1>8 DEF Counter
      <3> QED
        BY <3>1, TurnsPositive, Multiples
    <2>3. Turns = high + ToEdge /\ Turns' = high + (ToEdge - 1)
      BY <1>9, <2>1, Zenon DEF Turns
    <2> HIDE DEF high
    <2> QED
      BY <2>1, <2>2, <2>3
  <1>11. CASE edge /\ tima = TimaMod - 1
    <2>1. over
      BY <1>8, <1>11 DEF Counter, Inc
    <2>2. tima' = tma /\ did' = "irq" /\ ToEdge' = Width /\ ToEdge = 1
      BY <1>1, <1>6, <1>7, <1>11, <2>1
    <2>3. Turns = 1
      <3>1. TimaMod - 1 - tima = 0 /\ 0 * Width = 0 /\ Width \in Nat
        BY <1>4, <1>8, <1>11
      <3> QED
        BY <2>2, <3>1 DEF Turns
    <2>4. TimaMod - 1 - tma \in Nat /\ Width \in Nat \ {0} /\ (TimaMod - 1 - tma) + 1 = TimaMod - tma
      BY <1>4, <1>8 DEF Counter
    <2>5. (TimaMod - tma) * Width = (TimaMod - 1 - tma) * Width + Width
      BY <2>4, Multiples, Zenon
    <2> QED
      BY <1>9, <2>2, <2>3, <2>5, Zenon
  <1>12. CASE edge /\ tima # TimaMod - 1
    <2>1. ~over /\ Inc(tima, TimaMod) = tima + 1
      BY <1>8, <1>12 DEF Counter, Inc
    <2>2. tima' = tima + 1 /\ did' = "tick" /\ ToEdge' = Width /\ ToEdge = 1
      BY <1>1, <1>6, <1>7, <1>12, <2>1
    <2> DEFINE m == TimaMod - 1 - (tima + 1)
               high == m * Width
    <2>3. m \in Nat /\ Width \in Nat \ {0} /\ TimaMod - 1 - tima = m + 1
      BY <1>4, <1>8, <1>12 DEF Counter
    <2>4. high \in Nat /\ (m + 1) * Width = high + Width
      <3> HIDE DEF m
      <3> QED
        BY <2>3, Multiples
    <2>5. Turns = (high + Width) + 1 /\ Turns' = high + Width
      BY <1>9, <2>2, <2>3, <2>4, Zenon DEF Turns
    <2> HIDE DEF high, m
    <2> QED
      BY <2>2, <2>3, <2>4, <2>5
  <1> QED
    BY <1>10, <1>11, <1>12, Zenon

-----------------------------------------------------------------------------
(* The timer on the clock of the machine *)

\* The registers, the clock and the bits of the serial port stay in their ranges.
Ready ==
    /\ Ranges
    /\ t \in 0 .. 2 * Burst - 1 /\ turn \in {"devices", "cpu"}
    /\ bits \in 0 .. ByteBits

LEMMA TickKeepsRanges == ASSUME Ranges, Tick PROVE Ranges'
  <1>1. fulldiv' = Inc(fulldiv, FullMod) /\ tma' = tma /\ tac' = tac
        /\ tima' \in {tma, Inc(tima, TimaMod), tima}
    BY Zenon DEF Tick
  <1>2. fulldiv' \in 0 .. FullMod - 1
    BY <1>1, PlaceMoves
  <1>3. tima \in Counter /\ tma \in Counter
    BY DEF Ranges
  <1>4. Inc(tima, TimaMod) \in Counter
    BY <1>3, WidthAssumption DEF Counter, Inc
  <1> QED
    BY <1>1, <1>2, <1>3, <1>4, Zenon DEF Ranges, Counter

LEMMA WriteKeepsRanges == ASSUME Ranges, Write PROVE Ranges'
  <1>1. CASE \E v \in Counter : WriteTIMA(v) \/ WriteTMA(v)
    BY <1>1, Zenon DEF Ranges, WriteTIMA, WriteTMA, Counter
  <1>2. CASE \E on \in BOOLEAN, sel \in Select : WriteTAC(on, sel)
    <2>1. PICK on \in BOOLEAN, sel \in Select : WriteTAC(on, sel)
      BY <1>2
    <2>2. tac' \in [on : BOOLEAN, sel : Select]
      BY <2>1 DEF WriteTAC
    <2> QED
      BY <2>1, <2>2, Zenon DEF Ranges, WriteTAC, Counter
  <1>3. CASE WriteDIV
    <2>1. fulldiv' \in 0 .. FullMod - 1
      BY <1>3, WidthAssumption DEF WriteDIV
    <2> QED
      BY <1>3, <2>1, Zenon DEF Ranges, WriteDIV, Counter
  <1> QED
    BY <1>1, <1>2, <1>3 DEF Write

LEMMA DevicesKeepReady == ASSUME Ready, Devices PROVE Ready'
  <1>1. Ranges'
    <2>1. CASE TimerTurn
      BY <2>1, TickKeepsRanges DEF Devices, TimerTick, Ready
    <2>2. CASE ~TimerTurn
      BY <2>2, Zenon DEF Devices, TimerTick, Ready, Ranges, Counter
    <2> QED
      BY <2>1, <2>2
  <1>2. bits' \in 0 .. ByteBits
    BY RateAssumption DEF Ready, Devices, SerialTick
  <1>3. t' \in 0 .. 2 * Burst - 1 /\ turn' \in {"devices", "cpu"}
    BY LaterTurns DEF Ready, Devices
  <1> QED
    BY <1>1, <1>2, <1>3 DEF Ready

\* What a turn of the processor does to the timer and to the serial port.
LEMMA CpuWrites ==
    ASSUME Cpu
    PROVE  \/ UNCHANGED <<vars, bits>>
           \/ Write /\ bits' = bits
           \/ /\ bits' \in {0, ByteBits} /\ did' = "shift"
              /\ UNCHANGED <<fulldiv, tima, tma, tac>>
  <1>1. CASE Rest
    BY <1>1 DEF Rest
  <1>2. CASE Sleep
    BY <1>2 DEF Sleep
  <1>3. CASE Dispatch
    BY <1>3 DEF Dispatch
  <1>4. CASE Instruction
    BY <1>4 DEF Instruction, Compute, SetMaster, Halt, WriteIE, WriteIF, WriteTimer, WriteSC
  <1> QED
    BY <1>1, <1>2, <1>3, <1>4 DEF Cpu

LEMMA CpuKeepsReady == ASSUME Ready, Cpu PROVE Ready'
  <1>1. Ranges' /\ bits' \in 0 .. ByteBits
    <2>1. CASE UNCHANGED <<vars, bits>>
      BY <2>1, Zenon DEF Ready, Ranges, Counter, vars
    <2>2. CASE Write /\ bits' = bits
      BY <2>2, WriteKeepsRanges DEF Ready
    <2>3. CASE bits' \in {0, ByteBits} /\ UNCHANGED <<fulldiv, tima, tma, tac>>
      <3>1. Ranges'
        BY <2>3, Zenon DEF Ready, Ranges, Counter
      <3> QED
        BY <2>3, <3>1, RateAssumption
    <2> QED
      BY <2>1, <2>2, <2>3, CpuWrites
  <1>2. t' \in 0 .. 2 * Burst - 1 /\ turn' = "devices"
    BY LaterTurns DEF Ready, Cpu
  <1> QED
    BY <1>1, <1>2 DEF Ready

LEMMA ReadyStays ==
    /\ MachineInit => Ready
    /\ Ready /\ [MachineNext]_machineVars => Ready'
  <1>1. ASSUME MachineInit PROVE Ready
    <2>1. fulldiv = 0 /\ tima = 0 /\ tma = 0 /\ tac = [on |-> FALSE, sel |-> 0]
          /\ t = 0 /\ turn = "devices" /\ bits = 0
      BY <1>1 DEF MachineInit, Init
    <2>2. tac \in [on : BOOLEAN, sel : Select]
      BY <2>1 DEF Select
    <2> QED
      BY <2>1, <2>2, WidthAssumption, RateAssumption DEF Ready, Ranges, Counter
  <1>2. ASSUME Ready, [MachineNext]_machineVars PROVE Ready'
    <2>1. CASE UNCHANGED machineVars
      BY <1>2, <2>1, Zenon DEF Ready, Ranges, Counter, machineVars, vars, clock
    <2> QED
      BY <1>2, <2>1, DevicesKeepReady, CpuKeepsReady DEF MachineNext
  <1> QED
    BY <1>1, <1>2

\* The clock moves on by one with the devices, and a turn of the processor on the way
\* to the next tick leaves Now where it is, to every rate that fits into the clock.
LEMMA NowMoves ==
    ASSUME Ready, NEW k \in Nat \ {0}, (2 * Burst) % k = 0
    PROVE  /\ Now \in Nat
           /\ Devices => Now = t /\ Now' \in Nat /\ Now' % k = (Now + 1) % k
           /\ Cpu => Now' \in Nat /\ Now' % k = Now % k
  <1>1. t \in Nat /\ t + 1 \in Nat /\ Later \in Nat
    BY LaterTurns, RateAssumption DEF Ready
  <1>2. Later % k = (t + 1) % k
    <2>1. 0 % k = 0
      OBVIOUS
    <2> QED
      BY <2>1, Zenon DEF Later, Inc
  <1>3. ASSUME Devices PROVE Now = t /\ Now' \in {t + 1, Later}
    BY <1>3 DEF Devices, Now, Ready
  <1>4. ASSUME Cpu PROVE Now = t + 1 /\ Now' = Later
    BY <1>4 DEF Cpu, Now
  <1>5. Now \in Nat
    BY <1>1 DEF Now
  <1> QED
    BY <1>1, <1>2, <1>3, <1>4, <1>5, Zenon

\* Ticks from n until the timer's turn.
Until(n) == (-n) % TimerEvery

LEMMA UntilNext ==
    ASSUME NEW n \in Nat, NEW m \in Nat
    PROVE  /\ Until(n) \in 0 .. TimerEvery - 1
           /\ n % TimerEvery = 0 <=> Until(n) = 0
           /\ m % TimerEvery = n % TimerEvery => Until(m) = Until(n)
           /\ m % TimerEvery = (n + 1) % TimerEvery =>
                  Until(m) = IF Until(n) = 0 THEN TimerEvery - 1 ELSE Until(n) - 1
  <1> DEFINE d == TimerEvery
  <1>1. d \in Nat \ {0}
    BY RateAssumption
  <1>2. Until(n) = (IF n % d = 0 THEN 0 ELSE d - (n % d))
        /\ Until(m) = (IF m % d = 0 THEN 0 ELSE d - (m % d))
    BY <1>1, NegativeRest, Zenon DEF Until
  <1>3. n % d \in 0 .. d - 1 /\ m % d \in 0 .. d - 1
    BY <1>1, Rests
  <1>4. (n + 1) % d = IF n % d = d - 1 THEN 0 ELSE (n % d) + 1
    BY <1>1, NextRest
  <1> HIDE DEF d
  <1>5. Until(n) \in 0 .. d - 1 /\ (n % d = 0 <=> Until(n) = 0)
    BY <1>1, <1>2, <1>3
  <1>6. m % d = n % d => Until(m) = Until(n)
    BY <1>2
  <1>7. ASSUME m % d = (n + 1) % d
        PROVE  Until(m) = IF Until(n) = 0 THEN d - 1 ELSE Until(n) - 1
    BY <1>1, <1>2, <1>3, <1>4, <1>7
  <1> QED
    BY <1>5, <1>6, <1>7, Zenon DEF d

LEMMA LeftIs ==
    ASSUME Ready
    PROVE  /\ TimerLeft = 1 + Until(Now) + TimerEvery * (Turns - 1)
           /\ Now \in Nat /\ Turns \in Nat \ {0} /\ Until(Now) \in 0 .. TimerEvery - 1
  <1>1. Now \in Nat
    BY NowMoves, RateAssumption DEF Ready
  <1>2. Until(Now) \in 0 .. TimerEvery - 1
    BY <1>1, UntilNext
  <1>3. Turns \in Nat \ {0}
    BY TurnsPositive DEF Ready
  <1>4. TimerLeft = 1 + Until(Now) + TimerEvery * (Turns - 1)
    BY Zenon DEF TimerLeft, Turns, Until
  <1> QED
    BY <1>1, <1>2, <1>3, <1>4

\* Times are not negative.
LEMMA Products ==
    ASSUME NEW m \in Nat, NEW n \in Nat
    PROVE  m * n \in Nat /\ (m > 0 /\ n > 0 => m * n > 0)
  OBVIOUS

LEMMA LessOne ==
    ASSUME NEW m \in Nat, NEW n \in Nat
    PROVE  m * (n - 1) = m * n - m /\ m * n \in Nat
  OBVIOUS

\* Whatever the program writes, the interrupt and the period are some time away.
Away == Turns \in Nat \ {0} /\ TimerLeft > 0 /\ TimerEvery * (TimaMod - tma) * Width > 0

LEMMA SomeTimeAway == ASSUME Ready PROVE Away
  <1>1. TimerEvery \in Nat \ {0}
    BY RateAssumption
  <1>2. TimerEvery * (Turns - 1) \in Nat
    <2>1. Turns - 1 \in Nat
      BY LeftIs
    <2> QED
      BY <1>1, <2>1, Products
  <1>3. TimerLeft > 0
    BY <1>1, <1>2, LeftIs
  <1>4. TimaMod - tma \in Nat /\ TimaMod - tma > 0 /\ Width \in Nat /\ Width > 0
    BY Places, WidthAssumption DEF Ready, Ranges, Counter
  <1>5. TimerEvery * (TimaMod - tma) \in Nat /\ TimerEvery * (TimaMod - tma) > 0
    BY <1>1, <1>4, Products
  <1>6. TimerEvery * (TimaMod - tma) * Width > 0
    <2> DEFINE m == TimerEvery * (TimaMod - tma)
    <2> HIDE DEF m
    <2>1. m \in Nat /\ m > 0 => m * Width > 0
      BY <1>4, Products
    <2> QED
      BY <1>5, <2>1 DEF m
  <1> QED
    BY <1>3, <1>6, LeftIs DEF Away

\* The period is of the timer's registers alone.
LEMMA PeriodStays ==
    ASSUME tma' = tma, tac' = tac
    PROVE  (TimerEvery * (TimaMod - tma) * Width)' = TimerEvery * (TimaMod - tma) * Width
  BY Zenon DEF Width

\* Every tick of the devices counts the time to the interrupt down by one.
LEMMA DevicesCountDown == ASSUME Ready, Away', Devices PROVE MachinePeriodic!Next
  <1> DEFINE period == TimerEvery * (TimaMod - tma) * Width
             u == Until(Now)
             n == Turns
  <1>2. /\ TimerLeft = 1 + u + TimerEvery * (n - 1)
        /\ n \in Nat \ {0} /\ u \in 0 .. TimerEvery - 1 /\ TimerEvery \in Nat \ {0}
    BY LeftIs, RateAssumption
  <1>3. TimerLeft' = 1 + u' + TimerEvery * (n' - 1) /\ n' \in Nat \ {0}
    <2>1. TimerLeft' = 1 + Until(Now)' + TimerEvery * (Turns' - 1)
      BY Zenon DEF TimerLeft, Turns, Until
    <2>2. Turns' \in Nat \ {0}
      BY DEF Away
    <2> QED
      BY <2>1, <2>2
  <1>4. u' = (IF u = 0 THEN TimerEvery - 1 ELSE u - 1) /\ (TimerTurn <=> u = 0)
    <2>1. Now = t /\ Now \in Nat /\ Now' \in Nat /\ Now' % TimerEvery = (Now + 1) % TimerEvery
      BY NowMoves, RateAssumption
    <2>2. u' = Until(Now')
      BY Zenon DEF Until
    <2> QED
      BY <2>1, <2>2, UntilNext DEF TimerTurn
  <1>5. tma' = tma /\ tac' = tac
    BY Zenon DEF Devices, TimerTick, Tick
  <1>6. period' = period
    BY <1>5, PeriodStays
  <1>7. CASE ~tac.on
    <2>1. did' = "tick"
      BY <1>7, Zenon DEF Devices, TimerTick, Tick, Edge
    <2>2. MachinePeriodic!Idle
      BY <1>5, <1>6, <1>7, <2>1, Zenon DEF MachinePeriodic!Idle
    <2> QED
      BY <2>2 DEF MachinePeriodic!Next
  <1>8. CASE tac.on /\ ~TimerTurn
    <2>1. did' = "tick" /\ n' = n
      BY <1>8, Zenon DEF Devices, TimerTick, Turns, Width, ToEdge
    <2> HIDE DEF n, u, period
    <2>2. TimerEvery * (n - 1) \in Nat
      BY <1>2
    <2>3. TimerLeft > 1 /\ TimerLeft' = TimerLeft - 1
      <3> DEFINE x == TimerEvery * (n - 1)
      <3>1. TimerLeft = 1 + u + x /\ TimerLeft' = 1 + u' + x /\ x \in Nat
        BY <1>2, <1>3, <2>1, <2>2
      <3> HIDE DEF x
      <3> QED
        BY <1>2, <1>4, <1>8, <3>1
    <2>4. MachinePeriodic!Count
      BY <1>5, <1>6, <1>8, <2>1, <2>3, Zenon DEF MachinePeriodic!Count, period
    <2> QED
      BY <2>4 DEF MachinePeriodic!Next
  <1>9. CASE tac.on /\ TimerTurn
    <2>1. Tick
      BY <1>9 DEF Devices, TimerTick
    <2>2. IF n = 1 THEN did' = "irq" /\ n' = (TimaMod - tma) * Width
          ELSE did' = "tick" /\ n' = n - 1
      BY <1>9, <2>1, TurnsCount DEF Ready
    <2>3. u = 0 /\ u' = TimerEvery - 1
      BY <1>4, <1>9
    <2>4. CASE n = 1
      <3>1. period = TimerEvery * n' /\ n' \in Nat
        <4>1. TimaMod - tma \in Nat /\ Width \in Nat /\ TimerEvery \in Nat
          BY Places, WidthAssumption, <1>2 DEF Ready, Ranges, Counter
        <4>2. TimerEvery * (TimaMod - tma) * Width = TimerEvery * ((TimaMod - tma) * Width)
          <5> DEFINE m == TimaMod - tma
          <5> HIDE DEF m
          <5>1. m \in Nat => TimerEvery * m * Width = TimerEvery * (m * Width)
            BY <4>1
          <5> QED
            BY <4>1, <5>1 DEF m
        <4> QED
          BY <1>3, <2>2, <2>4, <4>2, Zenon
      <3> HIDE DEF n, u, period
      <3>2. TimerEvery * (n' - 1) = TimerEvery * n' - TimerEvery /\ TimerEvery * n' \in Nat
        BY <1>2, <3>1, LessOne
      <3>3. TimerEvery * (n - 1) = 0
        BY <1>2, <2>4
      <3>4. TimerLeft = 1
        BY <1>2, <2>3, <3>3
      <3>5. TimerLeft' = period
        BY <1>2, <1>3, <2>3, <3>1, <3>2
      <3>6. MachinePeriodic!Fire
        BY <1>5, <1>6, <1>9, <2>2, <2>4, <3>4, <3>5, Zenon DEF MachinePeriodic!Fire, period
      <3> QED
        BY <3>6 DEF MachinePeriodic!Next
    <2>5. CASE n # 1
      <3>1. did' = "tick" /\ n' = n - 1
        BY <2>2, <2>5
      <3> HIDE DEF n, u, period
      <3>2. TimerEvery * (n - 1) = TimerEvery * (n - 2) + TimerEvery
            /\ TimerEvery * (n - 2) \in Nat
        BY <1>2, <2>5
      <3>3. TimerLeft > 1 /\ TimerLeft' = TimerLeft - 1
        <4> DEFINE x == TimerEvery * (n - 2)
        <4>1. TimerLeft = 1 + x + TimerEvery /\ x \in Nat
          BY <1>2, <2>3, <3>2
        <4>2. n' - 1 = n - 2
          BY <1>2, <3>1
        <4>3. TimerLeft' = 1 + (TimerEvery - 1) + x
          BY <1>3, <2>3, <4>2
        <4> HIDE DEF x
        <4> QED
          BY <1>2, <4>1, <4>3
      <3>4. MachinePeriodic!Count
        BY <1>5, <1>6, <1>9, <3>1, <3>3, Zenon DEF MachinePeriodic!Count, period
      <3> QED
        BY <3>4 DEF MachinePeriodic!Next
    <2> QED
      BY <2>4, <2>5
  <1> QED
    BY <1>7, <1>8, <1>9

\* A turn of the processor takes no time, and writes are the program's own.
LEMMA CpuLeavesTime ==
    ASSUME Ready, Away', Cpu
    PROVE  MachinePeriodic!Next \/ UNCHANGED MachinePeriodic!vars
  <1>2. TimerLeft' > 0 /\ (TimerEvery * (TimaMod - tma) * Width)' > 0
    BY Zenon DEF Away
  <1>3. CASE did' = "write"
    BY <1>2, <1>3 DEF MachinePeriodic!Next, MachinePeriodic!Write
  <1>4. CASE UNCHANGED <<fulldiv, tima, tma, tac>> /\ (did' = did \/ did' = "shift")
    <2>1. Until(Now)' = Until(Now)
      <3>1. Now \in Nat /\ Now' \in Nat /\ Now' % TimerEvery = Now % TimerEvery
        BY NowMoves, RateAssumption
      <3>2. Until(Now') = Until(Now)
        BY <3>1, UntilNext
      <3> QED
        BY <3>2, Zenon DEF Until
    <2>2. Turns' = Turns /\ tma' = tma /\ tac' = tac
      BY <1>4, Zenon DEF Turns, Width, ToEdge
    <2>3. TimerLeft' = TimerLeft
      <3>1. TimerLeft' = 1 + Until(Now)' + TimerEvery * (Turns' - 1)
        BY Zenon DEF TimerLeft, Turns, Until
      <3> QED
        BY <2>1, <2>2, <3>1, LeftIs, Zenon
    <2>4. CASE did' = did
      BY <2>2, <2>3, <2>4, PeriodStays, Zenon DEF MachinePeriodic!vars
    <2>5. CASE did' = "shift"
      BY <1>2, <2>3, <2>5 DEF MachinePeriodic!Next, MachinePeriodic!Pause
    <2> QED
      BY <1>4, <2>4, <2>5
  <1>5. \/ did' = "write"
        \/ UNCHANGED <<fulldiv, tima, tma, tac>> /\ (did' = did \/ did' = "shift")
    <2>1. ASSUME Write PROVE did' = "write"
      BY <2>1 DEF Write, WriteTIMA, WriteTMA, WriteTAC, WriteDIV
    <2> QED
      BY <2>1, CpuWrites DEF vars
  <1> QED
    BY <1>3, <1>4, <1>5

\* On the clock of the machine interrupts of the timer come exactly a period apart,
\* however the processor spends its turns.
THEOREM KeepsPeriod == MachineSpec => KeepsPeriodOnClock
  <1>1. MachineInit => MachinePeriodic!Init
    BY DEF MachineInit, Init, MachinePeriodic!Init
  <1>2. Ready => Away
    BY SomeTimeAway
  <1>3. Ready /\ Away' /\ [MachineNext]_machineVars
        => [MachinePeriodic!Next]_MachinePeriodic!vars
    <2> SUFFICES ASSUME Ready, Away', [MachineNext]_machineVars
                 PROVE  [MachinePeriodic!Next]_MachinePeriodic!vars
      OBVIOUS
    <2>1. CASE UNCHANGED machineVars
      <3>1. t' = t /\ turn' = turn /\ fulldiv' = fulldiv /\ tima' = tima /\ tma' = tma
            /\ tac' = tac /\ did' = did
        BY <2>1 DEF machineVars, vars, clock
      <3> QED
        BY <3>1, Zenon DEF MachinePeriodic!vars, TimerLeft, Now, Width, ToEdge
    <2> QED
      BY <2>1, DevicesCountDown, CpuLeavesTime DEF MachineNext
  <1> QED
    BY ReadyStays, <1>1, <1>2, <1>3, PTL DEF MachineSpec, KeepsPeriodOnClock, MachinePeriodic!Spec

-----------------------------------------------------------------------------
(* The bytes of the serial port on the clock of the machine *)

\* Ticks until b bits have gone, from place p of the clock.
GoneIn(p, b) ==
    IF p < Burst THEN b + Burst * ((p + b - 1) \div Burst)
    ELSE (2 * Burst - p) + b + Burst * ((b - 1) \div Burst)

LEMMA OneMore ==
    ASSUME NEW m \in Nat, NEW d \in Nat \ {0}
    PROVE  /\ (d + m) \div d = (m \div d) + 1 /\ d * (m \div d) \in Nat
           /\ d * ((m \div d) + 1) = d * (m \div d) + d
  <1> DEFINE k == m \div d
             r == m % d
  <1>1. k \in Nat /\ r \in 0 .. d - 1 /\ m = (d * k) + r
    BY Remainders
  <1> HIDE DEF k, r
  <1>2. d * (k + 1) = d * k + d /\ d * k \in Nat /\ k + 1 \in Nat
    BY <1>1
  <1>3. d + m = (d * (k + 1)) + r
    BY <1>1, <1>2
  <1>4. ((d * (k + 1)) + r) \div d = k + 1
    BY <1>1, <1>2, UniqueQuotient
  <1> QED
    BY <1>2, <1>3, <1>4, Zenon DEF k

LEMMA NoQuotient ==
    ASSUME NEW d \in Nat \ {0}, NEW m \in 0 .. d - 1
    PROVE  m \div d = 0 /\ d * 0 = 0
  <1>1. m = (d * 0) + m /\ 0 \in Nat /\ d * 0 = 0
    OBVIOUS
  <1>2. ((d * 0) + m) \div d = 0
    BY <1>1, UniqueQuotient
  <1> QED
    BY <1>1, <1>2, Zenon

\* A bit goes with every tick of the half in which the port runs, and the other half
\* is waited through.
LEMMA BitsGo ==
    ASSUME NEW p \in 0 .. 2 * Burst - 1, NEW b \in Nat \ {0}, NEW q,
           q = IF p = 2 * Burst - 1 THEN 0 ELSE p + 1
    PROVE  /\ GoneIn(p, b) \in Nat \ {0}
           /\ p < Burst /\ b = 1 => GoneIn(p, b) = 1
           /\ p < Burst /\ b > 1 => GoneIn(p, b) > 1 /\ GoneIn(q, b - 1) = GoneIn(p, b) - 1
           /\ ~ (p < Burst) => GoneIn(p, b) > 1 /\ GoneIn(q, b) = GoneIn(p, b) - 1
  <1> DEFINE d == Burst
             x == d * ((b - 1) \div d)
             y == d * ((p + b - 1) \div d)
  <1>1. d \in Nat \ {0} /\ p \in Nat /\ b - 1 \in Nat /\ p + b - 1 \in Nat
    BY RateAssumption
  <1>2. x \in Nat /\ y \in Nat
    BY <1>1, OneMore
  <1>3. GoneIn(p, b) = IF p < d THEN b + y ELSE (2 * d - p) + b + x
    BY DEF GoneIn
  <1>4. GoneIn(q, b) = IF q < d THEN b + d * ((q + b - 1) \div d) ELSE (2 * d - q) + b + x
    BY DEF GoneIn
  <1>5. GoneIn(q, b - 1) = IF q < d THEN (b - 1) + d * ((q + (b - 1) - 1) \div d)
                           ELSE (2 * d - q) + (b - 1) + d * (((b - 1) - 1) \div d)
    BY DEF GoneIn
  <1> HIDE DEF d
  <1>6. p \in 0 .. 2 * d - 1 /\ q = (IF p = 2 * d - 1 THEN 0 ELSE p + 1)
    BY DEF d
  <1>7. ASSUME p < d, b = 1 PROVE GoneIn(p, b) = 1
    <2>1. p + b - 1 \in 0 .. d - 1
      BY <1>1, <1>6, <1>7
    <2>2. y = 0
      BY <1>1, <2>1, NoQuotient, Zenon
    <2> QED
      BY <1>3, <1>7, <2>2
  <1>8. ASSUME p < d, b > 1 PROVE GoneIn(q, b - 1) = (b + y) - 1
    <2>1. q = p + 1
      BY <1>1, <1>6, <1>8
    <2>2. CASE q < d
      <3>1. q + (b - 1) - 1 = p + b - 1
        BY <1>1, <2>1
      <3>2. GoneIn(q, b - 1) = (b - 1) + y
        BY <1>5, <2>2, <3>1, Zenon
      <3> HIDE DEF y
      <3> QED
        BY <1>1, <1>2, <3>2
    <2>3. CASE ~ (q < d)
      <3>1. q = d /\ p = d - 1 /\ (b - 1) - 1 \in Nat /\ p + b - 1 = d + ((b - 1) - 1)
        BY <1>1, <1>8, <2>1, <2>3
      <3> DEFINE m == (b - 1) - 1
                 z == d * (m \div d)
      <3>2. y = z + d /\ z \in Nat
        <4> HIDE DEF m
        <4>1. (d + m) \div d = (m \div d) + 1 /\ d * (m \div d) \in Nat
              /\ d * ((m \div d) + 1) = d * (m \div d) + d
          BY <1>1, <3>1, OneMore DEF m
        <4>2. p + b - 1 = d + m
          BY <3>1 DEF m
        <4> QED
          BY <4>1, <4>2, Zenon
      <3>3. GoneIn(q, b - 1) = (2 * d - q) + (b - 1) + z
        BY <1>5, <2>3, Zenon
      <3> HIDE DEF y, z
      <3> QED
        BY <1>1, <3>1, <3>2, <3>3
    <2> QED
      BY <2>2, <2>3
  <1>9. ASSUME ~ (p < d) PROVE GoneIn(q, b) = ((2 * d - p) + b + x) - 1
    <2>1. CASE p = 2 * d - 1
      <3>1. q = 0 /\ q + b - 1 = b - 1 /\ q < d
        BY <1>1, <1>6, <2>1
      <3>2. GoneIn(q, b) = b + x
        BY <1>4, <3>1, Zenon
      <3> HIDE DEF x
      <3> QED
        BY <1>1, <1>2, <2>1, <3>2
    <2>2. CASE p # 2 * d - 1
      <3>1. q = p + 1 /\ ~ (q < d)
        BY <1>1, <1>6, <1>9, <2>2
      <3>2. GoneIn(q, b) = (2 * d - q) + b + x
        BY <1>4, <3>1, Zenon
      <3> HIDE DEF x
      <3> QED
        BY <1>1, <1>2, <3>1, <3>2
    <2> QED
      BY <2>1, <2>2
  <1> HIDE DEF x, y
  <1>10. GoneIn(p, b) \in Nat \ {0}
    BY <1>1, <1>2, <1>3, <1>6
  <1>11. p < d /\ b > 1 => GoneIn(p, b) > 1 /\ GoneIn(q, b - 1) = GoneIn(p, b) - 1
    BY <1>1, <1>2, <1>3, <1>8
  <1>12. ~ (p < d) => GoneIn(p, b) > 1 /\ GoneIn(q, b) = GoneIn(p, b) - 1
    BY <1>1, <1>2, <1>3, <1>6, <1>9
  <1> QED
    BY <1>7, <1>10, <1>11, <1>12, Zenon DEF d

\* The place of the clock in the whole of both halves.
Spot == Now % (2 * Burst)

LEMMA SpotMoves ==
    ASSUME Ready
    PROVE  /\ Spot \in 0 .. 2 * Burst - 1
           /\ Devices => /\ Spot' = IF Spot = 2 * Burst - 1 THEN 0 ELSE Spot + 1
                         /\ SerialTurn <=> Spot < Burst
           /\ Cpu => Spot' = Spot
  <1> DEFINE d == 2 * Burst
  <1>1. d \in Nat \ {0} /\ Burst \in Nat \ {0} /\ d % d = 0
    BY RateAssumption
  <1>2. Now \in Nat
    BY <1>1, NowMoves
  <1>3. Spot \in 0 .. d - 1
    BY <1>1, <1>2, Rests DEF Spot
  <1>4. Spot' = Now' % d
    BY Zenon DEF Spot
  <1>5. ASSUME Devices PROVE Spot' = IF Spot = d - 1 THEN 0 ELSE Spot + 1
    <2>1. Now' % d = (Now + 1) % d
      BY <1>1, <1>5, NowMoves
    <2>2. (Now + 1) % d = IF Now % d = d - 1 THEN 0 ELSE (Now % d) + 1
      BY <1>1, <1>2, NextRest
    <2> QED
      BY <1>4, <2>1, <2>2, Zenon DEF Spot
  <1>6. ASSUME Devices PROVE SerialTurn <=> Spot < Burst
    <2>1. Now = t /\ t \in Nat
      BY <1>1, <1>2, <1>6, NowMoves
    <2>2. IsSet(t, Burst) <=> t % (2 * Burst) >= Burst
      BY <1>1, <2>1, BitIsSet
    <2>3. SerialTurn <=> ~IsSet(t, Burst)
      <3>1. t \div Burst \in Nat
        BY <1>1, <2>1, Remainders
      <3>2. (t \div Burst) % 2 \in 0 .. 1
        <4> DEFINE k == t \div Burst
        <4> HIDE DEF k
        <4>1. k \in Nat => k % 2 \in 0 .. 1
          OBVIOUS
        <4> QED
          BY <3>1, <4>1 DEF k
      <3> DEFINE r == (t \div Burst) % 2
      <3>3. (SerialTurn <=> r = 0) /\ (IsSet(t, Burst) <=> r = 1)
        BY Zenon DEF SerialTurn, IsSet
      <3> HIDE DEF r
      <3>4. r \in 0 .. 1
        BY <3>2 DEF r
      <3> QED
        BY <3>3, <3>4
    <2>4. Spot = t % (2 * Burst)
      BY <2>1 DEF Spot
    <2> QED
      BY <1>1, <1>3, <2>2, <2>3, <2>4
  <1>7. ASSUME Cpu PROVE Spot' = Spot
    BY <1>1, <1>4, <1>7, NowMoves, Zenon DEF Spot
  <1> QED
    BY <1>3, <1>5, <1>6, <1>7

\* What is left of a byte, and whether it goes.
LEMMA ByteLeft ==
    /\ SerialLeft = GoneIn(Spot, bits)
    /\ SerialLeft' = GoneIn(Spot', bits')
  BY Zenon DEF SerialLeft, GoneIn, Spot

\* Every tick of the devices brings the end of a byte one tick nearer.
LEMMA DevicesSend == ASSUME Ready, Devices PROVE Byte!Next
  <1> DEFINE seen == CASE did = "irq" -> "tick" [] did = "write" -> "pause"
                       [] did = "shift" -> "write" [] OTHER -> did
             time == IF bits > 0 THEN SerialLeft ELSE 1
             p == Spot
  <1>1. bits \in Nat /\ p \in 0 .. 2 * Burst - 1
        /\ p' = (IF p = 2 * Burst - 1 THEN 0 ELSE p + 1) /\ (SerialTurn <=> p < Burst)
    BY SpotMoves, RateAssumption DEF Ready
  <1>2. bits' = IF p < Burst /\ bits > 0 THEN bits - 1 ELSE bits
    BY <1>1 DEF Devices, SerialTick
  <1>3. seen' = "tick"
    <2>1. did' \in {"tick", "irq"}
      BY Zenon DEF Devices, TimerTick, Tick
    <2> QED
      BY <2>1
  <1>4. CASE bits = 0
    <2>1. ~ (bits > 0) /\ ~ (bits' > 0)
      BY <1>2, <1>4
    <2> QED
      BY <1>3, <2>1, Zenon DEF Byte!Next, Byte!Idle
  <1>5. CASE bits > 0 /\ p < Burst /\ bits = 1
    <2>1. time = 1 /\ ~ (bits' > 0)
      BY <1>1, <1>2, <1>5, BitsGo, ByteLeft
    <2> QED
      BY <1>3, <1>5, <2>1, Zenon DEF Byte!Next, Byte!End
  <1>6. CASE bits > 0 /\ ~ (p < Burst /\ bits = 1)
    <2> HIDE DEF p
    <2>1. bits' = (IF p < Burst THEN bits - 1 ELSE bits) /\ bits' > 0 /\ bits \in Nat \ {0}
      BY <1>1, <1>2, <1>6
    <2>2. GoneIn(p, bits) > 1 /\ GoneIn(p', bits') = GoneIn(p, bits) - 1
      BY <1>1, <1>6, <2>1, BitsGo
    <2>3. time = GoneIn(p, bits) /\ time' = GoneIn(p', bits')
      BY <1>6, <2>1, ByteLeft, Zenon DEF p
    <2> QED
      BY <1>3, <1>6, <2>1, <2>2, <2>3, Zenon DEF Byte!Next, Byte!Count
  <1> QED
    BY <1>1, <1>4, <1>5, <1>6

\* A turn of the processor takes the byte no time.
LEMMA CpuLeavesByte == ASSUME Ready, Ready', Cpu PROVE Byte!Next \/ UNCHANGED Byte!vars
  <1>1. Spot \in 0 .. 2 * Burst - 1 /\ Spot' = Spot
    BY SpotMoves
  <1>2. CASE did' = "shift"
    <2>1. (IF bits > 0 THEN SerialLeft ELSE 1)' > 0
      <3>1. bits' \in Nat
        BY RateAssumption DEF Ready
      <3>2. bits' > 0 => GoneIn(Spot, bits') \in Nat \ {0}
        BY <1>1, <3>1, BitsGo
      <3> QED
        BY <1>1, <3>2, ByteLeft
    <2> QED
      BY <1>2, <2>1 DEF Byte!Next, Byte!Write
  <1>3. CASE UNCHANGED <<vars, bits>>
    <2>1. bits' = bits /\ did' = did /\ SerialLeft' = SerialLeft
      BY <1>1, <1>3, ByteLeft, Zenon DEF vars
    <2> QED
      BY <2>1, Zenon DEF Byte!vars
  <1>4. CASE did' = "write" /\ bits' = bits
    <2>1. bits' = bits /\ SerialLeft' = SerialLeft
      BY <1>1, <1>4, ByteLeft, Zenon
    <2> QED
      BY <1>4, <2>1 DEF Byte!Next, Byte!Pause
  <1>5. \/ did' = "shift" \/ UNCHANGED <<vars, bits>>
        \/ did' = "write" /\ bits' = bits
    <2>1. ASSUME Write PROVE did' = "write"
      BY <2>1 DEF Write, WriteTIMA, WriteTMA, WriteTAC, WriteDIV
    <2> QED
      BY <2>1, CpuWrites
  <1> QED
    BY <1>2, <1>3, <1>4, <1>5

\* A byte that is left alone has gone when its bits and the waits between the halves
\* of the clock are over, however the processor spends its turns.
THEOREM BytesOnTime == MachineSpec => SerialOnTime
  <1>1. MachineInit => Byte!Init
    BY DEF MachineInit, Init, Byte!Init
  <1>2. Ready /\ Ready' /\ [MachineNext]_machineVars => [Byte!Next]_Byte!vars
    <2> SUFFICES ASSUME Ready, Ready', [MachineNext]_machineVars
                 PROVE  [Byte!Next]_Byte!vars
      OBVIOUS
    <2>1. CASE UNCHANGED machineVars
      <3>1. t' = t /\ turn' = turn /\ bits' = bits /\ did' = did
        BY <2>1 DEF machineVars, vars, clock
      <3> QED
        BY <3>1, Zenon DEF Byte!vars, SerialLeft, Now
    <2> QED
      BY <2>1, DevicesSend, CpuLeavesByte DEF MachineNext
  <1> QED
    BY ReadyStays, <1>1, <1>2, PTL DEF MachineSpec, SerialOnTime, Byte!Spec
=============================================================================
