----------------------------- MODULE CPU_proofs -----------------------------
(***************************************************************************)
(* Proofs about modules CPU and CallStack, for any number of sources and   *)
(* addresses and any program: the type invariant, that only an undefined   *)
(* opcode locks the processor, and that it implements InterruptController. *)
(* For every program that keeps its stack: its frames stay intact, returns *)
(* find their own, and handlers do not nest.                               *)
(***************************************************************************)
EXTENDS CallStack, SequenceTheorems, TLAPS

BusType == [mem : [Ram -> Byte], iflag : SUBSET Source, ie : SUBSET Source]

-----------------------------------------------------------------------------
(* Words and the busy counter *)

\* Address arithmetic wraps: it stays within the words.
LEMMA WordArithmetic ==
    ASSUME NEW w \in Word, NEW k \in 0 .. 3
    PROVE  Plus(w, k) \in Word /\ Minus(w, k) \in Word
BY WordsAssumption DEF Word, Plus, Minus

\* The opcode fetched was at the address before the one pc has moved to.
LEMMA OneBack ==
    ASSUME NEW w \in Word
    PROVE  Minus(Plus(w, 1), 1) = w /\ Plus(Minus(w, 2), 1) = Minus(w, 1)
BY WordsAssumption DEF Word, Plus, Minus

\* Spending a cycle locks the processor only when none was left.
LEMMA SpendType ==
    ASSUME NEW b \in 0 .. Wrapped
    PROVE  /\ Spend(b) \in 0 .. Wrapped
           /\ Spend(b) = Wrapped <=> b = 0 \/ b = Wrapped
BY CodeAssumption DEF Spend, Wrapped

-----------------------------------------------------------------------------
(* The bus *)

LEMMA PokeType ==
    ASSUME NEW b \in BusType, NEW a, NEW v \in Byte
    PROVE  Poke(b, a, v) \in BusType
<1>1. CASE a \in Ram
  <2>1. Poke(b, a, v) = [b EXCEPT !.mem = [b.mem EXCEPT ![a] = v]]
    BY <1>1, RegistersAssumption DEF Poke
  <2>2. [b.mem EXCEPT ![a] = v] \in [Ram -> Byte]
    BY <1>1 DEF BusType
  <2>3. QED
    BY <2>1, <2>2 DEF BusType
<1>2. CASE a \notin Ram /\ a = IFAddr
  BY <1>2, RegistersAssumption DEF Poke, BusType
<1>3. CASE a \notin Ram /\ a # IFAddr /\ a = IEAddr
  BY <1>3, RegistersAssumption DEF Poke, BusType
<1>4. CASE a \notin Ram /\ a # IFAddr /\ a # IEAddr
  BY <1>4 DEF Poke
<1>5. QED
  BY <1>1, <1>2, <1>3, <1>4

LEMMA Poke16Type ==
    ASSUME NEW b \in BusType, NEW a, NEW w \in Word
    PROVE  Poke16(b, a, w) \in BusType
<1>1. Lo[w] \in Byte /\ Hi[w] \in Byte
  BY WordsAssumption
<1>2. QED
  BY <1>1, PokeType DEF Poke16

\* A byte written anywhere else leaves both interrupt registers alone.
LEMMA PokeElsewhere ==
    ASSUME NEW b \in BusType, NEW a, NEW v, a \notin {IFAddr, IEAddr}
    PROVE  Poke(b, a, v).iflag = b.iflag /\ Poke(b, a, v).ie = b.ie
<1>1. CASE a \in Ram
  <2>1. Poke(b, a, v) = [b EXCEPT !.mem = [b.mem EXCEPT ![a] = v]]
    BY <1>1, RegistersAssumption DEF Poke
  <2>2. QED
    BY <2>1 DEF BusType
<1>2. CASE a \notin Ram
  BY <1>2 DEF Poke
<1>3. QED
  BY <1>1, <1>2

LEMMA BusIsBus ==
    ASSUME TypeOK
    PROVE  Bus \in BusType
BY DEF TypeOK, Bus, BusType

LEMMA PeekType ==
    ASSUME TypeOK, NEW a
    PROVE  Peek(a) \subseteq Byte
BY RegistersAssumption DEF TypeOK, Peek

LEMMA Peek16Type ==
    ASSUME TypeOK, NEW a
    PROVE  Peek16(a) \subseteq Word
<1>1. ASSUME NEW w \in Peek16(a) PROVE w \in Word
  <2>1. PICK lo \in Peek(a), hi \in Peek(Plus(a, 1)) : w = Join[lo][hi]
    BY <1>1 DEF Peek16
  <2>2. lo \in Byte /\ hi \in Byte
    BY PeekType
  <2>3. QED
    BY <2>1, <2>2, WordsAssumption
<1>2. QED
  BY <1>1

-----------------------------------------------------------------------------
(* The type invariant and the lock-up *)

IInv == TypeOK /\ LockedOnlyBehindUndefined

\* What every instruction is known to be when it runs.
LEMMA FetchedRow ==
    ASSUME TypeOK, NEW i \in Code[pc]
    PROVE  /\ i \in Row
           /\ After(i) \in Word
           /\ i.cycles \in 0 .. Wrapped /\ i.cycles + i.extra \in 0 .. Wrapped
           /\ i.cycles # Wrapped /\ i.cycles + i.extra # Wrapped
           /\ i.op # "undefined" => i.cycles # 0 /\ i.cycles + i.extra # 0
           /\ i.op = "undefined" => i.len = 1
<1>1. pc \in Word
  BY DEF TypeOK
<1>2. i \in Row
  BY <1>1, CodeAssumption
<1>3. After(i) \in Word
  BY <1>1, <1>2, WordArithmetic DEF After, Row
<1>4. IF i.op = "undefined" THEN i.len = 1 ELSE i.cycles >= 1
  BY <1>1, CodeAssumption
<1>5. QED
  BY <1>2, <1>3, <1>4, CodeAssumption DEF Row, Wrapped

\* An instruction that charges cycles leaves busy away from Wrapped.
LEMMA Charged ==
    ASSUME NEW c \in 0 .. Wrapped, c # 0, c # Wrapped, Cost(c)
    PROVE  busy' \in 0 .. Wrapped /\ busy' # Wrapped
BY SpendType DEF Cost

LEMMA EventType ==
    ASSUME NEW s \in Source
    PROVE  /\ <<"raise", s>> \in Event /\ <<"service", s>> \in Event
           /\ <<"idle">> \in Event /\ <<"fetch">> \in Event
BY DEF Event

LEMMA SetBusType ==
    ASSUME NEW b \in BusType, SetBus(b)
    PROVE  mem' \in [Ram -> Byte] /\ iflag' \in SUBSET Source /\ ie' \in SUBSET Source
BY DEF SetBus, BusType

\* An instruction keeps every variable in its type and, unless its opcode is
\* undefined, does not lock the processor.
LEMMA InstructionStep ==
    ASSUME TypeOK, NEW i \in Code[pc], Instruction(i)
    PROVE  TypeOK' /\ LockedOnlyBehindUndefined'
<1>1. /\ i.op # "undefined" => i.cycles # 0 /\ i.cycles + i.extra # 0
      /\ i.op = "undefined" => i.len = 1
      /\ i.cycles \in 0 .. Wrapped /\ i.cycles + i.extra \in 0 .. Wrapped
      /\ i.cycles # Wrapped /\ i.cycles + i.extra # Wrapped
      /\ After(i) \in Word /\ i \in Row
  BY FetchedRow
<1>2. /\ pc \in Word /\ sp \in Word
      /\ Plus(sp, 2) \in Word /\ Minus(sp, 2) \in Word
  BY WordArithmetic DEF TypeOK
<1>3. Bus \in BusType
  BY BusIsBus
<1>4. ASSUME Fetch(i)
      PROVE  event' \in Event
  BY <1>4 DEF Fetch, Event
<1>5. i.arg \in Word
  BY <1>1 DEF Row
<1>6. CASE Plain(i)
  <2>1. busy' \in 0 .. Wrapped /\ busy' # Wrapped
    BY <1>1, <1>6, Charged DEF Plain
  <2>2. QED
    BY <1>1, <1>4, <1>6, <2>1 DEF Plain, TypeOK, LockedOnlyBehindUndefined, Awake
<1>7. CASE Load(i)
  <2>1. busy' \in 0 .. Wrapped /\ busy' # Wrapped
    BY <1>1, <1>7, Charged DEF Load
  <2>2. PICK v \in Byte : SetBus(Poke(Bus, i.arg, v))
    BY <1>7 DEF Load
  <2>3. mem' \in [Ram -> Byte] /\ iflag' \in SUBSET Source /\ ie' \in SUBSET Source
    BY <1>3, <2>2, PokeType, SetBusType
  <2>4. QED
    BY <1>1, <1>4, <1>7, <2>1, <2>3 DEF Load, TypeOK, LockedOnlyBehindUndefined, Awake
<1>8. CASE LoadSP(i)
  <2>1. busy' \in 0 .. Wrapped /\ busy' # Wrapped
    BY <1>1, <1>8, Charged DEF LoadSP
  <2>2. mem' \in [Ram -> Byte] /\ iflag' \in SUBSET Source /\ ie' \in SUBSET Source
    BY <1>2, <1>3, <1>8, Poke16Type, SetBusType DEF LoadSP
  <2>3. QED
    BY <1>1, <1>4, <1>8, <2>1, <2>2 DEF LoadSP, TypeOK, LockedOnlyBehindUndefined, Awake
<1>9. CASE SetSP(i)
  <2>1. busy' \in 0 .. Wrapped /\ busy' # Wrapped
    BY <1>1, <1>9, Charged DEF SetSP
  <2>2. QED
    BY <1>1, <1>4, <1>5, <1>9, <2>1 DEF SetSP, TypeOK, LockedOnlyBehindUndefined, Awake
<1>10. CASE Push(i)
  <2>1. busy' \in 0 .. Wrapped /\ busy' # Wrapped
    BY <1>1, <1>10, Charged DEF Push
  <2>2. PICK w \in Data : SetBus(Poke16(Bus, Minus(sp, 2), w))
    BY <1>10 DEF Push
  <2>3. mem' \in [Ram -> Byte] /\ iflag' \in SUBSET Source /\ ie' \in SUBSET Source
    BY <1>3, <2>2, Poke16Type, SetBusType, BootAssumption
  <2>4. QED
    BY <1>1, <1>2, <1>4, <1>10, <2>1, <2>3 DEF Push, TypeOK, LockedOnlyBehindUndefined, Awake
<1>11. CASE Pop(i)
  <2>1. busy' \in 0 .. Wrapped /\ busy' # Wrapped
    BY <1>1, <1>11, Charged DEF Pop
  <2>2. QED
    BY <1>1, <1>2, <1>4, <1>11, <2>1 DEF Pop, TypeOK, LockedOnlyBehindUndefined, Awake
<1>12. CASE NotTaken(i)
  <2>1. busy' \in 0 .. Wrapped /\ busy' # Wrapped
    BY <1>1, <1>12, Charged DEF NotTaken
  <2>2. QED
    BY <1>1, <1>4, <1>12, <2>1 DEF NotTaken, TypeOK, LockedOnlyBehindUndefined, Awake
<1>13. CASE Jump(i)
  <2>1. busy' \in 0 .. Wrapped /\ busy' # Wrapped
    BY <1>1, <1>13, Charged DEF Jump
  <2>2. QED
    BY <1>4, <1>5, <1>13, <2>1 DEF Jump, TypeOK, LockedOnlyBehindUndefined, Awake
<1>14. CASE Call(i)
  <2>1. busy' \in 0 .. Wrapped /\ busy' # Wrapped
    BY <1>1, <1>14, Charged DEF Call
  <2>2. mem' \in [Ram -> Byte] /\ iflag' \in SUBSET Source /\ ie' \in SUBSET Source
    BY <1>1, <1>3, <1>14, Poke16Type, SetBusType DEF Call
  <2>3. QED
    BY <1>2, <1>4, <1>5, <1>14, <2>1, <2>2 DEF Call, TypeOK, LockedOnlyBehindUndefined, Awake
<1>15. CASE Return(i)
  <2>1. busy' \in 0 .. Wrapped /\ busy' # Wrapped
    BY <1>1, <1>15, Charged DEF Return
  <2>2. pc' \in Word
    BY <1>15, Peek16Type DEF Return
  <2>3. ime' \in BOOLEAN
    BY <1>15 DEF Return
  <2>4. QED
    BY <1>2, <1>4, <1>15, <2>1, <2>2, <2>3 DEF Return, TypeOK, LockedOnlyBehindUndefined, Awake
<1>16. CASE Switch(i)
  <2>1. busy' \in 0 .. Wrapped /\ busy' # Wrapped
    BY <1>1, <1>16, Charged DEF Switch
  <2>2. ime' \in BOOLEAN
    BY <1>16 DEF Switch
  <2>3. QED
    BY <1>1, <1>4, <1>16, <2>1, <2>2 DEF Switch, TypeOK, LockedOnlyBehindUndefined, Awake
<1>17. CASE Halt(i)
  <2>1. busy' \in 0 .. Wrapped /\ busy' # Wrapped
    BY <1>1, <1>17, Charged DEF Halt
  <2>2. QED
    BY <1>1, <1>4, <1>17, <2>1 DEF Halt, TypeOK, LockedOnlyBehindUndefined
<1>18. CASE Stop(i)
  <2>1. busy' \in 0 .. Wrapped /\ busy' # Wrapped
    BY <1>1, <1>18, Charged DEF Stop
  <2>2. QED
    BY <1>1, <1>4, <1>18, <2>1 DEF Stop, TypeOK, LockedOnlyBehindUndefined, Awake
<1>19. CASE Undefined(i)
  <2>1. busy' \in 0 .. Wrapped
    <3>1. 0 \in 0 .. Wrapped
      BY CodeAssumption DEF Wrapped
    <3>2. QED
      BY <1>19, <3>1, SpendType DEF Undefined, Cost
  <2>2. i.op = "undefined" /\ pc' = Plus(pc, 1)
    BY <1>1, <1>19 DEF Undefined, After
  <2>3. LockedOnlyBehindUndefined'
    BY <1>2, <2>2, OneBack DEF LockedOnlyBehindUndefined
  <2>4. TypeOK'
    BY <1>1, <1>4, <1>19, <2>1 DEF Undefined, TypeOK, Awake
  <2>5. QED
    BY <2>3, <2>4
<1>20. QED
  BY <1>6, <1>7, <1>8, <1>9, <1>10, <1>11, <1>12, <1>13, <1>14, <1>15, <1>16,
     <1>17, <1>18, <1>19 DEF Instruction

LEMMA InitIInv == Init => IInv
<1>. SUFFICES ASSUME Init PROVE IInv
  OBVIOUS
<1>1. busy \in 0 .. Wrapped /\ busy # Wrapped
  BY CodeAssumption DEF Init, Wrapped
<1>2. mem \in [Ram -> Byte]
  BY BootAssumption DEF Init
<1>3. event \in Event
  BY DEF Init, Event
<1>4. QED
  BY <1>1, <1>2, <1>3, BootAssumption DEF Init, IInv, TypeOK, LockedOnlyBehindUndefined

\* The invariant is kept by every step: busy can only become Wrapped in
\* Undefined or stay so in Wait, and in neither does pc leave the spot.
LEMMA StepIInv == IInv /\ [Next]_vars => IInv'
<1>. SUFFICES ASSUME IInv, [Next]_vars PROVE IInv'
  OBVIOUS
<1>. USE DEF IInv
<1>1. CASE Dispatch
  <2>1. PICK s \in Pending :
          /\ SetBus([Poke16(Bus, Minus(sp, 2), pc) EXCEPT
                       !.iflag = Poke16(Bus, Minus(sp, 2), pc).iflag \ {s}])
          /\ pc' = Vector[s]
          /\ event' = <<"service", s>>
    BY <1>1 DEF Dispatch
  <2>2. s \in Source
    BY DEF Pending, TypeOK
  <2>3. pc \in Word /\ Minus(sp, 2) \in Word
    BY WordArithmetic DEF TypeOK
  <2>4. Poke16(Bus, Minus(sp, 2), pc) \in BusType
    BY <2>3, Poke16Type, BusIsBus
  <2>5. [Poke16(Bus, Minus(sp, 2), pc) EXCEPT
           !.iflag = Poke16(Bus, Minus(sp, 2), pc).iflag \ {s}] \in BusType
    BY <2>4 DEF BusType
  <2>6. mem' \in [Ram -> Byte] /\ iflag' \in SUBSET Source /\ ie' \in SUBSET Source
    BY <2>1, <2>5, SetBusType
  <2>7. busy' \in 0 .. Wrapped /\ busy' # Wrapped
    BY <1>1, SpendType, CodeAssumption DEF Dispatch, Wrapped
  <2>8. QED
    BY <1>1, <2>1, <2>2, <2>3, <2>6, <2>7, EventType, SourcesAssumption
       DEF Dispatch, TypeOK, LockedOnlyBehindUndefined
<1>2. CASE Sleep
  <2>1. busy' \in 0 .. Wrapped /\ busy' # Wrapped
    BY <1>2, SpendType, CodeAssumption DEF Sleep, Wrapped
  <2>2. QED
    BY <1>2, <2>1 DEF Sleep, TypeOK, LockedOnlyBehindUndefined, Event
<1>3. ASSUME NEW i \in Code[pc], Instruction(i)
      PROVE  IInv'
  BY <1>3, InstructionStep
<1>4. CASE Wait
  <2>1. busy' \in 0 .. Wrapped /\ (busy' = Wrapped => busy = Wrapped)
    BY <1>4, SpendType DEF Wait, TypeOK
  <2>2. QED
    BY <1>4, <2>1 DEF Wait, TypeOK, LockedOnlyBehindUndefined, Event
<1>5. ASSUME NEW s \in Source, Interrupt(s)
      PROVE  IInv'
  BY <1>5, EventType DEF Interrupt, TypeOK, LockedOnlyBehindUndefined
<1>6. CASE UNCHANGED vars
  BY <1>6 DEF vars, TypeOK, LockedOnlyBehindUndefined
<1>7. QED
  BY <1>1, <1>2, <1>3, <1>4, <1>5, <1>6 DEF Next, Tick, Step

\* Every variable of the processor always holds a value of its C++ type, for
\* every number of sources, every address space and every program.
THEOREM TypeCorrect == Spec => []TypeOK
<1>1. IInv => TypeOK
  BY DEF IInv
<1>2. QED
  BY <1>1, InitIInv, StepIInv, PTL DEF Spec

\* The processor locks up behind an undefined opcode and nowhere else, whatever
\* the program and the devices do.
THEOREM LockUp == Spec => []LockedOnlyBehindUndefined
<1>1. IInv => LockedOnlyBehindUndefined
  BY DEF IInv
<1>2. QED
  BY <1>1, InitIInv, StepIInv, PTL DEF Spec

-----------------------------------------------------------------------------
(* The processor implements the interrupt controller *)

\* A push away from the registers touches neither.
LEMMA PushElsewhere ==
    ASSUME TypeOK, NEW w \in Word, ~Exposed
    PROVE  LET b == Poke16(Bus, Minus(sp, 2), w)
           IN  b.iflag = iflag /\ b.ie = ie /\ b \in BusType
<1>. DEFINE a == Minus(sp, 2)
<1>1. sp \in Word /\ Plus(a, 1) = Minus(sp, 1)
  BY OneBack DEF TypeOK
<1>2. a \notin {IFAddr, IEAddr} /\ Plus(a, 1) \notin {IFAddr, IEAddr}
  BY <1>1 DEF Exposed
<1>3. Bus \in BusType /\ Lo[w] \in Byte /\ Hi[w] \in Byte
  BY BusIsBus, WordsAssumption
<1>4. Poke(Bus, a, Lo[w]) \in BusType
  BY <1>3, PokeType
<1>5. Poke(Bus, a, Lo[w]).iflag = iflag /\ Poke(Bus, a, Lo[w]).ie = ie
  BY <1>2, <1>3, PokeElsewhere DEF Bus
<1>6. /\ Poke16(Bus, a, w).iflag = iflag
      /\ Poke16(Bus, a, w).ie = ie
  BY <1>2, <1>4, <1>5, PokeElsewhere DEF Poke16
<1>7. Poke16(Bus, a, w) \in BusType
  BY <1>3, Poke16Type
<1>8. QED
  BY <1>6, <1>7

\* A dispatch is an Accept, even when the push rewrote the registers.
LEMMA DispatchAccepts ==
    ASSUME TypeOK, Dispatch
    PROVE  \E s \in Source : Controller!Accept(s)
<1>. DEFINE b == Poke16(Bus, Minus(sp, 2), pc)
<1>1. PICK s \in Pending : /\ \A t \in Pending : s <= t
                           /\ SetBus([b EXCEPT !.iflag = b.iflag \ {s}])
                           /\ event' = <<"service", s>>
  BY DEF Dispatch
<1>2. s \in Source /\ pc \in Word /\ Minus(sp, 2) \in Word
  BY WordArithmetic DEF Pending, TypeOK
<1>3. b \in BusType
  BY <1>2, BusIsBus, Poke16Type
<1>4. iflag' = b.iflag \ {s} /\ ie' = b.ie
  BY <1>1, <1>3 DEF SetBus, BusType
<1>5. ~Exposed => iflag' = iflag \ {s} /\ ie' = ie
  BY <1>2, <1>4, PushElsewhere
<1>6. Controller!Pending = Pending
  BY DEF Controller!Pending, Pending
<1>7. Controller!Accept(s)
  BY <1>1, <1>4, <1>5, <1>6 DEF Controller!Accept, Dispatch
<1>8. QED
  BY <1>2, <1>7

\* Every instruction runs under the conditions of Run.
LEMMA InstructionRuns ==
    ASSUME TypeOK, TypeOK', NEW i \in Code[pc], Instruction(i)
    PROVE  Controller!Run
<1>1. Fetch(i)
  BY DEF Instruction, Plain, Load, LoadSP, SetSP, Push, Pop, NotTaken, Jump, Call,
         Return, Switch, Halt, Stop, Undefined
<1>2. QED
  BY <1>1 DEF Fetch, Controller!Run, Controller!Pending, Controller!Source, Pending,
              TypeOK, Source

\* Every step of the processor is a step of the controller or leaves it alone.
LEMMA ControllerStep ==
    ASSUME IInv, IInv', [Next]_vars
    PROVE  [Controller!Next]_Controller!vars
<1>. USE DEF IInv
<1>1. Controller!Source = Source
  BY DEF Controller!Source, Source
<1>2. CASE Dispatch
  BY <1>1, <1>2, DispatchAccepts DEF Controller!Next
<1>3. CASE Sleep \/ Wait
  <2>1. Controller!Pass
    BY <1>3 DEF Sleep, Wait, Controller!Pass, Exposed
  <2>2. QED
    BY <2>1 DEF Controller!Next
<1>4. ASSUME NEW i \in Code[pc], Instruction(i)
      PROVE  Controller!Next
  BY <1>4, InstructionRuns DEF Controller!Next
<1>5. ASSUME NEW s \in Source, Interrupt(s)
      PROVE  Controller!Next
  <2>1. Controller!Request(s)
    BY <1>5 DEF Interrupt, Controller!Request, Exposed
  <2>2. QED
    BY <1>1, <2>1 DEF Controller!Next
<1>6. CASE UNCHANGED vars
  BY <1>6 DEF vars, Controller!vars, Exposed
<1>7. QED
  BY <1>2, <1>3, <1>4, <1>5, <1>6 DEF Next, Tick, Step

\* The processor keeps the promises of InterruptController for every program and
\* every behaviour of the devices.
THEOREM Implements == Spec => ImplementsController
<1>1. Init => Controller!Init
  BY DEF Init, Controller!Init
<1>2. IInv /\ IInv' /\ [Next]_vars => [Controller!Next]_Controller!vars
  BY ControllerStep
<1>3. QED
  BY <1>1, <1>2, InitIInv, StepIInv, PTL DEF Spec, ImplementsController, Controller!Spec

-----------------------------------------------------------------------------
(* The call stack *)

\* The processor under a program with frames is the processor.
LEMMA FramesAside == SNext => Next
<1>. SUFFICES ASSUME SNext PROVE Next
  OBVIOUS
<1>1. ASSUME NEW i \in Code[pc], CallFrame(i) \/ ReturnFrame(i) \/ Other(i) \/ SkipFrame(i)
      PROVE  Instruction(i)
  BY <1>1 DEF CallFrame, ReturnFrame, Other, SkipFrame, Instruction
<1>2. QED
  BY <1>1 DEF SNext, STick, Enter, Next, Tick, Step

\* A write changes the cell it names and no other.
LEMMA PokeMemory ==
    ASSUME NEW b \in BusType, NEW a, NEW v \in Byte, NEW c \in Ram
    PROVE  Poke(b, a, v).mem[c] = IF c = a THEN v ELSE b.mem[c]
<1>1. CASE a \in Ram
  <2>1. Poke(b, a, v) = [b EXCEPT !.mem = [b.mem EXCEPT ![a] = v]]
    BY <1>1, RegistersAssumption DEF Poke
  <2>2. QED
    BY <1>1, <2>1 DEF BusType
<1>2. CASE a \notin Ram /\ a = IFAddr
  BY <1>2, RegistersAssumption DEF Poke, BusType
<1>3. CASE a \notin Ram /\ a # IFAddr /\ a = IEAddr
  BY <1>3, RegistersAssumption DEF Poke, BusType
<1>4. CASE a \notin Ram /\ a # IFAddr /\ a # IEAddr
  BY <1>4 DEF Poke
<1>5. QED
  BY <1>1, <1>2, <1>3, <1>4

LEMMA Poke16Memory ==
    ASSUME NEW b \in BusType, NEW a, NEW w \in Word, NEW c \in Ram
    PROVE  Poke16(b, a, w).mem[c] = IF c = Plus(a, 1) THEN Hi[w]
                                    ELSE IF c = a THEN Lo[w] ELSE b.mem[c]
<1>1. Lo[w] \in Byte /\ Hi[w] \in Byte
  BY WordsAssumption
<1>2. Poke(b, a, Lo[w]) \in BusType
  BY <1>1, PokeType
<1>3. Poke(b, a, Lo[w]).mem[c] = IF c = a THEN Lo[w] ELSE b.mem[c]
  BY <1>1, PokeMemory
<1>4. Poke(Poke(b, a, Lo[w]), Plus(a, 1), Hi[w]).mem[c]
      = IF c = Plus(a, 1) THEN Hi[w] ELSE Poke(b, a, Lo[w]).mem[c]
  BY <1>1, <1>2, PokeMemory
<1>5. QED
  BY <1>3, <1>4, Zenon DEF Poke16

Frames == [kind : {"call", "handler"}, at : Word, ret : Word]

\* A frame is in plain memory and holds its return address.
Holds(m, f) == /\ f.at + 1 \in Word /\ {f.at, f.at + 1} \subseteq Ram
               /\ m[f.at] = Lo[f.ret] /\ m[f.at + 1] = Hi[f.ret]

\* The frames hold their addresses and lie one above the other, above the stack
\* pointer.
Stacked == /\ frames \in Seq(Frames)
           /\ \A k \in 1 .. Len(frames) : Holds(mem, frames[k])
           /\ \A j, k \in 1 .. Len(frames) : j < k => frames[j].at >= frames[k].at + 2
           /\ frames # <<>> => sp <= TopFrame.at

\* Sequences: what is on top, and what is left when it goes.
LEMMA Tops ==
    ASSUME NEW S, NEW q \in Seq(S), NEW e \in S
    PROVE  /\ Len(q) \in Nat /\ (q = <<>> <=> Len(q) = 0)
           /\ \A k \in 1 .. Len(q) : q[k] \in S
           /\ Append(q, e) \in Seq(S) /\ Len(Append(q, e)) = Len(q) + 1
           /\ \A k \in 1 .. Len(q) : Append(q, e)[k] = q[k]
           /\ Append(q, e)[Len(q) + 1] = e
  OBVIOUS

LEMMA Rests ==
    ASSUME NEW S, NEW q \in Seq(S), q # <<>>
    PROVE  LET r == SubSeq(q, 1, Len(q) - 1)
           IN  /\ r \in Seq(S) /\ Len(r) = Len(q) - 1 /\ Len(q) \in Nat \ {0}
               /\ \A k \in 1 .. Len(r) : r[k] = q[k]
<1>. DEFINE n == Len(q)
            r == SubSeq(q, 1, n - 1)
<1>1. n \in Nat \ {0} /\ \A k \in 1 .. n : q[k] \in S
  BY Tops
<1>2. /\ r \in Seq(S)
      /\ Len(r) = IF 1 <= n - 1 THEN (n - 1) - 1 + 1 ELSE 0
      /\ \A k \in 1 .. (n - 1) - 1 + 1 : r[k] = q[1 + k - 1]
  <2>1. n - 1 \in Int /\ \A k \in 1 .. n - 1 : q[k] \in S
    BY <1>1
  <2>. HIDE DEF n
  <2>2. QED
    BY <2>1, SubSeqProperties
<1>. HIDE DEF n, r
<1>3. Len(r) = n - 1 /\ \A k \in 1 .. n - 1 : r[k] = q[k]
  BY <1>1, <1>2
<1>4. QED
  BY <1>1, <1>2, <1>3 DEF n, r

LEMMA WordsAreInts ==
    ASSUME NEW w \in Word
    PROVE  w \in Int /\ 0 <= w /\ w < NWords /\ NWords \in Int
BY WordsAssumption DEF Word

LEMMA FramesHaveWords ==
    ASSUME NEW f \in Frames
    PROVE  f.at \in Word /\ f.at \in Int /\ f.ret \in Word /\ f.at < NWords
BY WordsAreInts DEF Frames

\* Every frame is above the stack pointer.
LEMMA FramesAbove ==
    ASSUME TypeOK, Stacked, NEW k \in 1 .. Len(frames)
    PROVE  frames[k] \in Frames /\ sp <= frames[k].at
<1>1. frames[k] \in Frames /\ TopFrame \in Frames /\ frames # <<>> /\ Len(frames) \in 1 .. Len(frames)
  BY DEF Stacked, TopFrame
<1>2. frames[k].at \in Int /\ TopFrame.at \in Int /\ sp \in Int
  BY <1>1, FramesHaveWords, WordsAreInts DEF TypeOK
<1>3. CASE k = Len(frames)
  BY <1>1, <1>3 DEF Stacked, TopFrame
<1>4. CASE k < Len(frames)
  BY <1>1, <1>2, <1>4 DEF Stacked, TopFrame
<1>5. QED
  BY <1>1, <1>3, <1>4

\* A step that opens no frame and closes none leaves the frames alone if it writes
\* over none and the stack pointer does not pass the topmost.
LEMMA FramesStay ==
    ASSUME TypeOK, Stacked, frames' = frames,
           \A c \in Cells : mem'[c] = mem[c],
           frames # <<>> => sp' <= TopFrame.at
    PROVE  Stacked'
<1>1. ASSUME NEW k \in 1 .. Len(frames) PROVE Holds(mem', frames[k])
  <2>1. frames[k].at \in Cells /\ frames[k].at + 1 \in Cells
    BY DEF Cells
  <2>2. QED
    BY <2>1 DEF Stacked, Holds
<1>2. TopFrame' = TopFrame
  BY Zenon DEF TopFrame
<1>3. QED
  BY <1>1, <1>2 DEF Stacked

\* A frame that is opened goes below all others.
LEMMA FrameOpens ==
    ASSUME TypeOK, Stacked, Room, NEW kind \in {"call", "handler"}, NEW ret \in Word,
           mem' = Poke16(Bus, Minus(sp, 2), ret).mem,
           sp' = Minus(sp, 2),
           frames' = Append(frames, Frame(kind, ret))
    PROVE  Stacked'
<1>. DEFINE a == Minus(sp, 2)
            f == Frame(kind, ret)
            n == Len(frames)
<1>1. sp \in Word /\ NWords \in Nat
  BY WordsAssumption DEF TypeOK
<1>2. a = sp - 2 /\ Plus(a, 1) = sp - 1 /\ a + 1 = sp - 1 /\ a \in Word /\ a + 1 \in Word
  BY <1>1 DEF Room, Minus, Plus, Word
<1>3. a \in Ram /\ a + 1 \in Ram /\ a # a + 1
  BY <1>1, <1>2 DEF Room, Word
<1>4. f = [kind |-> kind, at |-> a, ret |-> ret] /\ f \in Frames
  BY <1>2 DEF Frame, Frames
<1>5. Bus \in BusType /\ Bus.mem = mem
  BY BusIsBus DEF Bus
<1>6. ASSUME NEW c \in Ram
      PROVE  mem'[c] = IF c = a + 1 THEN Hi[ret] ELSE IF c = a THEN Lo[ret] ELSE mem[c]
  BY <1>2, <1>5, Poke16Memory
<1>7. Holds(mem', f)
  BY <1>2, <1>3, <1>4, <1>6 DEF Holds
<1>8. /\ frames \in Seq(Frames) /\ n \in Nat
      /\ frames' \in Seq(Frames) /\ Len(frames') = n + 1
      /\ \A k \in 1 .. n : frames'[k] = frames[k]
      /\ frames'[n + 1] = f
  BY <1>4, Tops DEF Stacked
<1>. HIDE DEF a, f, n
<1>9. ASSUME NEW k \in 1 .. n
      PROVE  frames[k].at \in Int /\ frames[k].at >= a + 2 /\ Holds(mem', frames[k])
  <2>1. frames[k] \in Frames /\ sp <= frames[k].at /\ Holds(mem, frames[k])
    BY FramesAbove DEF n, Stacked
  <2>2. frames[k].at \in Int /\ frames[k].at >= a + 2
    BY <1>1, <1>2, <2>1 DEF Frames, Word
  <2>3. frames[k].at \notin {a, a + 1} /\ frames[k].at + 1 \notin {a, a + 1}
    BY <1>1, <1>2, <2>2 DEF Word
  <2>4. QED
    BY <1>6, <2>1, <2>2, <2>3 DEF Holds
<1>10. ASSUME NEW k \in 1 .. Len(frames') PROVE Holds(mem', frames'[k])
  <2>1. CASE k = n + 1
    BY <1>7, <1>8, <2>1
  <2>2. CASE k # n + 1
    BY <1>8, <1>9, <1>10, <2>2
  <2>3. QED
    BY <2>1, <2>2
<1>11. ASSUME NEW j \in 1 .. Len(frames'), NEW k \in 1 .. Len(frames'), j < k
       PROVE  frames'[j].at >= frames'[k].at + 2
  <2>1. j \in 1 .. n /\ (k = n + 1 \/ k \in 1 .. n)
    BY <1>8, <1>11
  <2>2. CASE k = n + 1
    BY <1>4, <1>8, <1>9, <2>1, <2>2
  <2>3. CASE k \in 1 .. n
    BY <1>8, <1>11, <2>1, <2>3 DEF Stacked, n
  <2>4. QED
    BY <2>1, <2>2, <2>3
<1>12. sp' <= TopFrame'.at
  <2>1. TopFrame' = f
    BY <1>8, Zenon DEF TopFrame
  <2>2. QED
    BY <1>1, <1>2, <1>4, <2>1 DEF a, Word
<1>13. QED
  BY <1>8, <1>10, <1>11, <1>12 DEF Stacked

\* When the topmost frame is closed the others are as they were.
LEMMA FrameCloses ==
    ASSUME TypeOK, Stacked, frames # <<>>, sp = TopFrame.at, sp' = Plus(sp, 2), mem' = mem,
           frames' = SubSeq(frames, 1, Len(frames) - 1)
    PROVE  Stacked'
<1>. DEFINE n == Len(frames)
<1>1. /\ frames \in Seq(Frames) /\ n \in Nat \ {0}
      /\ frames' \in Seq(Frames) /\ Len(frames') = n - 1
      /\ \A k \in 1 .. n - 1 : frames'[k] = frames[k]
  BY Rests DEF Stacked
<1>. HIDE DEF n
<1>2. ASSUME NEW k \in 1 .. n - 1
      PROVE  frames[k] \in Frames /\ frames[k].at >= sp + 2
  <2>1. k \in 1 .. n /\ n \in 1 .. n /\ k < n
    BY <1>1
  <2>2. QED
    BY <2>1, FramesAbove DEF Stacked, TopFrame, n
<1>3. frames' # <<>> => sp' <= TopFrame'.at
  <2>1. SUFFICES ASSUME frames' # <<>> PROVE sp' <= TopFrame'.at
    OBVIOUS
  <2>2. n - 1 \in 1 .. n - 1 /\ TopFrame' = frames'[n - 1]
    <3>1. Len(frames') # 0
      BY <1>1, <2>1
    <3>2. TopFrame' = frames'[Len(frames')]
      BY Zenon DEF TopFrame
    <3>3. QED
      BY <1>1, <3>1, <3>2
  <2>3. TopFrame' \in Frames /\ TopFrame'.at >= sp + 2
    BY <1>1, <1>2, <2>2
  <2>4. QED
    BY <2>3, FramesHaveWords, WordsAreInts DEF TypeOK, Plus
<1>4. \A k \in 1 .. Len(frames') : Holds(mem', frames'[k])
  BY <1>1 DEF Stacked, n
<1>5. \A j, k \in 1 .. Len(frames') : j < k => frames'[j].at >= frames'[k].at + 2
  BY <1>1 DEF Stacked, n
<1>6. QED
  BY <1>1, <1>3, <1>4, <1>5 DEF Stacked

LEMMA CellsAbove ==
    ASSUME TypeOK, Stacked, NEW c \in Cells
    PROVE  c \in Ram /\ c \in Int /\ sp \in Int /\ c >= sp /\ frames # <<>>
<1>1. PICK k \in 1 .. Len(frames) : c \in {frames[k].at, frames[k].at + 1}
  BY DEF Cells
<1>2. Holds(mem, frames[k]) /\ frames[k] \in Frames /\ sp <= frames[k].at
  BY FramesAbove DEF Stacked
<1>3. frames[k].at \in Int /\ sp \in Int /\ frames # <<>>
  BY <1>2, FramesHaveWords, WordsAreInts DEF TypeOK
<1>4. c \in Ram
  BY <1>1, <1>2 DEF Holds
<1>5. QED
  BY <1>1, <1>2, <1>3, <1>4

\* What carefulness asks of an instruction that runs.
LEMMA RunsCarefully ==
    ASSUME Careful, NEW i \in Code[pc], Instruction(i)
    PROVE  Keeps(i)
<1>1. Fetch(i)
  BY DEF Instruction, Plain, Load, LoadSP, SetSP, Push, Pop, NotTaken, Jump, Call,
         Return, Switch, Halt, Stop, Undefined
<1>2. QED
  BY <1>1 DEF Fetch, Careful

\* An instruction that opens no frame and closes none.
LEMMA OtherStays ==
    ASSUME TypeOK, Stacked, NEW i \in Code[pc], Keeps(i), Other(i)
    PROVE  Stacked'
<1>1. /\ i \in Row /\ i.arg \in Word /\ sp \in Word /\ Bus \in BusType /\ Bus.mem = mem
      /\ frames' = frames /\ i.op \notin {"ret", "reti", "call"}
  BY FetchedRow, BusIsBus DEF Row, Bus, TypeOK, Other
<1>2. frames # <<>> => TopFrame \in Frames /\ sp <= TopFrame.at
  BY Tops DEF Stacked, TopFrame
<1>3. frames # <<>> => sp <= TopFrame.at /\ TopFrame.at \in Int /\ TopFrame.at < NWords
                       /\ sp \in Int /\ NWords \in Int
  BY <1>1, <1>2, FramesHaveWords, WordsAreInts
<1>4. CASE mem' = mem /\ sp' = sp
  BY <1>1, <1>2, <1>4, FramesStay
<1>5. CASE Load(i)
  <2>1. PICK v \in Byte : SetBus(Poke(Bus, i.arg, v))
    BY <1>5 DEF Load
  <2>2. mem' = Poke(Bus, i.arg, v).mem /\ sp' = sp /\ i.arg \notin Cells
    BY <1>5, <2>1 DEF SetBus, Load, Keeps
  <2>3. ASSUME NEW c \in Cells PROVE mem'[c] = mem[c]
    BY <1>1, <2>2, CellsAbove, PokeMemory
  <2>4. QED
    BY <1>1, <1>2, <2>2, <2>3, FramesStay
<1>6. CASE LoadSP(i)
  <2>1. /\ mem' = Poke16(Bus, i.arg, sp).mem /\ sp' = sp
        /\ {i.arg, Plus(i.arg, 1)} \cap Cells = {}
    BY <1>6 DEF SetBus, LoadSP, Keeps
  <2>2. ASSUME NEW c \in Cells PROVE mem'[c] = mem[c]
    BY <1>1, <2>1, CellsAbove, Poke16Memory
  <2>3. QED
    BY <1>1, <1>2, <2>1, <2>2, FramesStay
<1>7. CASE SetSP(i)
  <2>1. sp' = i.arg /\ mem' = mem /\ (frames = <<>> \/ i.arg <= TopFrame.at)
    BY <1>7 DEF SetSP, Keeps
  <2>2. QED
    BY <1>1, <2>1, FramesStay
<1>8. CASE Push(i)
  <2>1. PICK w \in Data : SetBus(Poke16(Bus, Minus(sp, 2), w))
    BY <1>8 DEF Push
  <2>2. /\ mem' = Poke16(Bus, Minus(sp, 2), w).mem /\ sp' = Minus(sp, 2) /\ Room
        /\ w \in Word
    BY <1>8, <2>1, BootAssumption DEF SetBus, Push, Keeps
  <2>3. sp \in Int /\ Minus(sp, 2) = sp - 2 /\ Plus(Minus(sp, 2), 1) = sp - 1
    BY <1>1, <2>2, OneBack, WordsAreInts DEF Room, Minus
  <2>4. ASSUME NEW c \in Cells PROVE mem'[c] = mem[c]
    <3>1. c \in Ram /\ c # sp - 2 /\ c # sp - 1
      BY <2>3, CellsAbove
    <3>2. QED
      BY <1>1, <2>2, <2>3, <3>1, Poke16Memory
  <2>5. frames # <<>> => sp' <= TopFrame.at
    BY <1>3, <2>2, <2>3
  <2>6. QED
    BY <1>1, <2>4, <2>5, FramesStay
<1>9. CASE Pop(i)
  <2>1. sp' = Plus(sp, 2) /\ mem' = mem /\ (frames = <<>> \/ sp + 2 <= TopFrame.at)
    BY <1>9 DEF Pop, Keeps
  <2>2. frames # <<>> => sp' <= TopFrame.at
    BY <1>3, <2>1 DEF Plus
  <2>3. QED
    BY <1>1, <2>1, <2>2, FramesStay
<1>10. CASE Call(i) \/ Return(i)
  BY <1>1, <1>10 DEF Call, Return
<1>11. QED
  BY <1>4, <1>5, <1>6, <1>7, <1>8, <1>9, <1>10
  DEF Other, Instruction, Plain, NotTaken, Jump, Switch, Halt, Stop, Undefined

\* Calls and requests push, returns release, and no frame is disturbed meanwhile.
LEMMA StackedStep ==
    ASSUME TypeOK, Stacked, Careful, [SNext]_svars
    PROVE  Stacked'
<1>1. frames # <<>> => sp <= TopFrame.at
  BY DEF Stacked
<1>2. CASE mem' = mem /\ sp' = sp /\ frames' = frames
  BY <1>1, <1>2, FramesStay
<1>3. CASE Enter
  <2>. DEFINE b == Poke16(Bus, Minus(sp, 2), pc)
  <2>1. PICK s \in Pending : SetBus([b EXCEPT !.iflag = b.iflag \ {s}])
    BY <1>3 DEF Enter, Dispatch
  <2>2. pc \in Word /\ b \in BusType
    BY BusIsBus, Poke16Type DEF TypeOK
  <2>3. mem' = b.mem
    BY <2>1, <2>2 DEF SetBus, BusType
  <2>4. Room /\ sp' = Minus(sp, 2) /\ frames' = Append(frames, Frame("handler", pc))
    BY <1>3, <2>1 DEF Enter, Dispatch, Careful
  <2>5. QED
    BY <2>2, <2>3, <2>4, FrameOpens
<1>4. ASSUME NEW i \in Code[pc], CallFrame(i) PROVE Stacked'
  <2>1. Keeps(i) /\ i.op = "call"
    BY <1>4, RunsCarefully DEF CallFrame, Instruction, Call
  <2>2. /\ Room /\ sp' = Minus(sp, 2) /\ mem' = Poke16(Bus, Minus(sp, 2), After(i)).mem
        /\ frames' = Append(frames, Frame("call", After(i)))
    BY <1>4, <2>1 DEF CallFrame, Call, SetBus, Keeps
  <2>3. After(i) \in Word
    BY FetchedRow
  <2>4. QED
    BY <2>2, <2>3, FrameOpens
<1>5. ASSUME NEW i \in Code[pc], ReturnFrame(i) PROVE Stacked'
  <2>1. Keeps(i) /\ mem' = mem /\ sp' = Plus(sp, 2) /\ i.op \in {"ret", "reti"}
    BY <1>5, RunsCarefully DEF ReturnFrame, Instruction, Return
  <2>2. CASE frames = <<>>
    <3>1. frames' = frames
      BY <1>5, <2>2 DEF ReturnFrame
    <3>2. QED
      BY <2>1, <2>2, <3>1, FramesStay
  <2>3. CASE frames # <<>>
    <3>1. frames' = SubSeq(frames, 1, Len(frames) - 1) /\ sp = TopFrame.at
      BY <1>5, <2>1, <2>3 DEF ReturnFrame, Keeps
    <3>2. QED
      BY <2>1, <2>3, <3>1, FrameCloses
  <2>4. QED
    BY <2>2, <2>3
<1>6. ASSUME NEW i \in Code[pc], Other(i) PROVE Stacked'
  BY <1>6, RunsCarefully, OtherStays DEF Other
<1>7. ASSUME NEW i \in Code[pc], SkipFrame(i) PROVE Stacked'
  BY <1>2, <1>7 DEF SkipFrame, NotTaken
<1>8. CASE (Sleep \/ Wait) /\ UNCHANGED frames
  BY <1>2, <1>8 DEF Sleep, Wait
<1>9. ASSUME NEW s \in Source, Interrupt(s), UNCHANGED frames PROVE Stacked'
  BY <1>2, <1>9 DEF Interrupt
<1>10. CASE UNCHANGED svars
  BY <1>2, <1>10 DEF svars, vars
<1>11. QED
  BY <1>3, <1>4, <1>5, <1>6, <1>7, <1>8, <1>9, <1>10 DEF SNext, STick

\* Whatever holds its address reads as it.
LEMMA HoldsReads ==
    ASSUME TypeOK, NEW f \in Frames, Holds(mem, f)
    PROVE  Peek16(f.at) = {f.ret}
<1>1. f.at \in Int /\ f.at + 1 \in Word /\ f.ret \in Word /\ NWords \in Int
  BY FramesHaveWords, WordsAreInts DEF Holds
<1>2. Plus(f.at, 1) = f.at + 1
  BY <1>1, WordsAreInts DEF Plus
<1>3. Peek(f.at) = {Lo[f.ret]} /\ Peek(f.at + 1) = {Hi[f.ret]}
  <2>1. \A c \in Ram : Peek(c) = {mem[c]}
    BY RegistersAssumption DEF Peek
  <2>2. f.at \in Ram /\ f.at + 1 \in Ram
    BY DEF Holds
  <2>3. QED
    BY <2>1, <2>2 DEF Holds
<1>4. Join[Lo[f.ret]][Hi[f.ret]] = f.ret
  BY <1>1, WordsAssumption
<1>5. QED
  BY <1>2, <1>3, <1>4 DEF Peek16

LEMMA StackedIntact == ASSUME TypeOK, Stacked PROVE FramesIntact
<1>1. ASSUME NEW k \in 1 .. Len(frames) PROVE Peek16(frames[k].at) = {frames[k].ret}
  BY FramesAbove, HoldsReads DEF Stacked
<1>2. QED
  BY <1>1 DEF Stacked, TopFrame, FramesIntact

\* The frames of a careful program are there when they are returned to, interrupted
\* wherever it may be: nothing that is pushed, popped or served in between writes
\* over one.
THEOREM FramesStayIntact == SSpec /\ []Careful => []FramesIntact
<1>1. SInit => Stacked
  BY DEF SInit, Stacked
<1>2. TypeOK /\ Stacked /\ Careful /\ [SNext]_svars => Stacked'
  BY StackedStep
<1>3. TypeOK /\ Stacked => FramesIntact
  BY StackedIntact
<1>4. SInit => IInv
  BY InitIInv DEF SInit
<1>5. IInv /\ [SNext]_svars => IInv'
  BY StepIInv, FramesAside DEF svars
<1>6. IInv => TypeOK
  BY DEF IInv
<1>7. QED
  BY <1>1, <1>2, <1>3, <1>4, <1>5, <1>6, PTL DEF SSpec

\* A return of a careful program, from a call or a handler, goes back to where it
\* was opened.
LEMMA ReturnStep ==
    ASSUME TypeOK, Stacked, Careful, SNext, Len(frames') < Len(frames)
    PROVE  sp = TopFrame.at /\ pc' = TopFrame.ret
<1>1. frames \in Seq(Frames) /\ Len(frames) \in Nat
  BY Tops DEF Stacked
<1>2. frames' # frames
  BY <1>1
<1>3. ASSUME NEW f \in Frames, frames' = Append(frames, f) PROVE FALSE
  BY <1>1, <1>3, Tops
<1>4. PICK i \in Code[pc] : ReturnFrame(i)
  <2>1. ASSUME Enter PROVE FALSE
    <3>1. Frame("handler", pc) \in Frames
      BY <2>1, WordArithmetic DEF Enter, Dispatch, Frame, Frames, TypeOK
    <3>2. QED
      BY <1>3, <2>1, <3>1 DEF Enter
  <2>2. ASSUME NEW i \in Code[pc], CallFrame(i) PROVE FALSE
    <3>1. Frame("call", After(i)) \in Frames
      BY <2>2, FetchedRow, WordArithmetic DEF CallFrame, Call, Frame, Frames, TypeOK
    <3>2. QED
      BY <1>3, <2>2, <3>1 DEF CallFrame
  <2>3. QED
    BY <1>2, <2>1, <2>2 DEF SNext, STick, Other, SkipFrame
<1>5. frames # <<>>
  BY <1>2, <1>4 DEF ReturnFrame
<1>6. Keeps(i) /\ i.op \in {"ret", "reti"} /\ pc' \in Peek16(sp)
  BY <1>4, RunsCarefully DEF ReturnFrame, Return, Instruction
<1>7. sp = TopFrame.at
  BY <1>5, <1>6 DEF Keeps
<1>8. TopFrame \in Frames /\ Holds(mem, TopFrame)
  BY <1>1, <1>5, Tops DEF Stacked, TopFrame
<1>9. QED
  BY <1>6, <1>7, <1>8, HoldsReads

THEOREM ReturnsGoBack == SSpec /\ []Careful => ReturnsWhereItLeft
<1>1. SInit => Stacked
  BY DEF SInit, Stacked
<1>2. TypeOK /\ Stacked /\ Careful /\ [SNext]_svars => Stacked'
  BY StackedStep
<1>3. TypeOK /\ Stacked /\ Careful /\ [SNext]_svars
      => [Len(frames') < Len(frames) => /\ sp = frames[Len(frames)].at
                                        /\ pc' = frames[Len(frames)].ret]_svars
  BY ReturnStep DEF TopFrame
<1>4. SInit => IInv
  BY InitIInv DEF SInit
<1>5. IInv /\ [SNext]_svars => IInv'
  BY StepIInv, FramesAside DEF svars
<1>6. IInv => TypeOK
  BY DEF IInv
<1>7. QED
  BY <1>1, <1>2, <1>3, <1>4, <1>5, <1>6, PTL DEF SSpec, ReturnsWhereItLeft

\* The master switch is off from the dispatch to the RETI, which closes its handler
\* as it turns the switch on.
LEMMA HandlerStep ==
    ASSUME TypeOK, Stacked, HandlersDoNotNest, Careful, [SNext]_svars
    PROVE  HandlersDoNotNest'
<1>. DEFINE n == Len(frames)
<1>1. /\ frames \in Seq(Frames) /\ n \in Nat /\ (frames = <<>> <=> n = 0)
      /\ ime \in BOOLEAN
  BY Tops DEF Stacked, TypeOK
<1>2. Handlers' = {k \in 1 .. Len(frames') : frames'[k].kind = "handler"}
  BY Zenon DEF Handlers
<1>3. ASSUME NEW f \in Frames, frames' = Append(frames, f)
      PROVE  Handlers' = Handlers \cup (IF f.kind = "handler" THEN {n + 1} ELSE {})
  <2>1. /\ Len(frames') = n + 1 /\ frames'[n + 1] = f
        /\ \A k \in 1 .. n : frames'[k] = frames[k]
    BY <1>1, <1>3, Tops
  <2>. HIDE DEF n
  <2>2. 1 .. n + 1 = (1 .. n) \cup {n + 1} /\ n + 1 \notin 1 .. n
    BY <1>1
  <2>3. Handlers = {k \in 1 .. n : frames[k].kind = "handler"}
    BY DEF Handlers, n
  <2>4. QED
    BY <1>2, <2>1, <2>2, <2>3
<1>4. CASE frames' = frames /\ ime' = ime
  BY <1>2, <1>4 DEF HandlersDoNotNest, Handlers
<1>5. CASE Enter
  <2>1. ime /\ ~ime' /\ frames' = Append(frames, Frame("handler", pc))
    BY <1>5 DEF Enter, Dispatch
  <2>2. Frame("handler", pc) \in Frames /\ Frame("handler", pc).kind = "handler"
    BY <1>5, WordArithmetic DEF Enter, Dispatch, Frame, Frames, TypeOK
  <2>3. Handlers = {}
    BY <2>1 DEF HandlersDoNotNest
  <2>4. Handlers' = {n + 1}
    BY <1>3, <2>1, <2>2, <2>3
  <2>5. QED
    BY <2>1, <2>4, Zenon DEF HandlersDoNotNest
<1>6. ASSUME NEW i \in Code[pc], CallFrame(i) PROVE HandlersDoNotNest'
  <2>1. ime' = ime /\ frames' = Append(frames, Frame("call", After(i)))
    BY <1>6 DEF CallFrame, Call
  <2>2. Frame("call", After(i)) \in Frames /\ Frame("call", After(i)).kind # "handler"
    BY <1>6, FetchedRow, WordArithmetic DEF CallFrame, Call, Frame, Frames, TypeOK
  <2>3. Handlers' = Handlers
    BY <1>3, <2>1, <2>2
  <2>4. QED
    BY <2>1, <2>3, Zenon DEF HandlersDoNotNest
<1>7. ASSUME NEW i \in Code[pc], ReturnFrame(i) PROVE HandlersDoNotNest'
  <2>1. Keeps(i) /\ (ime' <=> ime \/ i.op = "reti") /\ i.op \in {"ret", "reti"}
    BY <1>7, RunsCarefully DEF ReturnFrame, Return, Instruction
  <2>2. CASE frames = <<>>
    <3>1. Handlers' = {}
      BY <1>1, <1>2, <1>7, <2>2 DEF ReturnFrame
    <3>2. QED
      BY <3>1, Zenon DEF HandlersDoNotNest
  <2>3. CASE frames # <<>>
    <3>1. /\ Len(frames') = n - 1 /\ n \in Nat \ {0}
          /\ \A k \in 1 .. n - 1 : frames'[k] = frames[k]
      BY <1>1, <1>7, <2>3, Rests DEF ReturnFrame
    <3>2. Handlers' \subseteq Handlers /\ n \notin Handlers'
      <4>. HIDE DEF n
      <4>1. Handlers = {k \in 1 .. n : frames[k].kind = "handler"}
        BY DEF Handlers, n
      <4>2. QED
        BY <1>2, <3>1, <4>1
    <3>3. i.op = "reti" => Handlers' = {}
      <4>1. i.op = "reti" => Handlers = {} \/ n \in Handlers
        BY <2>1, <3>1 DEF Keeps, TopFrame, Handlers
      <4>2. QED
        BY <3>2, <4>1 DEF HandlersDoNotNest
    <3>4. ime => Handlers' = {}
      BY <3>2 DEF HandlersDoNotNest
    <3>5. \A j, k \in Handlers' : j = k
      BY <3>2 DEF HandlersDoNotNest
    <3>6. QED
      BY <2>1, <3>3, <3>4, <3>5 DEF HandlersDoNotNest
  <2>4. QED
    BY <2>2, <2>3
<1>8. ASSUME NEW i \in Code[pc], Other(i) PROVE HandlersDoNotNest'
  <2>1. Keeps(i) /\ frames' = frames /\ i.op \notin {"ret", "reti", "call"}
    BY <1>8, RunsCarefully DEF Other
  <2>2. Handlers' = Handlers
    BY <1>2, <2>1 DEF Handlers
  <2>3. CASE Switch(i)
    <3>1. ime' => Handlers = {}
      BY <2>1, <2>3 DEF Switch, Keeps
    <3>2. QED
      BY <2>2, <3>1, Zenon DEF HandlersDoNotNest
  <2>4. CASE ime' = ime
    BY <1>4, <2>1, <2>4
  <2>5. QED
    BY <1>8, <2>1, <2>3, <2>4
    DEF Other, Instruction, Plain, Load, LoadSP, SetSP, Push, Pop, NotTaken, Jump, Call,
        Return, Halt, Stop, Undefined
<1>9. ASSUME NEW i \in Code[pc], SkipFrame(i) PROVE HandlersDoNotNest'
  BY <1>4, <1>9 DEF SkipFrame, NotTaken
<1>10. CASE (Sleep \/ Wait) /\ UNCHANGED frames
  BY <1>4, <1>10 DEF Sleep, Wait
<1>11. ASSUME NEW s \in Source, Interrupt(s), UNCHANGED frames PROVE HandlersDoNotNest'
  BY <1>4, <1>11 DEF Interrupt
<1>12. CASE UNCHANGED svars
  BY <1>4, <1>12 DEF svars, vars
<1>13. QED
  BY <1>5, <1>6, <1>7, <1>8, <1>9, <1>10, <1>11, <1>12 DEF SNext, STick

\* Handlers of a careful program take turns, however fast the requests come.
THEOREM HandlersTakeTurns == SSpec /\ []Careful => []HandlersDoNotNest
<1>1. SInit => Stacked /\ HandlersDoNotNest
  BY DEF SInit, Stacked, HandlersDoNotNest, Handlers
<1>2. TypeOK /\ Stacked /\ Careful /\ [SNext]_svars => Stacked'
  BY StackedStep
<1>3. TypeOK /\ Stacked /\ HandlersDoNotNest /\ Careful /\ [SNext]_svars => HandlersDoNotNest'
  BY HandlerStep
<1>4. SInit => IInv
  BY InitIInv DEF SInit
<1>5. IInv /\ [SNext]_svars => IInv'
  BY StepIInv, FramesAside DEF svars
<1>6. IInv => TypeOK
  BY DEF IInv
<1>7. QED
  BY <1>1, <1>2, <1>3, <1>4, <1>5, <1>6, PTL DEF SSpec
=============================================================================
