--------------------------- MODULE Storage_proofs ---------------------------
(***************************************************************************)
(* Proofs about what a cartridge stores and a machine saves. Of module     *)
(* Mapper, for every set of images, every program and every offset: no     *)
(* access through the bank registers leaves the image or the cartridge's   *)
(* RAM, and the chips other than MBC5 show the bank that was selected      *)
(* last. Of module SaveState, for any number of frames, saves and          *)
(* restores: what a restore accepts, where it stops, and that it leaves    *)
(* no memory in pieces.                                                    *)
(***************************************************************************)
EXTENDS Mapper, SaveState, SequenceTheorems, TLAPS

\* The sizes in bytes of the images and of the RAMs the loader accepts; MBC2's
\* RAM is built in.
RomSizes == {32768, 65536, 131072, 262144, 524288, 1048576, 2097152, 4194304,
             1179648, 1310720, 1572864}
RamSizes == {0, 2048, 8192, 32768, 65536, 131072}

Sizes == /\ rom \in RomSizes \cup {0}
         /\ ram \in RamSizes \cup {512}
         /\ number = 2 => ram = 512

\* The registers as the history of writes determines them.
Selected == /\ number = 1 => rom_bank = lo % 32 /\ ram_bank = hi % 4
            /\ number = 2 => rom_bank = lo % 16
            /\ number = 3 => rom_bank = lo % 64

ModeKept == number = 1 => (extra_rom_bits <=> mode = 0)

\* The two halves of the type invariant.
Numbers == /\ number \in {0, 1, 2, 3, 5}
           /\ rom_bank \in Bank /\ ram_bank \in 0 .. 15
           /\ rom \in Nat /\ ram \in Nat
           /\ lo \in Bank /\ hi \in Bank /\ mode \in 0 .. 1
Switches == ram_enable \in BOOLEAN /\ extra_rom_bits \in BOOLEAN

IInv == Numbers /\ Switches /\ Sizes /\ Selected /\ ModeKept

LEMMA TypeHalves == Numbers /\ Switches => TypeOK
BY DEF Numbers, Switches, TypeOK

-----------------------------------------------------------------------------
(* The loader and the arithmetic of the registers *)

\* What an accepted image is known to be.
LEMMA AcceptedImage ==
    ASSUME NEW h \in Header, Accepted(h)
    PROVE  /\ h.size \in RomSizes
           /\ Chip(h.cart) \in {0, 1, 2, 3, 5}
           /\ RamSize(h.ram) \in RamSizes
<1>1. h.cart \in 0 .. 255 /\ h.ram \in 0 .. 255 /\ h.rom \in 0 .. 255
  BY DEF Header
<1>2. Chip(h.cart) \in {0, 1, 2, 3, 5}
  BY <1>1 DEF Accepted, Chip
<1>3. RamSize(h.ram) \in RamSizes
  BY <1>1 DEF Accepted, RamSize, kRamBankSize, RamSizes
<1>4. Banks(h.rom) \in {0, 2, 4, 8, 16, 32, 64, 128, 256, 72, 80, 96}
  BY <1>1 DEF Banks
<1>5. h.size \in RomSizes
  BY <1>4 DEF Accepted, kRomBankSize, RomSizes
<1>6. QED
  BY <1>2, <1>3, <1>5

\* The bitwise or of two bytes is a byte.
LEMMA OrByte ==
    ASSUME NEW a \in Bank, NEW b \in Bank
    PROVE  Or(a, b) \in Bank
<1>. DEFINE B(k) == IF (a \div k) % 2 = 1 \/ (b \div k) % 2 = 1 THEN k ELSE 0
            b1 == B(1)  b2 == B(2)  b4 == B(4)  b8 == B(8)
            b16 == B(16)  b32 == B(32)  b64 == B(64)  b128 == B(128)
<1>1. /\ b1 \in 0 .. 1 /\ b2 \in 0 .. 2 /\ b4 \in 0 .. 4 /\ b8 \in 0 .. 8
      /\ b16 \in 0 .. 16 /\ b32 \in 0 .. 32 /\ b64 \in 0 .. 64 /\ b128 \in 0 .. 128
  OBVIOUS
<1>2. Or(a, b) = b1 + b2 + b4 + b8 + b16 + b32 + b64 + b128
  BY DEF Or
<1>. HIDE DEF b1, b2, b4, b8, b16, b32, b64, b128
<1>3. b1 + b2 + b4 + b8 + b16 + b32 + b64 + b128 \in 0 .. 255
  BY <1>1
<1>4. QED
  BY <1>2, <1>3 DEF Bank

-----------------------------------------------------------------------------
(* The invariant *)

LEMMA InitIInv == Init => IInv
<1>. SUFFICES ASSUME Init PROVE IInv
  OBVIOUS
<1>1. Numbers
  BY DEF Init, Numbers, Bank
<1>2. Switches
  BY DEF Init, Switches
<1>3. Sizes
  BY DEF Init, Sizes, RamSizes
<1>4. Selected /\ ModeKept
  BY DEF Init, Selected, ModeKept
<1>5. QED
  BY <1>1, <1>2, <1>3, <1>4 DEF IInv

LEMMA LoadIInv ==
    ASSUME NEW h \in Headers, Load(h)
    PROVE  IInv'
<1>1. h \in Header /\ Accepted(h)
  <2>1. h \in Header
    BY ImageAssumption
  <2>2. QED
    BY <2>1 DEF Load
<1>2. /\ h.size \in RomSizes /\ RamSize(h.ram) \in RamSizes
      /\ Chip(h.cart) \in {0, 1, 2, 3, 5}
  BY <1>1, AcceptedImage
<1>3. Sizes'
  BY <1>2 DEF Load, Sizes
<1>4. rom' \in Nat /\ ram' \in Nat
  BY <1>3 DEF Sizes, RomSizes, RamSizes
<1>5. Numbers'
  BY <1>2, <1>4 DEF Load, Numbers, Bank
<1>6. Switches'
  BY DEF Load, Switches
<1>7. Selected'
  BY DEF Load, Selected
<1>8. ModeKept'
  BY DEF Load, ModeKept
<1>9. QED
  BY <1>3, <1>5, <1>6, <1>7, <1>8 DEF IInv

\* A write to a register keeps the registers in range and in step with the
\* history.
LEMMA WriteIInv ==
    ASSUME IInv, NEW addr \in Addr, NEW data \in Data, WriteROM(addr, data)
    PROVE  IInv'
<1>. USE DEF IInv
<1>1. data \in Bank
  BY DataAssumption DEF Bank
<1>2. lo' \in Bank /\ hi' \in Bank /\ mode' \in 0 .. 1
  BY <1>1 DEF WriteROM, Record, Numbers, Bank
<1>3. rom' = rom /\ ram' = ram /\ number' = number
  BY DEF WriteROM, registers
<1>4. Sizes'
  BY <1>3 DEF Sizes
<1>5. Record(addr, data)
  BY DEF WriteROM
<1>6. CASE number = 0
  <2>1. UNCHANGED registers
    BY <1>6 DEF WriteROM
  <2>2. Numbers'
    BY <1>2, <1>3, <2>1 DEF Numbers, registers
  <2>3. Switches'
    BY <2>1 DEF Switches, registers
  <2>4. Selected' /\ ModeKept'
    BY <1>3, <1>6 DEF Selected, ModeKept
  <2>5. QED
    BY <1>4, <2>2, <2>3, <2>4
<1>7. CASE WriteMBC1Register(addr, data)
  <2>1. number = 1
    BY <1>7 DEF WriteMBC1Register
  <2>2. rom_bank' = IF Quarter(addr) = 1 THEN data % 32 ELSE rom_bank
    BY <1>7 DEF WriteMBC1Register
  <2>3. ram_bank' = IF Quarter(addr) = 2 THEN data % 4 ELSE ram_bank
    BY <1>7 DEF WriteMBC1Register
  <2>4. Numbers'
    BY <1>1, <1>2, <1>3, <2>2, <2>3 DEF Numbers, Bank
  <2>5. Switches'
    BY <1>7 DEF Switches, WriteMBC1Register, Enables
  <2>6. Selected'
    BY <1>3, <1>5, <2>1, <2>2, <2>3 DEF Selected, Record
  <2>7. ASSUME Quarter(addr) = 3 PROVE ModeKept'
    <3>1. extra_rom_bits' <=> data % 2 = 0
      BY <1>7, <2>7 DEF WriteMBC1Register
    <3>2. mode' = data % 2
      BY <1>5, <2>1, <2>7 DEF Record
    <3>3. extra_rom_bits' <=> mode' = 0
      BY <3>1, <3>2
    <3>4. QED
      BY <3>3 DEF ModeKept
  <2>8. ASSUME Quarter(addr) # 3 PROVE ModeKept'
    <3>1. extra_rom_bits' = extra_rom_bits
      BY <1>7, <2>8 DEF WriteMBC1Register
    <3>2. mode' = mode
      BY <1>5, <2>8 DEF Record
    <3>3. extra_rom_bits <=> mode = 0
      BY <2>1 DEF ModeKept
    <3>4. QED
      BY <3>1, <3>2, <3>3 DEF ModeKept
  <2>9. QED
    BY <1>4, <2>4, <2>5, <2>6, <2>7, <2>8
<1>8. CASE WriteMBC2Register(addr, data)
  <2>1. number = 2
    BY <1>8 DEF WriteMBC2Register
  <2>2. rom_bank' = (IF Quarter(addr) = 1 THEN data % 16 ELSE rom_bank) /\ ram_bank' = ram_bank
    BY <1>8 DEF WriteMBC2Register
  <2>3. Numbers'
    BY <1>1, <1>2, <1>3, <2>2 DEF Numbers, Bank
  <2>4. Switches'
    BY <1>8 DEF Switches, WriteMBC2Register, Enables
  <2>5. Selected'
    BY <1>3, <1>5, <2>1, <2>2 DEF Selected, Record
  <2>6. ModeKept'
    BY <1>3, <2>1 DEF ModeKept
  <2>7. QED
    BY <1>4, <2>3, <2>4, <2>5, <2>6
<1>9. CASE WriteMBC3Register(addr, data)
  <2>1. number = 3
    BY <1>9 DEF WriteMBC3Register
  <2>2. /\ rom_bank' = IF Quarter(addr) = 1 THEN data % 64 ELSE rom_bank
        /\ ram_bank' = IF Quarter(addr) = 2 THEN data % 16 ELSE ram_bank
    BY <1>9 DEF WriteMBC3Register
  <2>3. Numbers'
    BY <1>1, <1>2, <1>3, <2>2 DEF Numbers, Bank
  <2>4. Switches'
    BY <1>9 DEF Switches, WriteMBC3Register, Enables
  <2>5. Selected'
    BY <1>3, <1>5, <2>1, <2>2 DEF Selected, Record
  <2>6. ModeKept'
    BY <1>3, <2>1 DEF ModeKept
  <2>7. QED
    BY <1>4, <2>3, <2>4, <2>5, <2>6
<1>10. CASE WriteMBC5Register(addr, data)
  <2>1. number = 5
    BY <1>10 DEF WriteMBC5Register
  <2>2. ram_bank' = IF Eighth(addr) \in {4, 5} THEN data % 16 ELSE ram_bank
    BY <1>10 DEF WriteMBC5Register
  <2>3. rom_bank' \in {Or(16 * (rom_bank \div 16), data), Or(rom_bank % 16, data % 2), rom_bank}
    BY <1>10 DEF WriteMBC5Register
  <2>4. 16 * (rom_bank \div 16) \in Bank /\ rom_bank % 16 \in Bank /\ data % 2 \in Bank
    BY <1>1 DEF Numbers, Bank
  <2>5. rom_bank' \in Bank
    BY <1>1, <2>3, <2>4, OrByte DEF Numbers
  <2>6. Numbers'
    BY <1>1, <1>2, <1>3, <2>2, <2>5 DEF Numbers, Bank
  <2>7. Switches'
    BY <1>10 DEF Switches, WriteMBC5Register, Enables
  <2>8. Selected' /\ ModeKept'
    BY <1>3, <2>1 DEF Selected, ModeKept
  <2>9. QED
    BY <1>4, <2>6, <2>7, <2>8
<1>11. QED
  BY <1>6, <1>7, <1>8, <1>9, <1>10 DEF WriteROM

LEMMA StepIInv == IInv /\ [Next]_vars => IInv'
<1>. SUFFICES ASSUME IInv, [Next]_vars PROVE IInv'
  OBVIOUS
<1>1. ASSUME NEW h \in Headers, Load(h) PROVE IInv'
  BY <1>1, LoadIInv
<1>2. CASE Unload
  <2>1. Numbers'
    BY <1>2 DEF Unload, Numbers, Bank
  <2>2. Switches'
    BY <1>2 DEF Unload, Switches
  <2>3. Sizes'
    BY <1>2 DEF Unload, Sizes, RamSizes
  <2>4. Selected' /\ ModeKept'
    BY <1>2 DEF Unload, Selected, ModeKept
  <2>5. QED
    BY <2>1, <2>2, <2>3, <2>4 DEF IInv
<1>3. ASSUME NEW addr \in Addr, NEW data \in Data, WriteROM(addr, data) PROVE IInv'
  BY <1>3, WriteIInv
<1>4. CASE UNCHANGED vars
  BY <1>4 DEF vars, registers, IInv, Numbers, Switches, Sizes, Selected, ModeKept
<1>5. QED
  BY <1>1, <1>2, <1>3, <1>4 DEF Next

LEMMA Invariance == Spec => []IInv
BY InitIInv, StepIInv, PTL DEF Spec

-----------------------------------------------------------------------------
(* Bounds *)

\* The registers and sizes always have the values of their types.
THEOREM TypeCorrect == Spec => []TypeOK
<1>1. IInv => TypeOK
  BY TypeHalves DEF IInv
<1>2. QED
  BY <1>1, Invariance, PTL

\* The bank shown always exists.
LEMMA ShownRomExists ==
    ASSUME IInv, rom # 0
    PROVE  /\ ShownRom * kRomBankSize \in Nat
           /\ ShownRom * kRomBankSize + kRomBankSize <= rom
<1>1. SelectedRom \in Nat
  BY DEF SelectedRom, IInv, Numbers, Bank
<1>2. NonzeroRom \in Nat
  BY <1>1 DEF NonzeroRom
<1>3. QED
  BY <1>2 DEF ShownRom, IInv, Sizes, RomSizes, kRomBankSize

\* An offset in a bank that fits below n is below n.
LEMMA InBank ==
    ASSUME NEW start \in Nat, NEW size \in Nat, NEW offset \in 0 .. size - 1,
           NEW n \in Nat, start + size <= n
    PROVE  start + offset \in 0 .. n - 1
OBVIOUS

\* No selection of banks, on any chip and for any image the loader accepts, takes
\* a read of the switchable window outside the image.
THEOREM RomStaysInBounds == Spec => []RomInBounds
<1>1. IInv => RomInBounds
  <2>. SUFFICES ASSUME IInv, rom # 0, NEW offset \in RomOffset
                PROVE  RomIndex(offset) \in 0 .. rom - 1
    BY DEF RomInBounds
  <2>1. offset \in 0 .. kRomBankSize - 1
    BY RomOffsetAssumption
  <2>2. kRomBankSize \in Nat
    BY DEF kRomBankSize
  <2>3. rom \in Nat
    BY DEF IInv, Numbers
  <2>4. ShownRom * kRomBankSize + offset \in 0 .. rom - 1
    BY <2>1, <2>2, <2>3, ShownRomExists, InBank, Zenon
  <2>5. QED
    BY <2>4 DEF RomIndex
<1>2. QED
  BY <1>1, Invariance, PTL

\* No access to the cartridge's RAM reaches beyond its last cell.
THEOREM RamStaysInBounds == Spec => []RamInBounds
<1>1. IInv => RamInBounds
  <2>. SUFFICES ASSUME IInv, NEW offset \in RamOffset, RamIndex(offset) # kInvalidIndex
                PROVE  RamIndex(offset) \in 0 .. ram - 1
    BY DEF RamInBounds
  <2>. DEFINE index == ShownRam * 8192 + offset
              half == IF number = 2 THEN index % 512 ELSE index
  <2>1. offset \in 0 .. 8191 /\ ram \in Nat
    <3>1. offset \in 0 .. 8191
      BY RamOffsetAssumption DEF kRamBankSize
    <3>2. QED
      BY <3>1 DEF IInv, Numbers
  <2>2. ram # 0 /\ RamIndex(offset) = IF ram < 8192 THEN half % ram ELSE half
    BY DEF RamIndex, kRamBankSize
  <2>3. ShownRam \in Nat /\ (ram >= 8192 => (ShownRam + 1) * 8192 <= ram)
    BY <2>2 DEF ShownRam, kRamBankSize, IInv, Numbers, Sizes, RomSizes, RamSizes
  <2>4. index \in Nat /\ half \in Nat /\ (number # 2 => half = index)
    BY <2>1, <2>3
  <2>5. CASE ram >= 8192
    BY <2>1, <2>2, <2>3, <2>4, <2>5 DEF IInv, Sizes
  <2>6. CASE ram < 8192
    <3>1. ram = 512 \/ ram = 2048
      BY <2>1, <2>2, <2>6 DEF IInv, Sizes, RamSizes
    <3>. HIDE DEF half
    <3>2. QED
      BY <2>2, <2>4, <2>6, <3>1
  <2>7. QED
    BY <2>1, <2>5, <2>6
<1>2. QED
  BY <1>1, Invariance, PTL

\* MBC1, MBC2 and, as far as its banks below 64 go, MBC3 show the bank the program
\* selected last, in whatever order the registers were written.
THEOREM SelectionIsShown == Spec => []ShowsSelected
<1>1. IInv => ShowsSelected
  <2>. SUFFICES ASSUME IInv, number \in {1, 2, 3}, Wanted * kRomBankSize < rom,
                       number = 1 => lo % 32 # 0, number = 3 => Wanted \in 1 .. 63
                PROVE  ShownRom = Wanted
    BY DEF ShowsSelected
  <2>1. lo \in 0 .. 255 /\ hi \in 0 .. 255 /\ rom \in Nat
    BY DEF IInv, Numbers, Bank
  <2>2. SelectedRom = Wanted
    <3>1. CASE number = 1 /\ extra_rom_bits
      <4>1. mode = 0 /\ rom_bank = lo % 32 /\ ram_bank = hi % 4
        BY <3>1 DEF IInv, Selected, ModeKept
      <4>2. SelectedRom = (lo % 32) + 32 * ((hi % 4) % 4)
        BY <3>1, <4>1 DEF SelectedRom
      <4>3. Wanted = (lo % 32) + 32 * (hi % 4)
        BY <3>1, <4>1 DEF Wanted
      <4>4. (hi % 4) % 4 = hi % 4
        BY <2>1
      <4>5. QED
        BY <4>2, <4>3, <4>4
    <3>2. CASE number = 1 /\ ~extra_rom_bits
      <4>1. mode # 0 /\ rom_bank = lo % 32
        BY <3>2 DEF IInv, Selected, ModeKept
      <4>2. SelectedRom = lo % 32
        BY <3>2, <4>1 DEF SelectedRom
      <4>3. QED
        BY <2>1, <3>2, <4>1, <4>2 DEF Wanted
    <3>3. CASE number = 2
      BY <3>3 DEF IInv, Selected, Wanted, SelectedRom
    <3>4. CASE number = 3
      <4>1. SelectedRom = lo % 64 /\ Wanted = lo % 128
        BY <3>4 DEF IInv, Selected, Wanted, SelectedRom
      <4>2. lo % 128 < 64 => lo % 64 = lo % 128
        BY <2>1
      <4>3. QED
        BY <3>4, <4>1, <4>2
    <3>5. QED
      BY <3>1, <3>2, <3>3, <3>4
  <2>4. Wanted \in Nat
    BY <2>1 DEF Wanted
  <2>5. number = 1 => Wanted % 32 # 0
    BY <2>1 DEF Wanted
  <2>6. number = 3 => Wanted # 0
    OBVIOUS
  <2>7. NonzeroRom = Wanted
    BY <2>2, <2>5, <2>6 DEF NonzeroRom
  <2>8. QED
    BY <2>1, <2>4, <2>7 DEF ShownRom, kRomBankSize
<1>2. QED
  BY <1>1, Invariance, PTL

-----------------------------------------------------------------------------
(* What a stream holds *)

\* All the words of a stream, one after the other.
Layout == <<"machine", "cpu", "busy", "reg", "interrupts",
            "lcd", "registers", "dot", "frame", "vram", "oam",
            "mapper", "number", "banks", "ram", "joypad", "joyp",
            "timer", "tima", "fulldiv", "audio", "chan1", "ch1", "nr", "sequencer",
            "serial", "sb", "bits", "wram", "hram">>
Words == 30
Names == {Layout[i] : i \in 1 .. Words}

\* Where a component begins and ends in it.
Begins == <<1, 5, 11, 15, 17, 20, 25>>
Ends == <<5, 11, 15, 17, 20, 25, 28>>

Upto(n) == [i \in 1 .. n |-> Layout[i]]

\* It is a list of that many names.
LEMMA LayoutType == Layout \in Seq(Names) /\ Len(Layout) = Words
  <1>1. Layout \in [1 .. Words -> Names]
    BY DEF Layout, Names, Words
  <1> QED
    BY <1>1 DEF Words, Layout

\* The beginning of the list with what comes next.
LEMMA Joins ==
    ASSUME NEW n \in 0 .. Words, NEW t \in Seq(Names), n + Len(t) <= Words,
           \A i \in 1 .. Len(t) : Layout[n + i] = t[i]
    PROVE  Upto(n) \o t = Upto(n + Len(t))
  <1>1. \A i \in 1 .. Words : Layout[i] \in Names
    BY DEF Names
  <1>2. n \in Nat /\ n + Len(t) \in Nat /\ Words \in Nat
    <2>1. n \in Nat /\ Words \in Nat
      BY DEF Words
    <2>2. Len(t) \in Nat
      OBVIOUS
    <2> QED
      BY <2>1, <2>2
  <1>3. Upto(n) \in Seq(Names) /\ Upto(n + Len(t)) \in Seq(Names)
    BY <1>1, <1>2 DEF Upto
  <1>4. Len(Upto(n)) = n /\ Len(Upto(n + Len(t))) = n + Len(t)
    BY <1>2 DEF Upto
  <1>5. Upto(n) \o t \in Seq(Names) /\ Len(Upto(n) \o t) = Len(Upto(n + Len(t)))
    BY <1>3, <1>4
  <1>6. \A i \in 1 .. n + Len(t) : (Upto(n) \o t)[i] = Upto(n + Len(t))[i]
    BY <1>2, <1>3, <1>4 DEF Upto
  <1> QED
    BY <1>3, <1>4, <1>5, <1>6, SeqEqual

\* The elements of two sequences put together.
LEMMA Joined ==
    ASSUME NEW S, NEW s \in Seq(S), NEW t \in Seq(S)
    PROVE  /\ s \o t \in Seq(S) /\ Len(s \o t) = Len(s) + Len(t)
           /\ \A i \in 1 .. Len(s) : (s \o t)[i] = s[i]
           /\ \A i \in 1 .. Len(t) : (s \o t)[Len(s) + i] = t[i]
  OBVIOUS

\* The sound unit with its first channel, word by word.
LEMMA AudioIs == ReadAudio = <<"audio", "chan1", "ch1", "nr", "sequencer">>
  <1> DEFINE T == {"audio", "chan1", "ch1", "nr", "sequencer"}
             a == <<"audio">>
             r == <<"nr", "sequencer">>
             u == <<"audio", "chan1", "ch1", "nr", "sequencer">>
             b == a \o ReadChannel1
             all == b \o r
  <1>1. a \in Seq(T) /\ ReadChannel1 \in Seq(T) /\ r \in Seq(T) /\ u \in Seq(T)
    BY DEF ReadChannel1
  <1>2. Len(a) = 1 /\ Len(ReadChannel1) = 2 /\ Len(r) = 2 /\ Len(u) = 5
    BY DEF ReadChannel1
  <1>3. /\ u[1] = a[1] /\ u[2] = ReadChannel1[1] /\ u[3] = ReadChannel1[2]
        /\ u[4] = r[1] /\ u[5] = r[2]
    BY DEF ReadChannel1
  <1>4. ReadAudio = all
    BY DEF ReadAudio
  <1> HIDE DEF T, u, r, a
  <1>5. /\ b \in Seq(T) /\ Len(b) = Len(a) + Len(ReadChannel1)
        /\ \A i \in 1 .. Len(a) : b[i] = a[i]
        /\ \A i \in 1 .. Len(ReadChannel1) : b[Len(a) + i] = ReadChannel1[i]
    BY <1>1, Joined
  <1> HIDE DEF b
  <1>6. /\ all \in Seq(T) /\ Len(all) = Len(b) + Len(r)
        /\ \A i \in 1 .. Len(b) : all[i] = b[i]
        /\ \A i \in 1 .. Len(r) : all[Len(b) + i] = r[i]
    <2>1. b \in Seq(T) /\ r \in Seq(T)
      BY <1>1, <1>5
    <2> QED
      BY <2>1, Joined
  <1> HIDE DEF all
  <1>7. Len(all) = 5 /\ \A i \in 1 .. 5 : all[i] = u[i]
    <2>1. Len(b) = 3 /\ b[1] = a[1] /\ b[2] = ReadChannel1[1] /\ b[3] = ReadChannel1[2]
      BY <1>2, <1>5
    <2>2. /\ Len(all) = 5 /\ all[1] = b[1] /\ all[2] = b[2] /\ all[3] = b[3]
          /\ all[4] = r[1] /\ all[5] = r[2]
      BY <1>2, <1>6, <2>1
    <2>3. \A i \in 1 .. 5 : i = 1 \/ i = 2 \/ i = 3 \/ i = 4 \/ i = 5
      OBVIOUS
    <2> QED
      BY <1>3, <2>1, <2>2, <2>3
  <1>8. all = u
    BY <1>1, <1>2, <1>6, <1>7, SeqEqual
  <1> QED
    BY <1>4, <1>8 DEF u

\* Each component is a part of the list.
LEMMA Slices ==
    \A k \in 1 .. 7 :
        /\ Components[k] \in Seq(Names)
        /\ Len(Components[k]) = Ends[k] - Begins[k]
        /\ \A i \in 1 .. Ends[k] - Begins[k] : Components[k][i] = Layout[Begins[k] + i]
  <1> DEFINE Slice(c, b, e) == /\ c \in Seq(Names)
                               /\ Len(c) = e - b
                               /\ \A i \in 1 .. e - b : c[i] = Layout[b + i]
  <1>1. Slice(ReadCPU, 1, 5)
    BY DEF ReadCPU, Names, Layout, Words
  <1>2. Slice(ReadLCD, 5, 11)
    BY DEF ReadLCD, Names, Layout, Words
  <1>3. Slice(ReadMapper, 11, 15)
    BY DEF ReadMapper, Names, Layout, Words
  <1>4. Slice(ReadJoypad, 15, 17)
    BY DEF ReadJoypad, Names, Layout, Words
  <1>5. Slice(ReadTimer, 17, 20)
    BY DEF ReadTimer, Names, Layout, Words
  <1>6. Slice(ReadAudio, 20, 25)
    BY AudioIs DEF Names, Layout, Words
  <1>7. Slice(ReadSerial, 25, 28)
    BY DEF ReadSerial, Names, Layout, Words
  <1> HIDE DEF Slice
  <1>8. \A k \in 1 .. 7 : Slice(Components[k], Begins[k], Ends[k])
    BY <1>1, <1>2, <1>3, <1>4, <1>5, <1>6, <1>7 DEF Components, Begins, Ends
  <1> QED
    BY <1>8 DEF Slice

\* The list up to a component, with it.
LEMMA Follows ==
    ASSUME NEW k \in 1 .. 7 PROVE Upto(Begins[k]) \o Components[k] = Upto(Ends[k])
  <1>1. ASSUME NEW n \in 0 .. Words, NEW e \in 0 .. Words, NEW t \in Seq(Names),
               Len(t) = e - n, \A i \in 1 .. e - n : t[i] = Layout[n + i]
        PROVE  Upto(n) \o t = Upto(e)
    <2>1. n + Len(t) = e
      BY <1>1 DEF Words
    <2>2. n + Len(t) <= Words /\ \A i \in 1 .. Len(t) : Layout[n + i] = t[i]
      BY <1>1, <2>1 DEF Words
    <2>3. Upto(n) \o t = Upto(n + Len(t))
      BY <2>2, Joins
    <2> QED
      BY <2>1, <2>3
  <1>2. Begins[k] \in 0 .. Words /\ Ends[k] \in 0 .. Words
    BY DEF Begins, Ends, Words
  <1> QED
    BY <1>1, <1>2, Slices

\* The machine reads all of the list.
LEMMA ReadIs == Read = Upto(Words)
  <1>1. Upto(1) = <<"machine">>
    BY DEF Upto, Layout
  <1>2. Upto(1) \o ReadCPU = Upto(5)
    BY Follows, 1 \in 1 .. 7 DEF Components, Begins, Ends
  <1>3. Upto(5) \o ReadLCD = Upto(11)
    BY Follows, 2 \in 1 .. 7 DEF Components, Begins, Ends
  <1>4. Upto(11) \o ReadMapper = Upto(15)
    BY Follows, 3 \in 1 .. 7 DEF Components, Begins, Ends
  <1>5. Upto(15) \o ReadJoypad = Upto(17)
    BY Follows, 4 \in 1 .. 7 DEF Components, Begins, Ends
  <1>6. Upto(17) \o ReadTimer = Upto(20)
    BY Follows, 5 \in 1 .. 7 DEF Components, Begins, Ends
  <1>7. Upto(20) \o ReadAudio = Upto(25)
    BY Follows, 6 \in 1 .. 7 DEF Components, Begins, Ends
  <1>8. Upto(25) \o ReadSerial = Upto(28)
    BY Follows, 7 \in 1 .. 7 DEF Components, Begins, Ends
  <1>9. Upto(28) \o <<"wram", "hram">> = Upto(30)
    <2> DEFINE t == <<"wram", "hram">>
    <2>1. t \in Seq(Names) /\ Len(t) = 2
      BY DEF Names, Layout, Words
    <2>2. Layout[29] = t[1] /\ Layout[30] = t[2]
      BY DEF Layout
    <2> HIDE DEF t
    <2>3. \A i \in 1 .. 2 : Layout[28 + i] = t[i]
      BY <2>2
    <2>4. 28 \in 0 .. Words /\ 28 + Len(t) <= Words /\ 28 + Len(t) = 30
      BY <2>1 DEF Words
    <2>5. Upto(28) \o t = Upto(28 + Len(t))
      BY <2>1, <2>3, <2>4, Joins
    <2> QED
      BY <2>4, <2>5 DEF t
  <1> QED
    BY <1>1, <1>2, <1>3, <1>4, <1>5, <1>6, <1>7, <1>8, <1>9 DEF Read, Words

\* Every operator>> reads what its operator<< wrote, in the same order.
LEMMA WrittenIs == Written = Read
  BY DEF Written, Read, WriteCPU, WriteLCD, WriteMapper, WriteJoypad, WriteTimer,
         WriteAudio, WriteSerial, WriteChannel1, ReadCPU, ReadLCD, ReadMapper,
         ReadJoypad, ReadTimer, ReadAudio, ReadSerial, ReadChannel1

\* No word is there twice.
LEMMA OnceEach == \A i, j \in 1 .. Words : Layout[i] = Layout[j] => i = j
  BY DEF Layout, Words

\* The length and the words of what is read.
LEMMA ReadFacts ==
    /\ Len(Read) = Words /\ DOMAIN Read = 1 .. Words
    /\ \A i \in 1 .. Words : Read[i] = Layout[i]
    /\ Read \in Seq(Names)
  <1>1. Upto(Words) \in Seq(Names)
    BY DEF Upto, Words, Names
  <1> QED
    BY <1>1, ReadIs DEF Upto, Words

\* What is stored are the names in the list that are no codes.
LEMMA StoredIs ==
    /\ Stored = Names \ Codes
    /\ \A x \in Stored : x \in Members
    /\ \A x \in Members : x \in Names => x \in Stored
    /\ {"ram", "wram", "hram", "number"} \subseteq Stored
  <1>1. Range(Written) = Names
    BY WrittenIs, ReadFacts DEF Range, Names
  <1>2. "ch2" \notin Names /\ "ch3" \notin Names /\ "ch4" \notin Names
    BY DEF Names, Layout, Words
  <1>3. {"ram", "wram", "hram", "number"} \subseteq Names
    BY DEF Names, Layout, Words
  <1>4. {"ram", "wram", "hram", "number"} \cap Codes = {}
    BY DEF Codes
  <1> QED
    BY <1>1, <1>2, <1>3, <1>4 DEF Stored, Members

\* A member is read where it stands in the list, once.
LEMMA PlaceIs ==
    ASSUME NEW i \in 1 .. Words, Layout[i] \in Members
    PROVE  Place[Layout[i]] = i
  <1> DEFINE x == Layout[i]
             At(j) == IF Contains(Read, x) THEN j # 0 /\ Read[j] = x ELSE j = 0
  <1>1. Contains(Read, x)
    BY ReadFacts DEF Contains
  <1>2. Len(Read) = 30 /\ i \in 0 .. 30 /\ i # 0
    BY ReadFacts DEF Words
  <1>3. At(i)
    BY <1>1, <1>2, ReadFacts
  <1>4. ASSUME NEW j \in 0 .. 30, At(j) PROVE j = i
    <2>1. j \in 1 .. Words /\ Read[j] = x
      BY <1>1, <1>4 DEF Words
    <2> QED
      BY <2>1, ReadFacts, OnceEach
  <1> HIDE DEF At
  <1>5. (CHOOSE j \in 0 .. 30 : At(j)) = i
    BY <1>2, <1>3, <1>4
  <1>6. Place[x] = CHOOSE j \in 0 .. 30 : At(j)
    BY <1>2 DEF Place, At
  <1> QED
    BY <1>5, <1>6

\* Every stored member has such a place.
LEMMA PlaceOf ==
    ASSUME NEW x \in Stored
    PROVE  Place[x] \in 1 .. Words /\ Layout[Place[x]] = x
  <1>1. PICK i \in 1 .. Words : x = Layout[i]
    BY StoredIs DEF Names
  <1> QED
    BY <1>1, PlaceIs, StoredIs

\* A component ends where the place of its last member says.
LEMMA EndIs == ASSUME NEW k \in 1 .. 7 PROVE EndOf[k] = Ends[k]
  <1>1. DOMAIN Components = 1 .. 7
    BY DEF Components
  <1>2. Last(Components[k]) = Layout[Ends[k]]
    <2>1. Ends[k] - Begins[k] \in 1 .. 6 /\ Begins[k] \in Nat /\ Ends[k] \in Nat
      BY DEF Begins, Ends
    <2>2. PICK d \in 1 .. 6 : d = Ends[k] - Begins[k]
      BY <2>1
    <2>3. d \in 1 .. Ends[k] - Begins[k] /\ Begins[k] + d = Ends[k]
      BY <2>1, <2>2
    <2>4. Len(Components[k]) = d /\ Components[k][d] = Layout[Begins[k] + d]
      BY <2>2, <2>3, Slices
    <2> QED
      BY <2>3, <2>4 DEF Last
  <1>3. Ends[k] \in 1 .. Words
    BY DEF Ends, Words
  <1>4. Layout[Ends[k]] \in Members
    <2>1. Layout[Ends[k]] \notin Codes
      <3>1. Ends[k] \in {5, 11, 15, 17, 20, 25, 28}
        BY DEF Ends
      <3>2. /\ Layout[5] \notin Codes /\ Layout[11] \notin Codes /\ Layout[15] \notin Codes
            /\ Layout[17] \notin Codes /\ Layout[20] \notin Codes /\ Layout[25] \notin Codes
            /\ Layout[28] \notin Codes
        BY DEF Layout, Codes
      <3> QED
        BY <3>1, <3>2
    <2> QED
      BY <1>3, <2>1, StoredIs DEF Names
  <1> QED
    BY <1>1, <1>2, <1>3, <1>4, PlaceIs DEF EndOf

\* The places of the members that are read in a way of their own.
LEMMA PlacesAre ==
    /\ Place["number"] = 13 /\ Place["ram"] = 15
    /\ Place["wram"] = 29 /\ Place["hram"] = 30
  <1>1. /\ Layout[13] = "number" /\ Layout[15] = "ram"
        /\ Layout[29] = "wram" /\ Layout[30] = "hram"
    BY DEF Layout
  <1>2. {"ram", "wram", "hram", "number"} \subseteq Members
    BY StoredIs
  <1> QED
    BY <1>1, <1>2, PlaceIs DEF Words

\* A member's place is in its component, and in no other.
LEMMA HasIs ==
    ASSUME NEW x \in Members, NEW k \in 1 .. 7
    PROVE  Contains(Components[k], x) <=>
              x \in Stored /\ Begins[k] < Place[x] /\ Place[x] <= Ends[k]
  <1>1. Begins[k] \in Nat /\ Ends[k] \in Nat /\ Ends[k] <= Words
    BY DEF Begins, Ends, Words
  <1>2. ASSUME Contains(Components[k], x)
        PROVE  x \in Stored /\ Begins[k] < Place[x] /\ Place[x] <= Ends[k]
    <2>1. PICK i \in 1 .. Ends[k] - Begins[k] : x = Layout[Begins[k] + i]
      BY <1>2, Slices DEF Contains
    <2>2. Begins[k] + i \in 1 .. Words
      BY <1>1, <2>1 DEF Words
    <2>3. Place[x] = Begins[k] + i
      BY <2>1, <2>2, PlaceIs
    <2>4. x \in Stored
      BY <2>1, <2>2, StoredIs DEF Names
    <2> QED
      BY <1>1, <2>1, <2>3, <2>4
  <1>3. ASSUME x \in Stored, Begins[k] < Place[x], Place[x] <= Ends[k]
        PROVE  Contains(Components[k], x)
    <2>1. Place[x] \in 1 .. Words /\ Layout[Place[x]] = x
      BY <1>3, PlaceOf
    <2> DEFINE i == Place[x] - Begins[k]
    <2>2. i \in 1 .. Ends[k] - Begins[k] /\ Begins[k] + i = Place[x]
      BY <1>1, <1>3, <2>1 DEF Words
    <2>3. Components[k][i] = x /\ i \in 1 .. Len(Components[k])
      BY <2>1, <2>2, Slices
    <2> QED
      BY <2>3 DEF Contains
  <1> QED
    BY <1>2, <1>3

-----------------------------------------------------------------------------
(* What a restore does *)

\* The number of words that can be read, from the first that cannot.
LEMMA GoodIs ==
    ASSUME NEW s, NEW g \in 0 .. Words, \A i \in 1 .. g : Fits(s, i),
           g < Words => ~ Fits(s, g + 1)
    PROVE  Good(s) = g
  <1> DEFINE S == {i \in 1 .. 30 : ~ Fits(s, i)} \cup {31}
  <1>1. g \in 0 .. 30
    BY DEF Words
  <1>2. g + 1 \in S /\ \A m \in S : g + 1 <= m
    BY <1>1 DEF Words
  <1>3. S \subseteq Int
    OBVIOUS
  <1>4. Min(S) = g + 1
    <2> HIDE DEF S
    <2>1. \A m \in S : (\A n \in S : m <= n) => m = g + 1
      BY <1>1, <1>2, <1>3
    <2> QED
      BY <1>2, <2>1 DEF Min
  <1>5. Good(s) = Min(S) - 1
    BY ReadFacts DEF Good, Words
  <1> QED
    BY <1>1, <1>4, <1>5

\* The invariant: the saved stream is the one of the machine as it was then.
SavedInv == saved = Stream(image)

\* A stream as it was saved: codes where codes are read, and the members.
LEMMA SavedIs ==
    ASSUME SavedInv
    PROVE  /\ Len(saved) = Words /\ DOMAIN saved = 1 .. Words
           /\ \A i \in 1 .. Words : Layout[i] \in Codes => saved[i] = CodeWord(Layout[i])
           /\ \A x \in Stored : saved[Place[x]] = image[x]
  <1>1. saved = [i \in 1 .. Words |-> IF Layout[i] \in Codes THEN CodeWord(Layout[i])
                                      ELSE image[Layout[i]]]
    BY WrittenIs, ReadFacts DEF SavedInv, Stream
  <1>2. \A x \in Stored : x \notin Codes
    BY StoredIs
  <1> QED
    BY <1>1, <1>2, PlaceOf DEF Words

\* What a restore reads of the stream: g words as they were saved, all of them
\* only if the stream is the one that was saved.
Reads(s, g) ==
    /\ g \in 0 .. Words
    /\ Good(s) = g
    /\ \A x \in Stored : Place[x] <= g => s[Place[x]] = image[x]
    /\ g = Words <=> s = saved

\* A stream cut after n words is read to there.
LEMMA ShortReads ==
    ASSUME SavedInv, NEW n \in 0 .. Words PROVE Reads(SubSeq(saved, 1, n), n)
  <1> DEFINE s == SubSeq(saved, 1, n)
  <1>1. s = [i \in 1 .. n |-> saved[i]] /\ Len(s) = n
    <2> DEFINE S == {saved[i] : i \in 1 .. n}
    <2>1. \A i \in 1 .. n : saved[i] \in S
      OBVIOUS
    <2>2. n \in Nat
      BY DEF Words
    <2> HIDE DEF S
    <2>3. /\ s \in Seq(S)
          /\ Len(s) = IF 1 <= n THEN n - 1 + 1 ELSE 0
          /\ \A i \in 1 .. n - 1 + 1 : s[i] = saved[1 + i - 1]
      BY <2>1, <2>2, SubSeqProperties
    <2>4. Len(s) = n /\ \A i \in 1 .. n : s[i] = saved[i]
      BY <2>2, <2>3
    <2>5. s = [i \in 1 .. Len(s) |-> s[i]]
      BY <2>3
    <2> QED
      BY <2>4, <2>5
  <1>2. \A i \in 1 .. n : i \in 1 .. Words /\ s[i] = saved[i]
    <2> HIDE DEF s
    <2> QED
      BY <1>1 DEF Words
  <1>3. \A i \in 1 .. n : Fits(s, i)
    <2> SUFFICES ASSUME NEW i \in 1 .. n PROVE Fits(s, i)
      OBVIOUS
    <2>1. i \in DOMAIN s /\ i \in 1 .. Words /\ s[i] = saved[i]
      BY <1>1, <1>2
    <2> HIDE DEF s
    <2> QED
      BY <2>1, SavedIs, ReadFacts DEF Fits
  <1>4. n < Words => ~ Fits(s, n + 1)
    BY <1>1 DEF Fits
  <1>5. Good(s) = n
    BY <1>3, <1>4, GoodIs
  <1>6. \A x \in Stored : Place[x] <= n => s[Place[x]] = image[x]
    BY <1>2, SavedIs, PlaceOf DEF Words
  <1>7. n = Words <=> s = saved
    <2>1. CASE n = Words
      BY <2>1, <1>1, SavedIs DEF SavedInv, Stream
    <2>2. CASE n # Words
      BY <2>2, <1>1, SavedIs
    <2> QED
      BY <2>1, <2>2
  <1> QED
    BY <1>5, <1>6, <1>7 DEF Reads

\* One with the code of another version is read up to that code.
LEMMA OtherReads ==
    ASSUME SavedInv, NEW i \in 1 .. Words, Layout[i] \in Codes
    PROVE  Reads(Other(saved, i), i - 1)
  <1> DEFINE s == Other(saved, i)
             g == i - 1
  <1>1. g \in 0 .. Words /\ g + 1 = i /\ g < Words
    BY DEF Words
  <1>2. /\ DOMAIN s = 1 .. Words /\ s[i] = CodeWord("other")
        /\ \A j \in 1 .. Words : j # i => s[j] = saved[j]
    BY SavedIs DEF Other
  <1>3. CodeWord("other") # CodeWord(Layout[i])
    BY DEF CodeWord, Codes
  <1>4. \A j \in 1 .. g : Fits(s, j)
    <2> SUFFICES ASSUME NEW j \in 1 .. g PROVE Fits(s, j)
      OBVIOUS
    <2>1. j \in DOMAIN s /\ j \in 1 .. Words /\ s[j] = saved[j]
      BY <1>1, <1>2 DEF Words
    <2> HIDE DEF s
    <2> QED
      BY <2>1, SavedIs, ReadFacts DEF Fits
  <1>5. ~ Fits(s, g + 1)
    BY <1>1, <1>2, <1>3, ReadFacts DEF Fits
  <1>6. Good(s) = g
    BY <1>1, <1>4, <1>5, GoodIs
  <1>7. \A x \in Stored : Place[x] <= g => s[Place[x]] = image[x]
    BY <1>1, <1>2, SavedIs, PlaceOf DEF Words
  <1>8. s # saved
    BY <1>2, <1>3, SavedIs
  <1> QED
    BY <1>1, <1>6, <1>7, <1>8 DEF Reads

\* A member belongs to the component it is in.
LEMMA OwnerIs ==
    ASSUME NEW x \in Stored, NEW k \in 1 .. 7, Contains(Components[k], x)
    PROVE  Owner[x] = k
  <1>1. DOMAIN Components = 1 .. 7
    BY DEF Components
  <1>2. ASSUME NEW j \in 1 .. 7, Contains(Components[j], x) PROVE j = k
    <2>1. x \in Members
      BY StoredIs
    <2>2. /\ Begins[j] < Place[x] /\ Place[x] <= Ends[j]
          /\ Begins[k] < Place[x] /\ Place[x] <= Ends[k]
      BY <1>2, <2>1, HasIs
    <2>3. \A h, i \in 1 .. 7 : h < i => Ends[h] <= Begins[i]
      BY DEF Begins, Ends
    <2>4. /\ Begins[j] \in Nat /\ Ends[j] \in Nat /\ Begins[k] \in Nat /\ Ends[k] \in Nat
      BY DEF Begins, Ends
    <2>5. Place[x] \in Nat
      BY PlaceOf DEF Words
    <2> QED
      BY <2>2, <2>3, <2>4, <2>5
  <1>3. (CHOOSE j \in 1 .. 7 : Contains(Components[j], x)) = k
    BY <1>2
  <1> QED
    BY <1>1, <1>3 DEF Owner

\* When the memories are copied.
LEMMA LastTaken ==
    ASSUME NEW g \in 0 .. Words
    PROVE  /\ Taken(g, "wram") <=> g = Words
           /\ Taken(g, "hram") <=> g = Words
           /\ Taken(g, "ram") <=> g >= 15
  <1>1. EndOf[3] = 15
    BY EndIs DEF Ends
  <1>2. Len(Read) = 30 /\ Words = 30
    BY ReadFacts DEF Words
  <1>3. /\ Taken(g, "wram") <=> Copied(g, "wram")
        /\ Taken(g, "hram") <=> Copied(g, "hram")
        /\ Taken(g, "ram") <=> Copied(g, "ram")
    BY DEF Taken, Memories
  <1>4. /\ Copied(g, "wram") <=> g >= 30
        /\ Copied(g, "hram") <=> g >= 30
        /\ Copied(g, "ram") <=> g >= 15
    BY <1>1, <1>2 DEF Copied
  <1> QED
    BY <1>2, <1>3, <1>4

\* Of a component that is read to its end every member is taken, and of one that is
\* not begun none.
LEMMA PartTaken ==
    ASSUME NEW g \in 0 .. Words, NEW k \in 1 .. 7, NEW x \in Members,
           Contains(Components[k], x)
    PROVE  /\ x \in Stored
           /\ g >= Ends[k] => Taken(g, x) /\ Place[x] <= g
           /\ g < Begins[k] /\ k # 1 => ~ Taken(g, x)
  <1>1. x \in Stored /\ Begins[k] < Place[x] /\ Place[x] <= Ends[k]
    BY HasIs
  <1>2. Begins[k] \in Nat /\ Ends[k] \in Nat /\ Begins[k] < Ends[k] /\ g \in Nat
        /\ Ends[k] <= 28 /\ (k # 1 => k - 1 \in 1 .. 7 /\ Ends[k - 1] = Begins[k])
    BY DEF Begins, Ends, Words
  <1>3. Place[x] \in Nat
    BY <1>1, PlaceOf DEF Words
  <1>4. CASE x = "ram"
    <2>1. Begins[k] < 15 /\ 15 <= Ends[k] /\ Place[x] = 15
      BY <1>1, <1>4, PlacesAre
    <2> QED
      BY <1>1, <1>2, <1>4, <2>1, LastTaken
  <1>5. CASE x = "wram" \/ x = "hram"
    BY <1>1, <1>2, <1>5, PlacesAre
  <1>6. CASE x = "number"
    <2>1. Taken(g, x) <=> g >= Place[x]
      BY <1>6 DEF Taken, Memories
    <2> QED
      BY <1>1, <1>2, <1>3, <2>1
  <1>7. CASE x \notin Memories /\ x # "number"
    <2>1. Owner[x] = k
      BY <1>1, OwnerIs
    <2>2. Taken(g, x) <=> k = 1 \/ g >= EndOf[k - 1]
      BY <1>7, <2>1 DEF Taken, Reached
    <2>3. k # 1 => EndOf[k - 1] = Begins[k]
      BY <1>2, EndIs
    <2> QED
      BY <1>1, <1>2, <1>3, <2>2, <2>3
  <1> QED
    BY <1>4, <1>5, <1>6, <1>7 DEF Memories

\* The parts: the seven components, then the two memories of the machine.
LEMMA PartsAre ==
    /\ Len(Parts) = 8
    /\ \A k \in 1 .. 7 : Parts[k] = {x \in Members : Contains(Components[k], x)}
    /\ Parts[8] = {"wram", "hram"}
  <1> DEFINE S == SUBSET Members
             f == [k \in DOMAIN Components |-> {x \in Members : Contains(Components[k], x)}]
  <1>1. DOMAIN Components = 1 .. 7
    BY DEF Components
  <1>2. /\ f \in Seq(S) /\ Len(f) = 7
        /\ \A k \in 1 .. 7 : f[k] = {x \in Members : Contains(Components[k], x)}
    BY <1>1
  <1>3. {"wram", "hram"} \in S
    BY StoredIs
  <1> HIDE DEF f, S
  <1>4. ASSUME NEW e \in S
        PROVE  /\ Len(Append(f, e)) = Len(f) + 1 /\ Append(f, e)[Len(f) + 1] = e
               /\ \A k \in 1 .. Len(f) : Append(f, e)[k] = f[k]
    <2>1. f \in Seq(S)
      BY <1>2
    <2> QED
      BY <2>1
  <1> DEFINE p == Append(f, {"wram", "hram"})
  <1>5. /\ Len(p) = Len(f) + 1 /\ p[Len(f) + 1] = {"wram", "hram"}
        /\ \A k \in 1 .. Len(f) : p[k] = f[k]
    BY <1>3, <1>4
  <1>6. Parts = p
    BY DEF Parts, f
  <1> HIDE DEF p
  <1> QED
    BY <1>2, <1>5, <1>6

\* What a member is after a restore, by what was read.
LEMMA RestoredIs ==
    ASSUME NEW s, NEW g, Reads(s, g), NEW torn
    PROVE  LET r == Restored(machine, s, g, torn)
           IN  /\ \A x \in Members : x \in Stored /\ Taken(g, x) /\ Place[x] <= g => r[x] = image[x]
               /\ \A x \in Members : ~ Taken(g, x) => r[x] = machine[x]
  BY DEF Restored, Reads

\* The part in which a restore of g words gives up, or the last one.
Stop(k, g) == /\ \A j \in 1 .. 7 : j < k => g >= Ends[j]
              /\ \A j \in 1 .. 7 : k < j => g < Begins[j]
              /\ k # 8 => g # Words

\* There is such a part, however many words were read.
LEMMA StopsSomewhere == ASSUME NEW g \in 0 .. Words PROVE \E k \in 1 .. 8 : Stop(k, g)
  <1>1. /\ Ends[1] = 5 /\ Ends[2] = 11 /\ Ends[3] = 15 /\ Ends[4] = 17
        /\ Ends[5] = 20 /\ Ends[6] = 25 /\ Ends[7] = 28
        /\ \A j \in 2 .. 7 : Begins[j] = Ends[j - 1]
    BY DEF Begins, Ends
  <1>2. g \in 0 .. 30 /\ Words = 30
    BY DEF Words
  <1>3. \A j \in 1 .. 7 : j \in {1, 2, 3, 4, 5, 6, 7}
    OBVIOUS
  <1>4. g < 5 => Stop(1, g)
    BY <1>1, <1>2, <1>3 DEF Stop
  <1>5. g >= 5 /\ g < 11 => Stop(2, g)
    BY <1>1, <1>2, <1>3 DEF Stop
  <1>6. g >= 11 /\ g < 15 => Stop(3, g)
    BY <1>1, <1>2, <1>3 DEF Stop
  <1>7. g >= 15 /\ g < 17 => Stop(4, g)
    BY <1>1, <1>2, <1>3 DEF Stop
  <1>8. g >= 17 /\ g < 20 => Stop(5, g)
    BY <1>1, <1>2, <1>3 DEF Stop
  <1>9. g >= 20 /\ g < 25 => Stop(6, g)
    BY <1>1, <1>2, <1>3 DEF Stop
  <1>10. g >= 25 /\ g < 28 => Stop(7, g)
    BY <1>1, <1>2, <1>3 DEF Stop
  <1>11. g >= 28 => Stop(8, g)
    BY <1>1, <1>2, <1>3 DEF Stop
  <1> QED
    BY <1>2, <1>4, <1>5, <1>6, <1>7, <1>8, <1>9, <1>10, <1>11

\* A restore leaves the parts before that one as saved and the ones behind alone.
LEMMA RestoreStops ==
    ASSUME NEW s, NEW g, Reads(s, g), NEW torn, machine' = Restored(machine, s, g, torn),
           image' = image, before' = machine
    PROVE  \E k \in DOMAIN Parts :
              /\ \A j \in 1 .. k - 1 : AsIn(image, Parts[j])'
              /\ \A j \in k + 1 .. Len(Parts) : AsIn(before, Parts[j])'
  <1>1. g \in 0 .. Words
    BY DEF Reads
  <1>2. PICK k \in 1 .. 8 : Stop(k, g)
    BY <1>1, StopsSomewhere
  <1>3. DOMAIN Parts = 1 .. 8 /\ Len(Parts) = 8
    BY PartsAre DEF Parts
  <1>4. ASSUME NEW j \in 1 .. k - 1 PROVE AsIn(image, Parts[j])'
    <2>1. j \in 1 .. 7 /\ g >= Ends[j]
      BY <1>2 DEF Stop
    <2>2. \A x \in Parts[j] : /\ x \in Members /\ x \in Stored
                              /\ Taken(g, x) /\ Place[x] <= g
      BY <1>1, <2>1, PartsAre, PartTaken
    <2> QED
      BY <2>2, RestoredIs DEF AsIn
  <1>5. ASSUME NEW j \in k + 1 .. 8 PROVE AsIn(before, Parts[j])'
    <2>1. \A x \in Parts[j] : x \in Members /\ ~ Taken(g, x)
      <3>1. CASE j = 8
        <4>1. g # Words
          BY <1>2, <3>1 DEF Stop
        <4> QED
          BY <1>1, <3>1, <4>1, LastTaken, PartsAre, StoredIs
      <3>2. CASE j # 8
        <4>1. j \in 1 .. 7 /\ j # 1 /\ g < Begins[j]
          BY <1>2, <3>2 DEF Stop
        <4> QED
          BY <1>1, <4>1, PartsAre, PartTaken
      <3> QED
        BY <3>1, <3>2
    <2> QED
      BY <2>1, RestoredIs DEF AsIn
  <1> QED
    BY <1>3, <1>4, <1>5

\* A restore copies a memory from the stream or leaves it.
LEMMA RestoreIsWhole ==
    ASSUME NEW s, NEW g, Reads(s, g), NEW torn, machine' = Restored(machine, s, g, torn),
           image' = image, before' = machine
    PROVE  \A P \in {{"ram"}, {"wram", "hram"}} : AsIn(image, P)' \/ AsIn(before, P)'
  <1>1. g \in 0 .. Words
    BY DEF Reads
  <1>2. {"ram", "wram", "hram"} \subseteq Members /\ {"ram", "wram", "hram"} \subseteq Stored
    BY StoredIs
  <1>3. AsIn(image, {"ram"})' \/ AsIn(before, {"ram"})'
    BY <1>1, <1>2, LastTaken, PlacesAre, RestoredIs DEF AsIn, Words
  <1>4. AsIn(image, {"wram", "hram"})' \/ AsIn(before, {"wram", "hram"})'
    BY <1>1, <1>2, LastTaken, PlacesAre, RestoredIs DEF AsIn, Words
  <1> QED
    BY <1>3, <1>4

\* All members are taken when all words were read.
LEMMA AllTaken == ASSUME NEW x \in Stored PROVE Taken(Words, x) /\ Place[x] <= Words
  <1>1. Words \in 0 .. Words /\ Place[x] \in 1 .. Words
    BY PlaceOf DEF Words
  <1>2. CASE Place[x] > 28
    <2>1. Place[x] = 29 \/ Place[x] = 30
      BY <1>1, <1>2 DEF Words
    <2>2. x = "wram" \/ x = "hram"
      BY <2>1, PlaceOf DEF Layout
    <2> QED
      BY <1>1, <2>2, LastTaken
  <1>3. CASE Place[x] <= 28
    <2>1. PICK k \in 1 .. 7 : Begins[k] < Place[x] /\ Place[x] <= Ends[k]
      <3>1. /\ Ends[1] = 5 /\ Ends[2] = 11 /\ Ends[3] = 15 /\ Ends[4] = 17
            /\ Ends[5] = 20 /\ Ends[6] = 25 /\ Ends[7] = 28
            /\ Begins[1] = 1 /\ \A j \in 2 .. 7 : Begins[j] = Ends[j - 1]
        BY DEF Begins, Ends
      <3>2. Place[x] # 1
        BY PlaceOf, StoredIs DEF Layout, Codes
      <3> QED
        BY <1>1, <1>3, <3>1, <3>2
    <2>2. Contains(Components[k], x)
      BY <2>1, HasIs, StoredIs
    <2>3. Words >= Ends[k]
      BY DEF Words, Ends
    <2> QED
      BY <1>1, <2>2, <2>3, PartTaken, StoredIs
  <1> QED
    BY <1>1, <1>2, <1>3 DEF Words

\* A restore accepts the stream that was saved and no other, and puts all back.
LEMMA RestoreAccepts ==
    ASSUME NEW s, NEW g, Reads(s, g), NEW torn, machine' = Restored(machine, s, g, torn),
           image' = image, returned' = (g = Len(Read)), whole' = (s = saved)
    PROVE  /\ returned' <=> whole'
           /\ returned' => \A x \in Stored : machine'[x] = image'[x]
  <1>1. returned' <=> g = Words
    BY ReadFacts
  <1>2. whole' <=> g = Words
    BY DEF Reads
  <1>3. ASSUME g = Words, NEW x \in Stored PROVE machine'[x] = image'[x]
    BY <1>3, AllTaken, StoredIs, RestoredIs
  <1> QED
    BY <1>1, <1>2, <1>3

\* With the properties, which speak of the last restore alone.
SaveInv == SavedInv /\ AcceptsTheWholeOnly /\ StopsAtTheFirstError /\ MemoriesStayWhole

\* What the three properties say holds behind every restore.
LEMMA RestoreKeeps ==
    ASSUME SavedInv, NEW s, NEW g, Reads(s, g), NEW torn, Unserialize(s, torn)
    PROVE  SaveInv'
  <1>1. /\ machine' = Restored(machine, s, g, torn) /\ before' = machine /\ image' = image
        /\ saved' = saved /\ returned' = (g = Len(Read)) /\ whole' = (s = saved)
    BY DEF Unserialize, Reads
  <1>2. SavedInv'
    BY <1>1 DEF SavedInv, Stream
  <1>3. AcceptsTheWholeOnly'
    BY <1>1, RestoreAccepts DEF AcceptsTheWholeOnly
  <1>4. StopsAtTheFirstError'
    BY <1>1, RestoreStops DEF StopsAtTheFirstError
  <1>5. MemoriesStayWhole'
    BY <1>1, RestoreIsWhole DEF MemoriesStayWhole
  <1> QED
    BY <1>2, <1>3, <1>4, <1>5 DEF SaveInv

\* And so in every state.
LEMMA SaveInductive == SaveSpec => []SaveInv
  <1>1. SaveInit => SaveInv
    BY DEF SaveInit, SaveInv, SavedInv, Stream, AcceptsTheWholeOnly, StopsAtTheFirstError,
           MemoriesStayWhole
  <1>2. SaveInv /\ [SaveNext]_saveVars => SaveInv'
    <2> SUFFICES ASSUME SaveInv, [SaveNext]_saveVars PROVE SaveInv'
      OBVIOUS
    <2>1. CASE Run
      BY <2>1 DEF Run, SaveInv, SavedInv, Stream, AcceptsTheWholeOnly, StopsAtTheFirstError,
         MemoriesStayWhole
    <2>2. CASE Serialize
      BY <2>2 DEF Serialize, SaveInv, SavedInv, Stream, AcceptsTheWholeOnly,
         StopsAtTheFirstError, MemoriesStayWhole
    <2>3. ASSUME NEW n \in 0 .. Len(saved), NEW torn \in BOOLEAN,
                 Unserialize(SubSeq(saved, 1, n), torn)
          PROVE  SaveInv'
      BY <2>3, SavedIs, ShortReads, RestoreKeeps DEF SaveInv
    <2>4. ASSUME NEW i \in DOMAIN saved, Written[i] \in Codes,
                 Unserialize(Other(saved, i), FALSE)
          PROVE  SaveInv'
      BY <2>4, SavedIs, WrittenIs, ReadFacts, OtherReads, RestoreKeeps DEF SaveInv
    <2>5. CASE UNCHANGED saveVars
      BY <2>5 DEF saveVars, SaveInv, SavedInv, Stream, AcceptsTheWholeOnly,
         StopsAtTheFirstError, MemoriesStayWhole, AsIn
    <2> QED
      BY <2>1, <2>2, <2>3, <2>4, <2>5 DEF SaveNext
  <1> QED
    BY <1>1, <1>2, PTL DEF SaveSpec

\* A stream that comes back as it was written is accepted and puts back every
\* stored member; a shorter one and one with a code of another version are refused.
THEOREM AcceptsWhole == SaveSpec => []AcceptsTheWholeOnly
  BY SaveInductive, PTL DEF SaveInv

\* A restore that is refused gives up in the first part that goes wrong: the parts
\* before are as saved, the ones behind as they were.
THEOREM StopsFirst == SaveSpec => []StopsAtTheFirstError
  BY SaveInductive, PTL DEF SaveInv

\* The RAM of the cartridge, and the work RAM with the high RAM, are as saved or as
\* they were, never in pieces.
THEOREM KeepsMemories == SaveSpec => []MemoriesStayWhole
  BY SaveInductive, PTL DEF SaveInv
=============================================================================
