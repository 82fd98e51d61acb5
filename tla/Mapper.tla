------------------------------- MODULE Mapper -------------------------------
(***************************************************************************)
(* The cartridge: the loader that accepts an image (core/Loader.cc) and    *)
(* the bank registers that decide which part of it, and which cell of the  *)
(* cartridge's RAM, an address of the processor reaches (core/Mapper.cc).  *)
(*                                                                         *)
(* The image and the RAM are kept as sizes: what matters is where an index *)
(* falls. lo, hi and mode are history: the values the program has written  *)
(* last to the bank select registers. Debug (forced) accesses are left out.*)
(***************************************************************************)
EXTENDS Integers

CONSTANTS
    Headers,    \* the images a frontend may load
    Addr,       \* the addresses below 0x8000 the program writes to
    Data,       \* the bytes it writes there
    RomOffset, RamOffset    \* the offsets in a bank that are looked at

kRomBankSize == 16384
kRamBankSize == 8192

\* The fields of an image's header that the loader reads, and its length.
Header == [size : Nat, cgb : BOOLEAN, cart : 0 .. 255, rom : 0 .. 255, ram : 0 .. 255]

ASSUME ImageAssumption == Headers \subseteq Header
ASSUME AddrAssumption == Addr \subseteq 0 .. 32767
ASSUME DataAssumption == Data \subseteq 0 .. 255
ASSUME RomOffsetAssumption == RomOffset \subseteq 0 .. kRomBankSize - 1
ASSUME RamOffsetAssumption == RamOffset \subseteq 0 .. kRamBankSize - 1

VARIABLES
    number,             \* number_, the mapper chip
    ram_enable,         \* ram_enable_
    extra_rom_bits,     \* extra_rom_bits_
    rom_bank, ram_bank, \* rom_bank_, ram_bank_
    rom, ram,           \* rom.size(), ram.size()
    lo, hi, mode        \* history: the last bank selects written

registers == <<number, ram_enable, extra_rom_bits, rom_bank, ram_bank>>
vars == <<registers, rom, ram, lo, hi, mode>>

-----------------------------------------------------------------------------
(* Loader::Load *)

\* The number of banks a size indicator stands for, 0 for an unknown one.
Banks(code) == CASE code = 0 -> 2 [] code = 1 -> 4 [] code = 2 -> 8
                 [] code = 3 -> 16 [] code = 4 -> 32 [] code = 5 -> 64
                 [] code = 6 -> 128 [] code = 7 -> 256 [] code = 82 -> 72
                 [] code = 83 -> 80 [] code = 84 -> 96 [] OTHER -> 0

\* The chip a cartridge type stands for, -1 for an unsupported one.
Chip(cart) == CASE cart = 0 -> 0
                [] cart \in 1 .. 3 -> 1
                [] cart \in 5 .. 6 -> 2
                [] cart \in 15 .. 19 -> 3
                [] cart \in 25 .. 30 -> 5
                [] OTHER -> -1

\* The bytes of RAM an indicator stands for, -1 for an unknown one.
RamSize(code) == CASE code = 0 -> 0
                   [] code = 1 -> 2048
                   [] code = 2 -> kRamBankSize
                   [] code = 3 -> 4 * kRamBankSize
                   [] code = 4 -> 16 * kRamBankSize
                   [] code = 5 -> 8 * kRamBankSize
                   [] OTHER -> -1

Accepted(h) == /\ h.size >= 2 * kRomBankSize
               /\ ~ h.cgb
               /\ Banks(h.rom) # 0
               /\ h.size = Banks(h.rom) * kRomBankSize
               /\ Chip(h.cart) # -1
               /\ RamSize(h.ram) # -1

-----------------------------------------------------------------------------
(* Where an address falls *)

\* The bank selected on the chip's terms.
SelectedRom == IF number = 1 /\ extra_rom_bits THEN rom_bank + 32 * (ram_bank % 4)
                                                ELSE rom_bank

\* MBC1 and MBC3 cannot show bank 0: they show bank 1 for it.
NonzeroRom == IF (number = 1 /\ SelectedRom % 32 = 0) \/ (number = 3 /\ SelectedRom = 0)
              THEN 1 ELSE SelectedRom

\* Mutant: the image is taken to hold every bank.
ShownRomUnchecked == NonzeroRom

\* The bank of RomIndex. Past the end of the image every bank reads as bank 1.
ShownRom == IF NonzeroRom * kRomBankSize >= rom THEN 1 ELSE NonzeroRom

\* Mapper::RomIndex for the address 0x4000 + offset.
RomIndex(offset) == ShownRom * kRomBankSize + offset

kInvalidIndex == -1

\* Mutant: the banks of a cartridge are taken to be there.
ShownRamUnchecked == IF number = 1 /\ extra_rom_bits THEN 0 ELSE ram_bank

\* The bank of RamIndex.
ShownRam ==
    LET bank == IF number = 1 /\ extra_rom_bits THEN 0 ELSE ram_bank
    IN  IF bank * kRamBankSize >= ram THEN 0 ELSE bank

\* Mapper::RamIndex for the address 0xA000 + offset.
RamIndex(offset) ==
    LET index == ShownRam * kRamBankSize + offset
        half == IF number = 2 THEN index % 512 ELSE index
    IN  IF ram = 0 \/ (number = 3 /\ ram_bank > 3) THEN kInvalidIndex
        ELSE IF ram < kRamBankSize THEN half % ram ELSE half

-----------------------------------------------------------------------------
(* Life cycle and register writes *)

\* The constructor of Machine: no cartridge.
Init == /\ number = 0
        /\ ram_enable = FALSE
        /\ extra_rom_bits = FALSE
        /\ rom_bank = 0
        /\ ram_bank = 0
        /\ rom = 0
        /\ ram = 0
        /\ lo = 0 /\ hi = 0 /\ mode = 1

\* Machine::LoadGame: an image that is refused leaves the old one in place.
Load(h) ==
    /\ Accepted(h)
    /\ number' = Chip(h.cart)
    /\ ram_enable' = FALSE
    /\ extra_rom_bits' = FALSE
    /\ rom_bank' = 1
    /\ ram_bank' = 0
    /\ rom' = h.size
    /\ ram' = IF Chip(h.cart) = 2 THEN 512 ELSE RamSize(h.ram)
    /\ lo' = 1 /\ hi' = 0 /\ mode' = 1

\* Machine::UnloadGame.
Unload == /\ number' = 0
          /\ ram_enable' = FALSE
          /\ extra_rom_bits' = FALSE
          /\ rom_bank' = 0
          /\ ram_bank' = 0
          /\ rom' = 0
          /\ ram' = 0
          /\ lo' = 0 /\ hi' = 0 /\ mode' = 1

Enables(data) == data % 16 = 10

Or(a, b) == LET B(k) == IF (a \div k) % 2 = 1 \/ (b \div k) % 2 = 1 THEN k ELSE 0
            IN  B(1) + B(2) + B(4) + B(8) + B(16) + B(32) + B(64) + B(128)

Quarter(addr) == addr \div 8192     \* addr & 0x6000
Eighth(addr) == addr \div 4096      \* addr & 0x7000

\* Mutant: one bit too many of the bank select is kept.
WriteMBC1Wide(addr, data) ==
    /\ number = 1
    /\ ram_enable' = IF Quarter(addr) = 0 THEN Enables(data) ELSE ram_enable
    /\ rom_bank' = IF Quarter(addr) = 1 THEN data % 64 ELSE rom_bank
    /\ ram_bank' = IF Quarter(addr) = 2 THEN data % 4 ELSE ram_bank
    /\ extra_rom_bits' = IF Quarter(addr) = 3 THEN data % 2 = 0 ELSE extra_rom_bits

WriteMBC1Register(addr, data) ==
    /\ number = 1
    /\ ram_enable' = IF Quarter(addr) = 0 THEN Enables(data) ELSE ram_enable
    /\ rom_bank' = IF Quarter(addr) = 1 THEN data % 32 ELSE rom_bank
    /\ ram_bank' = IF Quarter(addr) = 2 THEN data % 4 ELSE ram_bank
    /\ extra_rom_bits' = IF Quarter(addr) = 3 THEN data % 2 = 0 ELSE extra_rom_bits

WriteMBC2Register(addr, data) ==
    /\ number = 2
    /\ ram_enable' = IF Quarter(addr) = 0 /\ (addr \div 256) % 2 = 0
                     THEN Enables(data) ELSE ram_enable
    /\ rom_bank' = IF Quarter(addr) = 1 THEN data % 16 ELSE rom_bank
    /\ UNCHANGED <<ram_bank, extra_rom_bits>>

WriteMBC3Register(addr, data) ==
    /\ number = 3
    /\ ram_enable' = IF Quarter(addr) = 0 THEN Enables(data) ELSE ram_enable
    /\ rom_bank' = IF Quarter(addr) = 1 THEN data % 64 ELSE rom_bank
    /\ ram_bank' = IF Quarter(addr) = 2 THEN data % 16 ELSE ram_bank
    /\ UNCHANGED extra_rom_bits

\* The write to the low select keeps the upper bits of the old bank, the write to
\* the high one puts its bit at the bottom.
WriteMBC5Register(addr, data) ==
    /\ number = 5
    /\ ram_enable' = IF Eighth(addr) \in {0, 1} THEN Enables(data) ELSE ram_enable
    /\ rom_bank' = CASE Eighth(addr) = 2 -> Or(16 * (rom_bank \div 16), data)
                     [] Eighth(addr) = 3 -> Or(rom_bank % 16, data % 2)
                     [] OTHER -> rom_bank
    /\ ram_bank' = IF Eighth(addr) \in {4, 5} THEN data % 16 ELSE ram_bank
    /\ UNCHANGED extra_rom_bits

\* History: what the program has asked for last, on the chip's terms.
Record(addr, data) ==
    /\ lo' = IF Quarter(addr) = 1 /\ ~ (number = 5 /\ Eighth(addr) = 3) THEN data ELSE lo
    /\ hi' = IF (number = 5 /\ Eighth(addr) = 3) \/ (number = 1 /\ Quarter(addr) = 2)
             THEN data ELSE hi
    /\ mode' = IF number = 1 /\ Quarter(addr) = 3 THEN data % 2 ELSE mode

\* Mapper::WriteROM of the program. A cartridge without a chip has no register.
WriteROM(addr, data) ==
    /\ rom # 0
    /\ \/ number = 0 /\ UNCHANGED registers
       \/ number # 0 /\ UNCHANGED number
          /\ \/ WriteMBC1Register(addr, data)
             \/ WriteMBC2Register(addr, data)
             \/ WriteMBC3Register(addr, data)
             \/ WriteMBC5Register(addr, data)
    /\ Record(addr, data)
    /\ UNCHANGED <<rom, ram>>

Next == \/ \E h \in Headers : Load(h)
        \/ Unload
        \/ \E addr \in Addr, data \in Data : WriteROM(addr, data)

Spec == Init /\ [][Next]_vars

-----------------------------------------------------------------------------
(* Properties *)

Bank == 0 .. 255

TypeOK == /\ number \in {0, 1, 2, 3, 5}
          /\ ram_enable \in BOOLEAN
          /\ extra_rom_bits \in BOOLEAN
          /\ rom_bank \in Bank
          /\ ram_bank \in 0 .. 15
          /\ rom \in Nat
          /\ ram \in Nat
          /\ lo \in Bank /\ hi \in Bank /\ mode \in 0 .. 1

\* Whatever banks the program selects on whatever chip, every read in the
\* switchable window falls inside the image (stronger than the assertion at
\* Mapper.cc:34, which lets the end through).
RomInBounds ==
    rom # 0 => \A offset \in RomOffset : RomIndex(offset) \in 0 .. rom - 1

\* An access to the cartridge's RAM reaches one of its cells or none (the
\* assertion at Mapper.cc:66), with a RAM smaller than a bank included.
RamInBounds ==
    \A offset \in RamOffset :
        RamIndex(offset) = kInvalidIndex \/ RamIndex(offset) \in 0 .. ram - 1

\* The bank the register widths listed at Mapper.hpp:54-67 give for the values
\* the program has written last; MBC1 has its upper bits in mode 0.
Wanted == CASE number = 1 -> (lo % 32) + (IF mode = 0 THEN 32 * (hi % 4) ELSE 0)
            [] number = 2 -> lo % 16
            [] number = 3 -> lo % 128
            [] OTHER -> 1

\* On the chips other than MBC5 the window shows the bank selected last, in
\* whatever order the selects and the mode were written, if the image has it and
\* it is not one of those that stand for bank 1. On MBC3 this is said of the banks
\* below 64 only; SevenBitSelect is about all of them.
ShowsSelected ==
    /\ number \in {1, 2, 3}
    /\ Wanted * kRomBankSize < rom
    /\ number = 1 => lo % 32 # 0
    /\ number = 3 => Wanted \in 1 .. 63
    => ShownRom = Wanted

\* "MBC3: 7-bit ROM bank select" (Mapper.hpp:64): the window shows every bank of the
\* image that seven bits can select, 0 apart.
SevenBitSelect ==
    number = 3 /\ Wanted # 0 /\ Wanted * kRomBankSize < rom => ShownRom = Wanted

\* "MBC5: 9-bit ROM bank select" (Mapper.hpp:70): eight bits written to the low
\* register and one to the high one.
NineBitSelect == number = 5 => rom_bank = 256 * (hi % 2) + lo
=============================================================================
