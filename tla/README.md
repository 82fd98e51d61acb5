# TLA+ verification of oneup-gb

oneup-gb is a Game Boy emulator: a core that steps the machine one clock tick
(4 MHz) at a time, and two frontends that drive it. This directory holds TLA+
models of its components, TLC configurations that check them on small instances,
and theorems about them, for all values of the constants, that TLAPS checks.

Run them here: `tlc -config MCCPU.cfg MCCPU.tla`, `tlapm CPU_proofs.tla`, and so
on; the table of runs below names every pair.

## 1. The system

### Components

`core/Machine.hpp` owns one object of each device and is the only thing a
frontend talks to.

| component | code | state | operations |
|---|---|---|---|
| CPU control core | `core/cpu` | `busy_`, `pc`, `sp`, registers, `if_`, `ie_`, `ime_`, `halt_` | `Tick`, `Step`, `Execute`, `Interrupt`, reads and writes of IF and IE |
| Timer | `core/timer` | `fulldiv_`, `tima_`, `tma_`, `tac_` | `Tick`, writes of DIV, TIMA, TMA, TAC |
| LCD controller | `core/lcd` | `lcdc_`, `stat_`, `ly_`, `lyc_`, `dot_`, `frame_`, `line_sprites_`, `dma_`, `dma_ticks_`, OAM, VRAM | `Tick` (beam, STAT, drawing, interrupts, OAM transfer), register writes |
| Serial port | `core/serial` | `sb_`, `sc_`, `bits_` | `Tick`, writes of SB and SC |
| Mapper | `core/Mapper.*` | bank registers, image, cartridge RAM | `Init`, `Unload`, `WriteROM`, `RomIndex`, `RamIndex`, accesses |
| Loader | `core/Loader.cc` | none | `Load`: header checks |
| IO bus | `core/io` | none | `Read`, `Write`: routes an address to a device |
| Machine | `core/Machine.*` | `t`, work RAM | `Tick`, `Interrupt`, `LoadGame`, save and restore |
| Joypad | `core/joypad` | `joyp_` | `ReadJOYP`, `WriteJOYP` |
| Audio | `core/audio` | four channels, frame sequencer (`timer_div_`, `seq_step_`), NR50 to NR52 | `Tick` (output, lengths, sweep, envelopes, sample), register writes |
| Save states | `core/Serializer.*`, `Machine.cc` | a byte stream | `Start`, the `<<` and `>>` of every component |
| SDL frontend | `frontend/sdl` | `SerialBuffer`, `frame_ready_`, `btn_`, `frames_` | `Run`, `RunMachine`, `PollInput`, `SyncTime`, callbacks |
| libretro frontend | `frontend/libretro` | `frame_ready_`, `queued_samples_` | `Run`, `Serialize`, `Unserialize`, callbacks |
| Utilities, test runners | `util`, `test` | none | observers that print, frame comparison |

### How they interact

- **Calls.** `Machine::Tick` calls `LCD::Tick` on every tick, `Serial::Tick` when
  bit 9 of the tick counter is clear, `Timer::Tick` on every eighth,
  `CPU::Tick` on every fourth and `Audio::Tick` on every second, in that order.
- **Interrupts.** A device calls `Machine::Interrupt`, which or-s a bit into
  `if_`. The CPU looks at it when its next step begins.
- **Registers.** The CPU reaches every device through `IO::Read` and
  `IO::Write`, between the devices' ticks. A push may reach a register as well.
- **Callbacks.** The LCD, the serial port, the audio and the joypad call the
  frontend: `OutputVideoFrame`, `InputSerial`, `OutputSerial`, `OutputAudioFrame`,
  `InputJoypad`. A frontend runs `Machine::Tick` in chunks of 10,000 until
  `OutputVideoFrame` has set `frame_ready_`.
- **Streams.** Between two frames libretro may ask for the machine's state as
  bytes, and give back bytes as its new state.

There are no threads: all concurrency is the interleaving of the devices' ticks
with the program's instructions.

### What is hard here, and what correct means

- **CPU.** The decision to serve an interrupt is made before the push of the
  return address, which may overwrite IF or IE; instructions are spread over
  ticks by an unsigned counter that may run below zero; sleep, the master switch
  and RETI interact. Correct: no request is lost, the most urgent one is served,
  sleep ends when it must, the program never notices being displaced.
- **Timer.** Counter wrap, reload, edges of a divider bit that a write may
  move. Correct: interrupts come at an exact period.
- **LCD.** Everything hangs on equalities with single dots and lines, while the
  program overwrites LY, STAT, LYC and LCDC at any moment. The sprites of a line
  are chosen at its first dot and drawn from OAM as it has become since. Correct: STAT
  tells the beam's position, interrupts come once per frame, frames are whole, a
  restarted transfer leaves no trace of the one before, and the sprites drawn are OAM's.
- **Arithmetic.** Five hundred opcodes by hand, joined by four flags that one
  instruction leaves for another. Correct: chains of them (words byte by byte,
  decimals, rotates there and back) compute what the program means.
- **Machine.** Five rates on one clock, of which a part is not saved. Correct: no
  device's time depends on what the processor does in its turns, a sleeper wakes in time.
- **Serial.** Two ends count bits separately. Correct: bytes arrive whole.
- **Mapper.** Bank numbers are whatever byte the program writes. Correct: every
  access stays in bounds, the window shows the bank selected.
- **Audio.** Counters of several rates (output, sequencer, lengths, envelopes,
  sweep), each loaded again at its own end and overwritten by the program at any
  time. Correct: notes end on time, pitches are exact, volumes and frequencies
  do not wrap, and the noise register never empties.
- **Save states.** A restore that fails half way leaves a mixed machine. Correct:
  only whole streams are accepted, nothing after the error is touched, and what
  was not read stays usable.
- **Frontends.** They loop until a vertical blank which a program can withhold,
  pace themselves by a 32-bit product, and pass keys, samples and frames between two
  sides that run at different times. Correct: no key sticks, no sample is lost or
  doubled, a request to quit is heeded, the game keeps pace with the wall.

PROJECT.json lists these hazards one by one, at the line where each bites, with
the property that covers it.

## 2. The modules

| module | models | abstracted |
|---|---|---|
| `InterruptController` | abstract: what the CPU promises about interrupts | how a step is carried out |
| `CPU` | `CPU.cc`: `Tick`, `Step`, `Execute` by instruction class, `Interrupt`, the memory it pushes to and pops from | general registers and flags (any value, any condition; `ALU` has them); a class per group of opcodes that move pc, sp and memory alike |
| `ALU` | the arithmetic half of `Execute` and the rows of `op_table` and `op_cb_table` that reach it | `(HL)` is a cell of its own; loads of immediate bytes and jumps |
| `CallStack` | `CPU` with a history of the frames that calls and interrupts open | as `CPU` |
| `Countdown` | abstract: a periodic interrupt as a program counts on it; what stops its source for a while (`Pause`) and what sets it anew (`Write`) are different steps | everything but the time left |
| `Timer` | `Timer.cc`, `Timer.hpp` | widths are constants |
| `LCD` | `LCD::Tick`, the register writes of `LCD.hpp`, the OAM transfer | colours: a frame is how often each dot was drawn |
| `Sprites` | `DetermineLineSprites` and `RenderSpriteDot`, on top of `LCD` | palettes; VRAM is a set of dots that are not 0; sizes are constants |
| `Machine` | `Machine::Tick`: order and rates, on top of `Timer`, with IF, IE and the sleep of the CPU | the serial port is its count of bits, the LCD an interrupt at any tick, an instruction what it does to these |
| `Tone` | the output counters of channels 1 to 3: frequency, wave position, and the sweep's changes of them | volume and wave; widths are constants |
| `Noise` | `TickOutput` of channel 4, `NR43`, the trigger | volume; the widths of register and short mode, and the rates, are constants |
| `OneShot` | abstract: something with an end, a limited note or a byte on the line, as a program counts on it | everything but the ticks left |
| `Audio` | the frame sequencer of `Audio::Tick`: `TickLength`, `TickSweep`, `TickVolume`, and the register writes they depend on | output and samples; limits of the counters are constants |
| `SaveState` | `Machine`'s `<<` and `>>`, all those they call, `Serializer`, `Serialize` and `Unserialize` of libretro | a word stands for a group of members or a string |
| `Serial` | `Serial.cc`, `Serial.hpp`, `SerialBuffer` of the SDL frontend | width of a byte is a constant |
| `Pacing` | the SDL frontend's `Run` with `SyncTime`: its frames against `SDL_GetTicks` | the milliseconds of a frame are a fraction, the width of a word a constant |
| `SDLFrontend` | `RunMachine`, `PollInput`, `Run`, and `ReadJOYP` and `WriteJOYP` of the joypad | the machine is a program that reads and writes JOYP, switches the display and writes LY; of the beam only the lines to the next vertical blank are kept |
| `LRConnector` | libretro's `Run`, `OutputAudioFrame`, `OutputVideoFrame`, and save and restore between two of them | the machine is its clock and the ticks to the next frame; samples are numbers |
| `Mapper` | `Loader.cc`, the bank registers, `RomIndex`, `RamIndex` | contents: image and RAM are sizes |

An action is a whole handler, with its source in PROJECT.json's `map`. Some
definitions have a second form marked *Mutant*: how a plausible bug would have
written it. They take part in no specification; each property is known to fail
when one of them takes the place of its original.

`CPU`. `Tick` is `Step` (`Dispatch`, `Sleep` or one `Instruction`) when `busy` is
0 and `Wait` otherwise. Memory is a function on the addresses `Ram`; IF and IE
are addresses of their own, and reads from anywhere else give any byte. `Code`
says which instructions memory may hold at each address, so one model is a
machine that may run any program of a class (`MCCPU`) or one program
(`MCCallStack`); `Careful` in `CallStack` says which programs keep their stack. The unsigned `busy_` after a subtraction below zero needs 2^62
ticks to run down; it is the value `Wrapped`, from which no step follows.

`ALU`. A state is a register file with its flags and the instructions that are left;
`ALUStep` carries out the next one. Which instruction an opcode is follows the layout that
all rows of the two tables keep (operand in bits 0-2, row in bits 3-5). The programs are in the module, for
they are what the properties speak of: they are the ways a compiler or a hand
would join these instructions. `aim` is history: the register and the bit a program
for one bit is meant for, named apart from the tables. Bytes have eight bits here and are
not a constant.

`LCD`. `Tick` is `CopyByte` together with `Within` (a dot of the same line) or
`NextLine`, which also starts the vertical blank. `stale` is history: which of
mode, coincidence bit and frame a write has put out of step with the beam, and
no code reads it. `did` names a write of LY or LYC by its register: to the two
refinements of `Countdown` these set the time anew (LYC only for the interrupt it is
compared for), while every other write, and a tick with the display off, is a
`Pause`, which takes no time off what is left and adds none.

`Sprites` extends `LCD` with the height of sprites and the list of a line. OAM in
`LCD` says from which page each byte came, and `Image` what that page holds there.
`Foremost` is what the hardware's rule would show, stated without the list and
without arithmetic in bytes; `fresh` is history.

`Machine` extends `Timer`. A tick in which the processor has its turn is two steps,
`Devices` and `Cpu`, because both may write a register of the timer; `turn` says
which comes. `Now` is the tick whose devices come next, from which the two
refinements count the time that is left. `did` tells a write to the serial port
(`"shift"`) from one to the timer, so that neither may move the other's time.

`Pacing`, `SDLFrontend` and `LRConnector` share no state: in `Pacing` a frame just takes
time, in `SDLFrontend` the program may do anything with JOYP and the display, and put the
frame off by writing LY, until one is ready, in `LRConnector` the beam counts down while the display is on.

`Serial`. `sent`, `received` and `clean` are history: what SB held when the
transfer began, what has come in since, and whether receiver and SB were left alone.

`Tone` and `Noise`. One generator each, at the rate of `Audio::Tick`, every
second tick of the machine. The sweep of channel 1 is a step of its own in
`Tone`, which may happen at any time; when it happens, and to what value, is
`Audio`'s. `Tone` implements `Countdown` twice: the end of a place in the wave is the
interrupt of `PlaceTime`, which only a write of the frequency sets anew (a sweep changes the
periods to come, and leaves the one under way), and the end of the whole wave that of
`WaveOrder`, in which a place is one tick and nothing sets the place anew.

`Audio`. `Tick` is `Clock` when `timer_div_` has reached its end and `Quiet` otherwise;
`Clock` is one disjunct per step of the sequencer. The channels are a set, so that
a run may choose which of them the program plays.

`SaveState`. `Written` and `Read` are the words in the order the code writes and
reads them, translated from the two operators separately. `Restore` reads a
stream up to the first word that does not fit: the machine stops at the component
that has failed, a member the stream ended in becomes 0 or keeps its bytes, and
strings are copied only when they are whole. `image`, `before` and `whole` are
history.

`Mapper`. `lo`, `hi`, `mode` are history: the values the program wrote last. They
say which bank it asked for (`Wanted`, with the register widths listed in `Mapper.hpp`), and
the registers say which one it gets.

## 3. The runs

| run | question | distinct states |
|---|---|---|
| `cpu` (`MCCPU`) | With any instruction class under any position of the stack, the registers included, is the CPU an interrupt controller (`ImplementsController`), and does it lock up only behind an undefined opcode? Do chains of arithmetic instructions compute decimals (`DecimalStaysRight`), words (`WordsStayRight`) and their way back (`TripsReturn`)? | 507,000 |
| `callstack` (`MCCallStack`) | Does a program with a subroutine and two handlers notice an interrupt between any two instructions? | 53,000 |
| `machine` (`MCMachine`) | On the machine's clock, do timer interrupts come at the exact period and bytes in their exact time, whatever the processor does? Does a sleeper wake in time, and always? | 402,000 |
| `lcd` (`MCLCD`) | What STAT shows, when the two interrupts come, whether frames are whole and keep coming, against any sequence of register writes; OAM transfers restarted, stopped by the display, overwritten by the program; and whether the sprites drawn are those of OAM. | 368,000 |
| `mapper` (`MCMapper.cfg`) | Every chip with images and RAMs of different sizes: bounds, and the bank shown (on MBC3 below bank 64). | 44,700 |
| `mapper_nine` | Violation: MBC5 does not keep nine bits of bank select. | - |
| `mapper_seven` | Violation: MBC3 does not keep seven. | - |
| `voices` (`MCVoices`) | Are pitches exact between writes, and waves in one piece, with sweeps, triggers, switches and frequency writes at any tick (`KeepsTone`)? Does the noise register live, and its output keep changing, under changes of rate and mode (`Alive`, `KeepsSounding`)? | 78,100 |
| `audio` (`MCAudio.cfg`) | Channel 1 with all it has, or channels 2 and 3 at once: do frequency, volume and envelope stay in range, and do notes end exactly on time? | 176,000 |
| `savestate` (`MCSaveState.cfg`) | Saves, frames and restores in any order, of streams that are whole, cut or of another version. | 43,000 |
| `all_members` | Violation: a save holds all members. | - |
| `frontend` (`MCFrontend`) | Bytes on the serial line, with transfers cut short at any bit (`BytesArriveWhole`); the pace of the SDL loop (`Paced`); keys and quitting (`HeldKeysAreSeen`, `QuitEnds`); frames, samples and restores of a libretro host (`RunsAreWhole`, `ResumesInPhase`). | 426,000 |

Three runs join parts that have no state in common: a behaviour of `cpu` is about control
or about arithmetic, one of `voices` about a tone or the noise (`voice`), one of `frontend` about the serial line, the pace, the input or
libretro, as its variable `concern` says from the start. The other parts stand still in it.

### Bounds, and why they are enough

- `cpu`: 8 addresses, 2-bit bytes, 2 sources, 2 cells of memory. Enough for the
  stack to cover each interrupt register with either byte of a push, for pc and
  sp to wrap, for an operand to reach past the end of memory, and for two
  requests to compete. Every class is at some address, and `plain`, `setsp` and
  jumps lead from any to any.
- `callstack`: 32 addresses; a stack deep enough for the program's call, a
  handler, its call and a push. The invariant bounds the depth.
- `cpu`, arithmetic: decimals are exhaustive, every two digits and both
  carries. Words and round trips take each byte from nine values, on both sides of the
  limits of the digit, the byte and the sign, and patterns between; every operand, every
  bit and every pair of registers.
- `machine`: a clock of 8 ticks with a turn of the processor every second tick, of the
  timer every fourth, and the serial port in one half of it, as 1024, 4, 8 and 512 are to
  one another in kind; bytes of 3 bits, which fit into a burst or
  have its end in their middle; instructions of one and two turns. One program uses the timer and one the
  serial port, which share nothing but the processor.
- `lcd`: 7 dots by 4 lines, 2 of them drawn; every limit the code compares with
  is distinct, each phase has a dot of its own, and the drawn part has a dot that is
  not the first. LYC takes the first line, a drawn one, a blank one and one that
  never comes. OAM has three entries of which a line shows two, so that the limit
  counts; the pages hold sprites of equal and different columns, above, below and across
  the edge of the screen, mirrored both ways, behind, and nothing at all; a transfer stops
  at any byte and is restarted in the middle. The program either writes the display's
  registers or moves sprites; both switch the display. A write to LY under a line with
  sprites is therefore not in the run: it makes the list stale (`fresh`), and the next line
  makes a new one.
- `frontend`: bytes of 3 bits have a first, a middle and a last bit, and two
  different ways to be out of step. Words of 120 wrap after two dozen frames of 5/3 ms, frames
  take from nothing to nearly two frames' time. The display of the SDL loop has 2 drawn lines
of 3, so that it is a different number of lines to the first frame and between frames, and
a write of LY may fall before, between and after them. Two keys of different groups on one line
  and three waiting events make press, repeat and release of one key overtake
  each other's frames. A chunk of 4 ticks and a frame of 7 meet in every phase; batches of 2
  leave a rest or none; samples are numbered modulo more than a batch.
- `voices`, the tone: 8 frequencies written in two halves, and 4 places in a wave; a trigger,
  a sweep or a half write may fall on any tick of a wave.
- `voices`, the noise: a register of 7 bits and a short mode of 3, with rates of 1 and more
  ticks.
- `audio`: the real eight steps of the sequencer and two ticks between them, so
  that a write may fall between or at a step; channel 3 has more length than
  channel 2, and a length is written that fits channel 3 only and is cut to its bits on the
  others; paces on and off; a frequency that one sweep takes out of its range; two
  volumes. The program plays channel 1, or channels 2 and 3: channels share only
  the sequencer and the power, and channel 1 alone has the sweep.
- `savestate`: two runs and two restores, so that a broken restore can be followed
  by a whole one and the reverse; streams cut at every word and inside every word,
  and every component of another version.
- `mapper`: real sizes. Bytes on both sides of every mask, images on both sides
  of what the registers reach, every kind of RAM; only the ends of the windows
  are looked at. The proofs are for all bytes, offsets and images.

### Fairness

Each fair specification has weak fairness of `Tick` alone (of `MachineNext` in
`Machine`, of `SpriteTick` in `Sprites`): both frontends call
`Machine::Tick` in a loop, whatever it returns, and it calls every device's
`Tick` at a fixed rate. Nothing is assumed about the program: liveness
properties that need it to stop writing say so in their premise
(`WaitersGoOn`, `FramesKeepComing`, `SpritesSettle`, `KeepsSounding`). `FramesKeepComing`
asks that the display stays on and LY is not written in the end, and for nothing about
the beam. The program of `UrgentNeverStarves` has no undefined opcode, behind which a
processor takes no step for 2^62 ticks (`LockedOnlyBehindUndefined`).

In `SDLFrontend` weak fairness is on `NextLine`, `FrameReady` and `Poll`: the process runs,
the machine ticks while the display is on, and a chunk of ticks ends. That a frame is
ever ready is not assumed: a program that goes on writing LY keeps the beam from the
vertical blank for ever, and `RunMachine` with it. Nothing is assumed about the user
nor the program; `HeldKeysAreSeen` and `QuitEnds` say in their premise (`Resting`) that the user
rests at last (an endless stream of events would keep `PollInput` for ever), that the display
stays on and that LY is not written for ever before a frame. Without the last of these TLC
finds both violated.

## 4. The theorems

All are in `*_proofs` modules and hold for every value of the constants that the
named assumptions of the modules allow.

| theorem | shows | argument |
|---|---|---|
| `CPU_proofs!TypeCorrect` | pc, sp, IF, IE and memory stay in range | inductive as it stands, one step per instruction class |
| `CPU_proofs!LockUp` | the busy counter wraps only behind an undefined opcode | from `TypeOK`: every other row has a cycle to spend (`CodeAssumption`); `Wrapped` is above every cost |
| `CPU_proofs!Implements` | the CPU implements `InterruptController` | every step maps to `Request`, `Accept`, `Run` or `Pass`; `Dispatch` to `Accept`, by where the pushed bytes fall |
| `CPU_proofs!FramesStayIntact` | in a careful program the return addresses stay as they were pushed | invariant `Stacked`: the frames lie one above the other above sp, each in two cells of `Ram` that hold its address; a push lands below them, and a request accepted at any moment is one more push |
| `CPU_proofs!ReturnsGoBack` | in a careful program a return goes back to where the call or the interrupt has left | `Careful` says that sp is at the top frame, `Stacked` that its cells still hold the address, so that is what is popped |
| `CPU_proofs!HandlersTakeTurns` | in a careful program at most one handler is open | inductive with `Stacked`: only RETI switches requests on again, and it takes the handler's frame with it |
| `ALU_proofs!DecimalRight` | decimals are added and subtracted two digits at a time without an error, carry and Z included | invariant `ALUInv`: some part of a program has been run, its instructions one after the other lead from `start` to `alu`, and the rest is left; then arithmetic on the two digits, by the cases of `Daa` |
| `ALU_proofs!WordsRight` | words taken byte by byte come out as the instructions on words and as arithmetic have it | `ALUInv`, a step per instruction, and lemmas on the carry from the low byte to the high one |
| `ALU_proofs!TripsRight` | an instruction and its inverse leave the register file as it was; SET and RES change the bit and the register they name and nothing else, and BIT finds it so | `ALUInv`; lemmas on where the operand bits and the row of a code lead, on rotates as arithmetic, and on bytes bit by bit for XOR, SET and RES |
| `Storage_proofs!TypeCorrect` | registers stay in their widths | bounds on the bit operations |
| `Storage_proofs!RomStaysInBounds` | reads of the window fall in the image | invariant: an accepted image has at least two banks, whole ones |
| `Storage_proofs!RamStaysInBounds` | RAM accesses reach a cell or none | from the guard of `RamIndex` |
| `Storage_proofs!SelectionIsShown` | MBC1 and 2, and MBC3 for banks 1 to 63, show the bank selected last | invariant relating the registers to `lo`, `hi`, `mode` |
| `Storage_proofs!AcceptsWhole` | a restore accepts only a stream that is whole and of this version | invariant: every saved stream is the words of an image in the order of the lists; a stream that agrees with what `Unserialize` expects is that of an image |
| `Storage_proofs!StopsFirst` | a restore stops at the first error, and what lies behind it is left alone | the same invariant, and where each component's words lie in the stream |
| `Storage_proofs!KeepsMemories` | memories are taken whole or not at all | a memory is one list of the layout, which a component takes or not |
| `LCD_proofs!TypeCorrect` | beam and transfer stay within screen and OAM | the write of byte `OamSize - dma_ticks` is in range |
| `LCD_proofs!ModeIsPosition`, `FlagIsCoincidence` | STAT agrees with the beam | both are inductive with `TypeOK` |
| `LCD_proofs!TransferIsClean` | no byte of an earlier transfer is left behind | inductive with `TypeOK` |
| `LCD_proofs!VBlanksComeOnTime`, `LycComesOnTime` | the two interrupts implement `Countdown`, set anew by writes of LY (and LYC) alone | lemmas on `Left`: one dot nearer on every tick while the display is on, a whole frame at the start of the line, and left alone by everything else |
| `LCD_proofs!FreshSprites` | while the list is fresh, it is the sprites of the line in OAM order and priority | invariant: a fresh list is `DetermineLineSprites` of what OAM holds now; the ranks of the sprites are one-to-one, and by counting all of 1 to their number |
| `LCD_proofs!WholeFramesOnly` | a frame that is handed over has every dot once | invariant `KeepsUp`: while LY was not written, the frame is the dots the beam is past, each once. `FramesAreWhole` says nothing before the last dot |
| `Frontend_proofs!TypeCorrect` | both ends stay in range | inductive as it stands |
| `Frontend_proofs!ArrivesWhole` | bytes arrive whole, the two ends stay in step | invariant `Halves`: the left part of SB is what is still to be sent and the right part what has come in. `BytesArriveWhole` is not inductive: it speaks of the last bit only |
| `Voices_proofs!TypeCorrect` | the counter never passes its limit | inductive as it stands, whatever is written |
| `Voices_proofs!TonesKeepTheirPeriod` | a generator implements `Countdown`, tick by tick in a place and place by place in a wave | the ticks left in a place fall by one at every tick, sweeps and switches leave them; the places left fall by one at the end of each |
| `Machine_proofs!SleepersWake` | a sleeper wakes within one turn, and on the tick of the timer's overflow | invariant `InTime`: a sleeper has nothing left to spend (`busy = 0`), and has waited no more ticks than have passed since the processor's last turn, which `RateAssumption` bounds |
| `Machine_proofs!KeepsPeriod` | the timer on the machine's clock implements `Countdown`, whatever processor and devices do | the ticks of the clock until the next edge of the selected bit, and the edges until the overflow; invariant `Ready`: counters and clock in range and the timer's turns on multiples of its ticks, which `RateAssumption` gives |
| `Machine_proofs!BytesOnTime` | a byte goes out in its exact time | lemmas on the ticks until the last bit: one fewer at every tick, within a burst and across the half of the clock in which the port stands still |
| `Frontend_proofs!KeepsPace` | until a wrap the game keeps pace and sleeps are short | invariant `Ahead`: before a frame the lead is at most the slack, after it at most a frame more; lemmas on the division by `Den` |
| `Frontend_proofs!EveryRunIsWhole` | a Run hands over one frame and all samples in order | invariant: what was given to the host and what waits in the queue are, one after the other, the samples made, in order, and the queue is shorter than a batch; `OneFrame` ties the frames shown to `frame_ready` |
| `Frontend_proofs!RestoresInPhase` | a restored machine goes on in the timer's phase | invariant: between Runs the clock is a multiple of the timer's ticks, since a chunk is (`ChunkAssumption`) |
| `Audio_proofs!TypeCorrect` | everything in the sequencer stays in range | inductive with `PaceFits`, the pace of the sweep fits its counter: without it the reload of the counter may leave it |
| `Audio_proofs!EnvelopesKeepStep` | the counter of an envelope is between 1 and its pace | inductive with `TypeOK`; the write that changes the pace loads the counter |
| `Audio_proofs!NotesEnd` | a limited note implements `OneShot`, for all lengths a program may write on any channel | lemmas on `Left`: one tick fewer on every tick of the sequencer, the whole length at a trigger |
| `Voices_proofs!NeverDies` | the noise register is not emptied while its mode stays | invariant: of the register's bits those that the mode feeds back are not all 0 (`Living`, with `RegisterOK`) |

The strengthened invariants were checked by TLC before they were proved, except
`ALUInv`, which quantifies over all traces of instructions and is there to take a
program apart. The theorems about `ALU` hold for every set `Sample` of bytes, the
set of all of them included; `MCCPU` takes a few at the edges.

The three theorems about the stack are of the form `SSpec /\ []Careful => ...`, since no
processor keeps the stack of a program that overwrites it. `Careful` (module
`CallStack`) asks of the instruction that is next: there is room below sp for a word; it
stores nothing over an open frame; it releases what was pushed in its own frame and no
more; `EI` is not used in a handler and `RETI` only at the end of one. It says nothing
about what the processor does, nor when requests come. The program of `MCCallStack` is
careful at all times: with `Careful` added to the invariants of `MCCallStack.cfg`, TLC
passes. What the theorems add to that is that pushes, calls, returns and the acceptance
of a request between any two instructions keep the stack for every such program, every
layout of memory and every number of sources.

Model-checked only, and why:

- all liveness (`UrgentNeverStarves`, `WaitersGoOn`, `FramesKeepComing`,
  `SpritesSettle`, `KeepsSounding`, `HeldKeysAreSeen`, `QuitEnds`): liveness under fairness
  and ENABLED are beyond the prover.

No module of the project declares a RECURSIVE operator of its own.

## 5. What the models found

- `mapper_nine`: on MBC5 a write to the low select leaves the upper four bits of
  the old bank or-ed in, and a write to the high one drops all but four bits and
  puts its bit at the bottom (`Mapper.cc:129-134`); the table in `Mapper.hpp:70`
  says nine bits. Accesses stay in bounds all the same (`RomInBounds`).
- `mapper_seven`: on MBC3 a bank select keeps six bits (`Mapper.cc:111`), and the table in
  `Mapper.hpp:64` says seven. The loader accepts images of 72, 80, 96, 128 and 256 banks, whose
  upper banks are out of reach: 64 shows bank 1.
- `all_members`: `Audio` stores channel 1 and not the other three
  (`Audio.hpp:121`), which have serializers of their own; `Serializer.hpp:26` says
  that structures store all their members.

Facts that are kept in the models, which have no run of their own:

- the timer counts when the selected bit rises (`Timer.cc:32`), and the comment beside
  it says "falling edge". The period is the same; what differs is when the first edge
  comes after a write to DIV;
- a switch to the seven-bit noise mode while the low bits of `lsfr_` are all 0 leaves
  nothing to feed back, and the channel is silent until it is triggered: the
  premise of `Alive`. `Channel4.cc:68` reports the state;
- the phase `t` of the machine's clock is not saved. Processor, timer and sound keep their
  phase because frontends run whole chunks of 10,000 ticks (`ResumesInPhase`); the serial port
  does not, 10,000 being no multiple of 1024;
- `frames_ * 50` wraps after 2^32 / 50 frames, some 16.6 days: from then on the SDL loop
  never sleeps. When `SDL_GetTicks` has wrapped as well, after 49.7 days, one sleep may
  last up to 16.5 days (`wrapped` in `Pacing`; the comment at `SDLFrontend.cc:67`
  speaks of 19 hours for a product that is no longer the one computed);
- a key that is pressed and released between two polls is never seen, and the joypad
  never raises its interrupt (`SDLFrontend`);
- while the display is off, and while the program goes on writing LY (`LCD.hpp:72`),
  `RunMachine` and `Run` do not return: the window does not
  answer and a libretro host waits (the premise of `QuitEnds`);
- `BIT b,(HL)` writes the byte it has read back to memory (`OneBit`), where it may be a register;
- `STOP` has no case in `Execute` (`Stop` in `CPU`);
- the first sweep comes when `sweep_div_` runs out, wherever the last one has left
  it, since no write loads it;
- column 0 of a frame is never drawn (`Whole` in `LCD`);
- bit 7 of SC stays set when a transfer ends (`Tick` in `Serial`).

## 6. Not modelled, and why

- **Test runners** (`test/blargg`, `test/gbppunit`): the same loop over `Machine::Tick` with a
  limit of frames, around files, processes and a comparison with stored pictures. What they
  would show is what their ROMs do.
- **Utilities** (`util`): observers that print and have no effect on the machine.
- **Naming and listing of instructions, logs, windows, palettes, files:** formatting and
  input/output. `libretro.h` is vendored.
- **Background and window dots** (`LCD.cc:9-57, 117-127`): functions of VRAM and the scroll registers,
  without state of their own; a model would write the same expression twice.
- **The rest of `Audio`**: duty, wave samples and the mix (`GenerateSample`) are sums of
  what `Tone`, `Noise` and `Audio` have; no state hangs on them.
- **Decoding of addresses** (`IO.cc`) for the devices other than those in `CPU` and `Machine`: a table.
- **`InputJoypad` of libretro** asks the host on every read and keeps nothing, so what
  `HeldKeysAreSeen` says holds of it between two polls of the host; descriptions of
  the core and of its memories are answers that never change.
- **Streams of another game** in `SaveState`: nothing in a stream says which game it is of.
