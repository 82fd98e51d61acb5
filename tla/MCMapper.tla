------------------------------ MODULE MCMapper ------------------------------
(***************************************************************************)
(* Images of every chip and of sizes on both sides of what the registers   *)
(* reach (2, 8, 72 and 256 banks; no RAM, less than a bank, 4, 16 banks),  *)
(* some of them refused, and writes to each register window of bytes at    *)
(* the edges of every mask. The address 0x0100 is the other half of MBC2's *)
(* enable window. Bounds checks look at the ends of the window.            *)
(***************************************************************************)
EXTENDS Mapper

MCHeaders ==
    {h \in [size : {s * kRomBankSize : s \in {1, 2, 8, 72, 256}}, cgb : {FALSE},
            cart : {0, 1, 4, 5, 15, 25}, rom : {0, 2, 7, 82}, ram : {0, 1, 3, 4, 9}] :
        h.ram \in {1, 3} \/ h.size <= 8 * kRomBankSize}
    \cup {[size |-> 2 * kRomBankSize, cgb |-> TRUE, cart |-> 0, rom |-> 0, ram |-> 0]}

MCAddr == {0, 256, 8192, 12288, 16384, 20480, 24576}
MCData == {0, 1, 10, 31, 32, 64, 127, 255}

MCRomOffset == {0, 1, kRomBankSize - 1}
MCRamOffset == {0, 511, 512, 2047, 2048, kRamBankSize - 1}
=============================================================================
