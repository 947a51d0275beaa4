------------------------------ MODULE MCKernel ------------------------------
(* Values for Kernel: two-bit bus numbers, two devices on a bus, two         *)
(* functions in a device, command areas of three pages, a heap and one       *)
(* extension of two pages each.  One sound machine, what can be otherwise    *)
(* about it, one thing at a time, and pairs where two of them meet.          *)
EXTENDS Kernel

MCBusNumbers == 4
MCDevicesPerBus == 2
MCFunctionsPerDevice == 2
MCPagesPerTable == 32
MCAreaFrames == 3
MCFISPage == 1
MCTablesPage == 1
MCFifoSize == 1
MCStackFrames == 3

Mode(width) == [bpp |-> 32, width |-> width]
Entry(type, base, length) == [type |-> type, base |-> base, length |-> length]
Table(signature, page, offset) == [signature |-> signature, address |-> page * PAGE_SIZE + offset]
Function(class, vendor, device, multi, abar, NP, implemented) ==
    [present |-> TRUE, multi |-> multi, class |-> class, vendor |-> vendor, device |-> device,
     abar |-> abar, NP |-> NP, implemented |-> implemented,
     slots |-> 2, drives |-> [i \in {} |-> "ATA"], stuck |-> {}]

Ahci(NP, implemented) == Function(<<1, 6, 1>>, \h8086, \h2922, FALSE, 200, NP, implemented)
Fitted(header, drives, stuck) == [header EXCEPT !.drives = drives, !.stuck = stuck]
Raid == Function(<<1, 4, 0>>, \h1002, 1, FALSE, 210, 0, {})
SataVendor == Function(<<1, 6, 0>>, \h8086, \h2828, TRUE, 220, 5, {0})
Ethernet == Function(<<2, 0, 0>>, \h1AF4, 2, FALSE, 222, 0, {})

(* Bus b, device d, function f are at page 64 + 4 * b + 2 * d + f. *)
Config == (64 :> Ethernet) @@ (66 :> SataVendor) @@ (67 :> Fitted(Ahci(5, {0, 4}), 0 :> "ATA" @@ 3 :> "PM", {}))
       @@ (68 :> Fitted(Ahci(31, {0, 2, 29}), 0 :> "other" @@ 29 :> "SEMB", {})) @@ (70 :> Raid) @@ (76 :> Ethernet)
Mcfg(start, end) == [base |-> 64, start |-> start, end |-> end]

SoundMachine ==
    [com1 |-> TRUE, missing |-> {}, undrawable |-> {}, name |-> "Limine", version |-> "9",
     firmware |-> "UEFI64", framebuffer |-> Mode(800), modes |-> <<Mode(800), Mode(640)>>,
     memmap |-> <<Entry("USABLE", 0, 40), Entry("RESERVED", 60, 10), Entry("BOOTLOADER RECLAIMABLE", 40, 10)>>,
     cpus |-> 2, efi |-> TRUE, vendor |-> "EDK II", free |-> 300 .. 326, heap |-> <<2, 2>>,
     rsdp |-> 10 * PAGE_SIZE + 20, revision |-> 2, root |-> 11 * PAGE_SIZE + 8,
     rootLength |-> RootLength(2, 8),
     tables |-> <<Table("FACP", 12, 0), Table("MCFG", 12, 512)>>,
     mcfgAt |-> 12 * PAGE_SIZE + 512, mcfgLength |-> McfgLength(1), mcfg |-> <<Mcfg(0, 2)>>,
     config |-> Config, exceptions |-> {}]

Other(S) == {fields @@ SoundMachine : fields \in S}

NMI == [vector |-> 2, info |-> 0]
AllExceptions ==
    {[vector |-> v, info |-> 0] : v \in {0, 1, 2, 3, 4, 5, 6, 7, 8, 16, 18, 19, 20}}
    \union {[vector |-> v, info |-> c] : v \in {17, 21}, c \in {0, 3}}
    \union {[vector |-> 14, info |-> flags] : flags \in {{}, {"present", "write", "sgx"}, {"key", "user"}}}
    \union {[vector |-> v, info |-> [external |-> x, table |-> t, index |-> i]] :
                v \in {10, 11, 12, 13}, x \in {TRUE}, t \in {"GDT", "IDT", "LDT"}, i \in {5}}
    \union {[vector |-> 13, info |-> [external |-> FALSE, table |-> "GDT", index |-> 0]]}

(* A root table whose addresses end on the next page, and so for the others. *)
Straddling ==
    {[rsdp |-> 11 * PAGE_SIZE - 20], [root |-> 12 * PAGE_SIZE - 44], [root |-> 12 * PAGE_SIZE - 6],
     [tables |-> <<Table("FACP", 12, 0), Table("MCFG", 13, -56)>>, mcfgAt |-> 13 * PAGE_SIZE - 56]}

Ranges ==
    {[mcfg |-> entries, mcfgLength |-> McfgLength(Len(entries))] :
        entries \in {<<>>, <<Mcfg(0, 0)>>, <<Mcfg(1, 3)>>, <<Mcfg(3, 1)>>, <<Mcfg(0, 3)>>,
                     <<Mcfg(0, 1), Mcfg(3, 0)>>}}

MCMachines ==
    {SoundMachine}
    \union Other({[missing |-> {r}] : r \in Requests})
    \union Other({[missing |-> {"mp", "rsdp"}, exceptions |-> {NMI}]})
    \union Other({[com1 |-> FALSE, exceptions |-> {NMI}]})
    \union Other({[exceptions |-> AllExceptions, efi |-> FALSE, mcfg |-> <<Mcfg(1, 2)>>]})
    \union Other({[undrawable |-> {s}, exceptions |-> {NMI}] : s \in {"Limine", "EDK II"}})
    \union Other({[memmap |-> <<Entry("USABLE", 0, 40), Entry("ACPI TABLES", 50, 5)>>],
                  [memmap |-> <<Entry("ACPI TABLES", 50, 5)>>, firmware |-> "EFI"]})
    \union Other({[free |-> 300 .. last] : last \in 299 .. 325})
    \union Other({[free |-> 310 .. last, heap |-> <<2>>] : last \in 319 .. 335})
    \union Other({[free |-> (300 .. last) \ {302, 305}] : last \in {310, 325}})
    \union Other({[config |-> (67 :> Fitted(Ahci(5, {0, 1}), 0 :> "ATAPI" @@ 1 :> "ATA", {1})) @@ Config,
                   exceptions |-> x] : x \in {{}, {NMI}}})
    \union Other({[revision |-> 0, rootLength |-> RootLength(2, 4)], [revision |-> 3],
                  [revision |-> 1, rootLength |-> RootLength(2, 4) + 3]})
    \union Other({[tables |-> <<Table("FACP", 12, 0)>>, rootLength |-> RootLength(1, 8)]})
    \union Other(Straddling)
    \union Other(Ranges)
    \union Other({[config |-> Config @@ (69 :> Fitted(Ahci(31, {30}), 30 :> "ATA", {}))],
                  [config |-> (68 :> Ahci(31, {0, 30})) @@ Config]})
=============================================================================
