-------------------------------- MODULE Acpi --------------------------------
(***************************************************************************)
(* The ACPI tables as acpi.h lays them out and acpi.cpp walks them, in     *)
(* bytes.  A table is a record with its signature, the number of bytes it  *)
(* says it has, and its entries: addresses in the RSDT and the XSDT, ECAM  *)
(* areas in the MCFG.                                                      *)
(***************************************************************************)
EXTENDS Integers, Sequences

PAGE_SIZE == 4096

(* XSDP: Revision, RSDT_Address and XSDT_Address. *)
RevisionAt == 15
RsdtAddressAt == 16
XsdtAddressAt == 24

(* SDT_Header: Signature and Length; its size. *)
SignatureAt == 0
LengthAt == 4
HeaderSize == 36

(* RSDT holds u32 addresses, XSDT u64 ones; begin() and end(). *)
AddressSize(revision) == IF revision = 2 THEN 8 ELSE 4
AddressCount(length, size) == (length - HeaderSize) \div size
AddressAt(size, offset) == HeaderSize + size * offset

(* MCFG: the entries begin behind eight reserved bytes, which end() counts *)
(* with them: half an entry, lost in the division.                         *)
McfgEntrySize == 16
McfgEntryAt(index) == HeaderSize + 8 + McfgEntrySize * index
McfgCount(length) == (length - HeaderSize) \div McfgEntrySize

(* The pages that the bytes from address on lie on. *)
PagesOf(address, size) == (address \div PAGE_SIZE) .. ((address + size - 1) \div PAGE_SIZE)

(* The length firmware gives a table. *)
RootLength(count, size) == HeaderSize + size * count
McfgLength(count) == HeaderSize + 8 + McfgEntrySize * count
=============================================================================
