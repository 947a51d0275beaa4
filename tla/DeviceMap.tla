----------------------------- MODULE DeviceMap ------------------------------
(***************************************************************************)
(* The lookups of device_map.cpp, reduced to what their callers see:       *)
(* whether there is a name or the null pointer.  A class is the set of the *)
(* pairs of subclass and programming interface that have one.              *)
(*                                                                         *)
(* The interface 0xFF stands for "any" in the lists the names are taken    *)
(* from, but the switch compares it like every other value: an Ethernet    *)
(* controller, 02-00-00, has no name.                                      *)
(***************************************************************************)
EXTENDS Integers

AnyInterface(subs) == subs \X {\hFF}
With(subs, interfaces) == subs \X (interfaces \union {\hFF})

Storage ==
    With({\h00, \h02, \h03, \h04}, {\h00}) \union AnyInterface({\hFF})
    \union With({\h01}, {\h00, \h05, \h0A, \h0F, \h80, \h85, \h8A, \h8F})
    \union With({\h05}, {\h20, \h30})  \union With({\h06}, {\h00, \h01, \h02})
    \union With({\h07}, {\h01})        \union With({\h08}, {\h01, \h02})
    \union With({\h09}, {\h00, \h01})

(* Network, display, multimedia and memory: classes 02 to 05. *)
Network == AnyInterface(\h00 .. \h08 \union {\hFF})
Display == AnyInterface({\h01, \h02, \hFF}) \union With({\h00}, {\h00, \h01})
Multimedia == AnyInterface(\h00 .. \h03 \union {\hFF})
MemoryClass == AnyInterface({\h00, \h01, \hFF}) \union With({\h02}, {\h00, \h10})

Bridge ==
    With({\h00, \h01, \h02, \h03, \h05, \h06, \h07, \h0A, \h80}, {\h00})
    \union With({\h04, \h08, \h0B}, {\h00, \h01}) \union With({\h09}, {\h40, \h80})
    \union AnyInterface({\hFF})

Communication ==
    AnyInterface({\h02, \h04, \h05, \hFF}) \union With({\h00}, \h00 .. \h06)
    \union With({\h01}, \h00 .. \h03 \union {\hFE}) \union With({\h03}, \h00 .. \h04)

Peripheral ==
    AnyInterface({\h04, \h05, \h06, \hFF}) \union With({\h00}, {\h00, \h01, \h02, \h10, \h20})
    \union With({\h01}, \h00 .. \h02) \union With({\h02}, \h00 .. \h03)
    \union With({\h03}, {\h00, \h01}) \union With({\h99}, {\h01})

(* Input, docking stations and processors: classes 09 to 0B. *)
Input == AnyInterface(\h00 .. \h03 \union {\hFF}) \union With({\h04}, {\h00, \h10})
Docking == AnyInterface({\h00, \hFF})
Processor == AnyInterface({\h00, \h01, \h02, \h10, \h20, \h30, \h40, \hFF})

SerialBus ==
    AnyInterface({\h01, \h02, \h04, \h06, \h08, \h09, \hFF}) \union With({\h00}, {\h00, \h10})
    \union With({\h03}, {\h00, \h10, \h20, \h30, \h40, \hFE})
    \union With({\h05}, {\h00}) \union With({\h07}, \h00 .. \h02)

(* The classes from 0D up have nothing but names for any interface. *)
Wireless == AnyInterface({\h00, \h01, \h10, \h11, \h12, \h20, \h21, \hFF})
Satellite == AnyInterface(\h01 .. \h04 \union {\hFF})
Encryption == AnyInterface({\h00, \h10, \hFF})
Signal == AnyInterface({\h00, \h01, \h10, \h20, \hFF})

(* GetDeviceDescriptor. *)
ClassOf(base) ==
    CASE base = \h00 -> AnyInterface({\h00, \h01, \h05, \hFF})
      [] base = \h01 -> Storage       [] base = \h02 -> Network
      [] base = \h03 -> Display       [] base = \h04 -> Multimedia
      [] base = \h05 -> MemoryClass   [] base = \h06 -> Bridge
      [] base = \h07 -> Communication [] base = \h08 -> Peripheral
      [] base = \h09 -> Input         [] base = \h0A -> Docking
      [] base = \h0B -> Processor     [] base = \h0C -> SerialBus
      [] base = \h0D -> Wireless      [] base = \h0E -> Docking
      [] base = \h0F -> Satellite     [] base = \h10 -> Encryption
      [] base = \h11 -> Signal        [] base = \h12 -> AnyInterface({\h01, \hFF})
      [] base \in {\h13, \h40, \hFF} -> AnyInterface({\hFF})
      [] OTHER -> {}

HasDescriptor(base, sub, interface) == <<sub, interface>> \in ClassOf(base)

(* GetVendorName and GetDeviceName. *)
HasVendorName(vendor) == vendor \in {\h1002, \h1022, \h10DE, \h10EC, \h1234, \h8086}

IntelDevices == {\h10D3, \h2448, \h2815, \h2828, \h283A, \h283E, \h283F, \h2841, \h2843, \h2845,
                 \h2847, \h2849, \h284B, \h284F, \h2918, \h2922, \h2930, \h29C0, \h2A00, \h2A01,
                 \h4229} \union \h2830 .. \h2836
RealtekDevices == {\h8161, \h8167, \h8168, \h8169} \union \h816A .. \h816E

HasDeviceName(vendor, device) ==
    \/ vendor = \h8086 /\ device \in IntelDevices
    \/ vendor = \h10DE /\ device = \h060C
    \/ vendor = \h10EC /\ device \in RealtekDevices
    \/ vendor = \h1234 /\ device = \h1111
=============================================================================
