---------------------------- MODULE MCAhciClient ----------------------------
(***************************************************************************)
(* One port with two usable slots, one aligned and one misaligned command   *)
(* area, two buffers.                                                       *)
(***************************************************************************)
EXTENDS AhciClient

MCPorts == {0}
MCBases == {1, 2}
MCMisaligned == {2}
MCBuffers == {1, 2}
MCLBAs == {0}
MCSectors == {1, 17}
MCOneSector == {1}
=============================================================================
