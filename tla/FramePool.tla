------------------------------ MODULE FramePool -----------------------------
(***************************************************************************)
(* What a page frame allocator promises its callers.  A call asks for a    *)
(* run of consecutive frames; the answer is the lowest run that is free,   *)
(* or a refusal, and a refusal only when there is no such run.  A run is   *)
(* held until its caller gives it back, in whole or from the front.        *)
(***************************************************************************)
EXTENDS Integers

CONSTANTS
  Frames,   (* the page frames, a set of naturals                *)
  Needs     (* the lengths of run that are asked for             *)

VARIABLES
  free,     (* frames nobody holds and that may be handed out    *)
  held,     (* the runs <<first frame, length>> callers hold     *)
  pending   (* length asked for by the call in progress, 0 = none *)

poolVars == <<free, held, pending>>

Run(b, n) == {i \in Frames : b <= i /\ i < b + n}

(* b starts a run of n free frames that lies inside the pool. *)
Fits(b, n) == \A i \in b .. b + n - 1 : i \in free

Init ==
  /\ free \in SUBSET (Frames \ {0})
  /\ held = {}
  /\ pending = 0

Request(n) ==
  /\ pending = 0
  /\ pending' = n
  /\ UNCHANGED <<free, held>>

Grant(b) ==
  /\ pending # 0
  /\ Fits(b, pending)
  /\ \A c \in Frames : c < b => ~Fits(c, pending)
  /\ free' = free \ Run(b, pending)
  /\ held' = held \cup {<<b, pending>>}
  /\ pending' = 0

Refuse ==
  /\ pending # 0
  /\ \A b \in Frames : ~Fits(b, pending)
  /\ pending' = 0
  /\ UNCHANGED <<free, held>>

(* The first k frames of the run g come back; the rest stays held. *)
Give(g, k) ==
  /\ pending = 0
  /\ free' = free \cup Run(g[1], k)
  /\ held' = (held \ {g})
               \cup (IF k < g[2] THEN {<<g[1] + k, g[2] - k>>} ELSE {})
  /\ UNCHANGED pending

Next ==
  \/ \E n \in Needs : Request(n)
  \/ \E b \in Frames : Grant(b)
  \/ Refuse
  \/ \E g \in held : \E k \in 1 .. g[2] : Give(g, k)

Spec == Init /\ [][Next]_poolVars
=============================================================================
