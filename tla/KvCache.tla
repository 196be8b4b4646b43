------------------------------- MODULE KvCache -------------------------------
(***************************************************************************)
(* The KV-cache accounting every serving loop shares: what a sequence of   *)
(* ctx tokens occupies on a chip, and what one more token adds to it.      *)
(*                                                                         *)
(* Bytes are integers: the code computes them in floats and compares them  *)
(* with a slack _EPS of 1e-6 bytes, which is the exact comparison on       *)
(* integers.  A dense model is SwaShare = 0; a sliding-window one has      *)
(* SwaShare of the KvPerToken bytes in layers that hold at most SwaWindow  *)
(* tokens.                                                                 *)
(***************************************************************************)
EXTENDS Integers, FiniteSets

CONSTANTS
  KvPerToken,   \* kpt: bytes a fresh token adds while no window is full
  SwaShare,     \* swa_share: the part of kpt held by windowed layers
  SwaWindow     \* W: tokens a windowed layer keeps

ASSUME KvAssumption ==
  /\ KvPerToken \in Nat \ {0}
  /\ SwaShare \in 0 .. KvPerToken
  /\ SwaWindow \in Nat

\* kv_bytes(ctx): the footprint of one sequence at ctx tokens.
KvBytes(ctx) ==
  IF ctx > SwaWindow THEN ctx * KvPerToken - (ctx - SwaWindow) * SwaShare
                     ELSE ctx * KvPerToken

\* Slip (see Serve): the growth ignores the window.
KvGrowFlat(ctx) == KvPerToken

\* kv_grow(ctx): the bytes one more token adds to a sequence of ctx tokens.
KvGrow(ctx) ==
  IF ctx >= SwaWindow THEN KvPerToken - SwaShare ELSE KvPerToken

-----------------------------------------------------------------------------
(***************************************************************************)
(* The sum of f over a finite set S, for the code's sum(... for x in S).   *)
(* It counts the units of f[x], one cell each, so that it needs no         *)
(* recursion and its laws can be proved.                                   *)
(***************************************************************************)
Cells(f, S) == UNION {{x} \X (1 .. f[x]) : x \in S}

Total(f, S) == Cardinality(Cells(f, S))
=============================================================================
