----------------------------- MODULE Follower -----------------------------
(***************************************************************************)
(* What a reader that keeps copies of versioned sources promises to those  *)
(* who act on the copies: they are never ahead of the source, and they     *)
(* never go back to an older version, so that what was acted on once is    *)
(* not undone on the strength of old data.  Only a reader that is leaving  *)
(* may fall back.                                                          *)
(***************************************************************************)
EXTENDS Integers

CONSTANT Item

VARIABLES
  source,   \* version of each source
  copy,     \* version of it the reader holds
  leaving   \* the reader is on its way out

vars == <<source, copy, leaving>>

NotAhead(copies) == \A i \in Item : copies[i] <= source[i]

Init == NotAhead(copy)

Publish == (\A i \in Item : source[i] <= source'[i]) /\ copy' = copy

Follow == (\A i \in Item : copy[i] <= copy'[i]) /\ NotAhead(copy') /\ source' = source

FallBack == leaving /\ NotAhead(copy') /\ source' = source

Next == Publish \/ Follow \/ FallBack

Spec == Init /\ [][Next]_vars
=============================================================================
