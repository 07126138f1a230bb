------------------------------- MODULE Calls -------------------------------
(***************************************************************************)
(* Calls under way.  Several may be alike, as two heartbeats to one peer   *)
(* are, so B says of each call how many copies of it there are.            *)
(***************************************************************************)
EXTENDS Integers, FiniteSets

CallsIn(B) == DOMAIN B
Copies(c, B) == IF c \in CallsIn(B) THEN B[c] ELSE 0
Number(B) == Cardinality(UNION {{c} \X (1 .. B[c]) : c \in CallsIn(B)})

NoCalls == [c \in {} |-> 0]

\* A copy of each call in S sets out.
Send(B, S) ==
  [c \in CallsIn(B) \cup S |-> Copies(c, B) + (IF c \in S THEN 1 ELSE 0)]

\* The calls in S are left.
Keep(B, S) == [c \in CallsIn(B) \cap S |-> B[c]]

\* A copy of c arrives.
Take(B, c) ==
  IF B[c] > 1 THEN [B EXCEPT ![c] = @ - 1] ELSE Keep(B, CallsIn(B) \ {c})

\* Every call c turns into F(c).
Turn(B, F(_)) ==
  [d \in {F(c) : c \in CallsIn(B)} |-> Number(Keep(B, {c \in CallsIn(B) : F(c) = d}))]
=============================================================================
