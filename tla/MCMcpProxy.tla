---------------------------- MODULE MCMcpProxy ----------------------------
(* McpProxy with three calls, two of which share an id.                    *)
EXTENDS McpProxy, TLC

CONSTANTS c1, c2, c3

ThreeCalls == {c1, c2, c3}
TwoIds == {1, 2}
TwoCalls == {c1, c3}
OwnId == c1 :> 1 @@ c3 :> 2
SharedId == c1 :> 1 @@ c2 :> 1 @@ c3 :> 2

(* Of the two calls under one id the first gets any answer, and the other  *)
(* one of each outcome; the third is not intercepted.                      *)
AnyOrFew == [c \in ThreeCalls |-> IF c = c2 THEN {"allow", "block", "outage"} ELSE Answers]
AnyAnswer == [c \in TwoCalls |-> Answers]
=============================================================================
