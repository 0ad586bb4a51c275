------------------------------ MODULE FencedBuild ------------------------------
(***************************************************************************)
(* What the presentation worker promises about one deck revision, whatever  *)
(* its phases, crashes and recoveries: builds are numbered by a token that  *)
(* only grows, a file becomes visible only under the newest token, each     *)
(* token publishes at most once, and the number of tokens is bounded.       *)
(***************************************************************************)
EXTENDS Naturals

CONSTANT MaxTokens  \* how many tokens there may be

VARIABLES token,   \* the newest token issued
          visible  \* the token whose file readers see, 0 when there is none

FencedInit == token = 0 /\ visible = 0

\* A worker takes over: every older token is fenced off from now on.
Acquire ==
    /\ token < MaxTokens
    /\ token' = token + 1
    /\ UNCHANGED visible

\* The holder of the newest token makes its file visible, once.
Reveal ==
    /\ visible < token
    /\ visible' = token
    /\ UNCHANGED token

FencedNext == Acquire \/ Reveal

FencedSpec == FencedInit /\ [][FencedNext]_<<token, visible>>
================================================================================
