---------------------------- MODULE MC_PromptTurns ----------------------------
(***************************************************************************)
(* Instances of prompt turns for TLC: one session and two prompts, so that *)
(* a second turn meets every way the first may end.                        *)
(***************************************************************************)
EXTENDS PromptTurns

CONSTANT s1

OneSession == [p \in Prompts |-> s1]
=============================================================================
