----------------------------- MODULE MCMultisig -----------------------------
(* Multisig for TLC: the active permissions of two actors, requested alone *)
(* and together, and one of them twice.                                    *)
EXTENDS Multisig

LevelA == <<"a", "active">>
LevelB == <<"b", "active">>

MCLevels == {LevelA, LevelB}
MCRequests == {<<LevelA>>, <<LevelB>>, <<LevelA, LevelB>>, <<LevelB, LevelA, LevelB>>}
=============================================================================
