------------------------------- MODULE MCSDK --------------------------------
(* NomadSDK on domains deployed in the first block, with pages of two  *)
(* blocks.                                                                 *)
EXTENDS NomadSDK

ShortPages == [from |-> 1, blocks |-> 2]
=============================================================================
