-------------------------------- MODULE MCPegIn --------------------------------
(***************************************************************************)
(* An instance of PegIn for TLC: one burn, one or two locks, a chain of a  *)
(* handful of blocks that loses its last block once.                       *)
(***************************************************************************)
EXTENDS PegIn

MCOneWallet == <<3>>
MCBurned == "burn" :> 3
MCSamples == {{}, {2, 4}}
================================================================================
