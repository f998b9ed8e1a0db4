------------------------------ MODULE MCSDCard ------------------------------
(***************************************************************************)
(* Instances of the SD card: blocks of Base bytes that look like           *)
(* the start of a block and of a command, at two addresses.                *)
(***************************************************************************)
EXTENDS SDProperties

BlockPair == {[i \in 1 .. Base |-> IF i % 2 = 1 THEN 254 ELSE 64], [i \in 1 .. Base |-> IF i % 2 = 1 THEN 127 ELSE 255]}
TwoAddresses == {0, Base}

\* CMD2 is unknown; CMD8 has a long answer, CMD10 a block.
SomeCommands == {2, 8, 10}

=============================================================================
