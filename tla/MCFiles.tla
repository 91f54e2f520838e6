------------------------------ MODULE MCFiles ------------------------------
\* User keys for Files.cfg: neighbours with a gap between their first bytes, keys
\* that are prefixes of one another, and keys that end in the largest byte.  Their
\* hashes have no probe in common, so that a filter excludes what it can.
EXTENDS Files

MCUsers == {<<0>>, <<0, 0>>, <<2>>, <<2, 2>>}
MCHash == <<0>> :> 1 @@ <<0, 0>> :> 2 @@ <<2>> :> 3 @@ <<2, 2>> :> 8
=============================================================================
