------------------------------ MODULE MCBodies ------------------------------
(* Instances of Bodies for TLC. *)
EXTENDS Bodies

\* Success, two refusals, a negative code, and 1007 with its own rule.
SomeCodes == {-1, 0, 3, 1007}
\* The empty string, one byte, one that looks like a length, one not in UTF-8.
SomeTexts == {<<>>, <<7>>, <<0, 1>>, <<255>>}
NotUtf8 == {<<255>>}
SomeJuid == <<0, 0, 0, 0, 0, 0, 0, 9>>
=============================================================================
