------------------------------ MODULE MCPatching ------------------------------
(* Patching, with patches short enough for TLC. *)
EXTENDS Patching

MCReplacement ==
    [b \in Branches |-> IF b = "Legacy" THEN [a \in {1, 2} |-> 144] ELSE [a \in {2} |-> 235]]

\* As in the program, one pattern has a wildcard and is patched behind its start.
MCScriptPatches ==
    <<[m_pattern |-> <<235, Wild, 144>>, m_offset |-> 1, m_patch |-> <<116, 116>>],
      [m_pattern |-> <<144, 116>>, m_offset |-> 0, m_patch |-> <<235>>]>>
==============================================================================
