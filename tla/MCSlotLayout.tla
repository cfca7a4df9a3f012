---------------------------- MODULE MCSlotLayout ----------------------------
(* Instances of SlotLayout for TLC: bytes and elements instead of megabytes. *)
EXTENDS SlotLayout

Config(n, l, b, m) == [num_layers |-> n, layer_size |-> l, buffer |-> b, max_requests |-> m]

\* The geometry of the router and the connector with room for every slot, the same with a
\* buffer of one slot, and a slot of the same size with layers of another.
MCConfigs == {Config(2, 4, 16, 2), Config(2, 4, 8, 1), Config(4, 2, 16, 2)}
MCOneConfig == {Config(2, 4, 16, 2)}

\* The caches of two prompts fit into a layer, that of the third does not.
MCPrompts == {"short", "also_short", "long"}
MCCacheSize == [p \in MCPrompts |-> IF p = "long" THEN 2 ELSE 1]
MCOnePrompt == {"short"}
MCOneCacheSize == [p \in MCOnePrompt |-> 1]

MCNames == {1, 2, NoNumber}
MCNumbers == {0, 1}
=============================================================================
