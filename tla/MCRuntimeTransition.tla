------------------------ MODULE MCRuntimeTransition ------------------------
(* Small instances of RuntimeTransition for TLC. *)
EXTENDS RuntimeTransition

CONSTANTS fresh, n1

\* A change of the environment moves the global inbounds, or the Telegram targets
\* behind the same inbounds.
MCSetups == {"global_a", "global_b", "telegram_a", "telegram_b"}
MCPort == [c \in MCSetups |-> IF c = "telegram_b" THEN "telegram_a" ELSE c]
MCHome == [s \in Scenes |-> IF s = "global" THEN "global_a" ELSE "telegram_a"]
MCMoved == [s \in Scenes |-> IF s = "global" THEN "global_b" ELSE "telegram_b"]
MCConfigs == {MCHome, MCMoved}
OneConfig == {MCHome}

\* What an administrator puts in place of a store file: nothing, garbage, a store of
\* an old generation, and a store of the generation the next candidate takes.
MCEdits == {Absent, Corrupt, [gen |-> 0, on |-> {}, cfg |-> n1, conf |-> MCHome],
            [gen |-> 2, on |-> {}, cfg |-> n1, conf |-> MCHome]}
NoEdits == {}
=============================================================================
