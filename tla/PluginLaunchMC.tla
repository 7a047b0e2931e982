--------------------------- MODULE PluginLaunchMC ---------------------------
(* A small policy for PluginLaunch: two fields limited by the operating      *)
(* system (one with a floor), the per-user one and one kept by the parent.   *)
(* "tiny" is a profile that an injected catalog may hold: its budget is      *)
(* under a floor.                                                            *)
EXTENDS PluginLaunch

MCField == {"cpu_seconds", "file_descriptors", "processes", "message_bytes"}

MCOsField == {"cpu_seconds", "file_descriptors"}

Values(c, d, p, m) ==
    [f \in MCField |-> CASE f = "cpu_seconds" -> c [] f = "file_descriptors" -> d
                         [] f = "processes" -> p [] f = "message_bytes" -> m]

MCCeiling == Values(2, 3, 2, 2)

MCFloor == Values(1, 2, 1, 2)

MCClass == {"compute", "tiny", "gone"}

MCCatalog == [k \in {"compute", "tiny"} |->
                 IF k = "compute" THEN Values(2, 3, 1, 2) ELSE Values(1, 1, 1, 2)]

\* Nothing asked for, less than the profile, as much, more, too little.
MCRequest ==
    {Values(c, d, p, None) : c \in {None, 1}, d \in {None, 1, 2}, p \in {None, 1, 2}}
    \union {Values(None, None, None, m) : m \in {1, 2}}

MCSupported == MCOsField \union {"processes"}

MCInherited == {1, 2, Unlimited}

=============================================================================
