--------------------------- MODULE PluginSessionMC ---------------------------
(* Manifests and messages for PluginSession.                                  *)
EXTENDS PluginSession

Plain == [fields |-> "exact", manifest_version |-> 1, protocol_version |-> 1,
          name |-> "plugin", capabilities |-> <<"write">>, entrypoint |-> "executable"]

MCManifest ==
    {Plain, [Plain EXCEPT !.protocol_version = 2], [Plain EXCEPT !.entrypoint = "missing"],
     [Plain EXCEPT !.capabilities = <<"write", "write">>],
     [Plain EXCEPT !.capabilities = <<"read", "command">>]}

MCMessages ==
    {[type |-> "hello",   id |-> 1, form |-> "good", cap |-> "none"],
     [type |-> "ready",   id |-> 1, form |-> "good", cap |-> "none"],
     [type |-> "request", id |-> 1, form |-> "good", cap |-> "write"],
     [type |-> "request", id |-> 2, form |-> "nowhere", cap |-> "read"],
     [type |-> "request", id |-> 2, form |-> "good", cap |-> "read"],
     [type |-> "request", id |-> 3, form |-> "garbage", cap |-> "none"],
     [type |-> "request", id |-> 3, form |-> "malformed", cap |-> "command"],
     [type |-> "ack",     id |-> 4, form |-> "good", cap |-> "none"],
     [type |-> "request", id |-> 5, form |-> "oversize", cap |-> "none"]}

=============================================================================
