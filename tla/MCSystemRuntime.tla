-------------------------- MODULE MCSystemRuntime --------------------------
(* A service and a kiosk that compete for one resource, and a service with  *)
(* another one, in two versions; a kiosk that does not validate, a host     *)
(* service that Apply refuses, and a configuration that is empty.           *)
EXTENDS SystemRuntime

Of(fl, v, g, b, f) ==
    [flavor |-> fl, valid |-> v, group |-> g, bin |-> b, files |-> f]

MCConfig == {Of("managed", TRUE, "display", "b1", "f1"),
             Of("managed", TRUE, "audio", "b1", "f2"),
             Of("managed", TRUE, "audio", "b2", "f2"),
             Of("kiosk", TRUE, "display", "b1", "f1"),
             Of("kiosk", FALSE, "display", "b1", "f1"),
             Of("host", TRUE, None, "b1", "f1"),
             Of("empty", FALSE, None, "b1", "f1")}

MCKiosk == {Of("kiosk", TRUE, "display", "b1", "f1")}
=============================================================================
