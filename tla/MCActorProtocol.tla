--------------------------- MODULE MCActorProtocol ---------------------------
(* The port of an engine with two clients; see the configuration.          *)
EXTENDS ActorProtocol

CONSTANTS c1, c2

(* Both call synchronously; one also reports changes of devices, which the  *)
(* engine may purge.                                                        *)
MCSends == {<<c1, "sync">>, <<c2, "sync">>, <<c2, "change">>}
=============================================================================
