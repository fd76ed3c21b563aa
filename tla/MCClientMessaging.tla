-------------------------- MODULE MCClientMessaging --------------------------
(* Two clients that have each other as contacts, one of them a reflector.   *)
EXTENDS ClientMessaging

CONSTANTS a, b

MCUsers  == {a, b}
MCTexts  == {"hi"}
Both     == {<<a, b>>, <<b, a>>}
Self     == {<<a, a>>}
=============================================================================
