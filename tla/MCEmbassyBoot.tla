---------------------------- MODULE MCEmbassyBoot ----------------------------
(***************************************************************************)
(* EmbassyBoot with two networks, of which a has a wrong password, and the *)
(* lists without any, with the bad one only, and with both in this order;  *)
(* a configuration with the good network alone is too big for the region.  *)
(***************************************************************************)
EXTENDS EmbassyBoot

CONSTANTS a, b

MCNetworks == {a, b}
MCLists == {<<>>, <<a>>, <<b>>, <<a, b>>}
MCTooBig == {<<b>>}
MCJoinable == {b}
MCDefault == <<>>
=============================================================================
