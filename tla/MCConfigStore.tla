---------------------------- MODULE MCConfigStore ----------------------------
(***************************************************************************)
(* ConfigStore for TLC: lists with a new network, with blanked passwords in *)
(* another order, and with the same SSID twice.                             *)
(***************************************************************************)
EXTENDS ConfigStore, TLC

Net(s, p) == [ssid |-> s, password |-> p]

SomeLists == {<<Net("home", "p"), Net("shed", "")>>,
              <<Net("shed", ""), Net("home", "")>>,
              <<Net("home", ""), Net("home", "p")>>}

FactoryDefault == [networks |-> <<>>, switches |-> "s0", key |-> ""]

WriterSymmetry == Permutations(Writers)
=============================================================================
