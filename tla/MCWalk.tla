------------------------------- MODULE MCWalk -------------------------------
(***************************************************************************)
(* Tables of all versions, with and without a notification callback, one    *)
(* with a peer that does not resolve; three configurations: none, one for  *)
(* version 3 and one with passphrases of their own.                        *)
(*                                                                         *)
(* Walks over a tree with a subtree, a single object beside it and objects *)
(* before and after; in Alike an object outside a subtree whose text has   *)
(* that of the root in it.                                                 *)
(***************************************************************************)
EXTENDS Walk

Plain == Table(<<>>, Field)
V1 == Table([version |-> "SNMPv1", community |-> "private"], Field)
Rooted == Table([trap |-> "function", peer |-> "host", includeroot |-> "true"], Field)
V3 == Table([version |-> "SNMPv3", user |-> "user", password |-> "pass"], Field)

Unreachable == Table([trap |-> "function", peer |-> "unknown"], Field)

Tables == {Plain, V1, Rooted, V3, Unreachable}
PlainTable == {Plain}

NoFile == Table(<<>>, Token)
ForV3 == Table([defVersion |-> "3", defSecurityName |-> "defUser",
                defSecurityLevel |-> "authPriv", defAuthType |-> "SHA",
                defPassphrase |-> "defPass"], Token)
ForBoth == Table([defVersion |-> "2c", defCommunity |-> "defCommunity",
                  defAuthPassphrase |-> "defAuth", defPrivPassphrase |-> "defPriv"], Token)

Files == {NoFile, ForV3, ForBoth}
NoFiles == {NoFile}

WalkedTables == NoFiles \X {Plain, V1, Rooted}
WalkedPlain == NoFiles \X PlainTable

Few == {<<1, 1, 4>>, <<1, 2>>, <<1, 2, 1>>, <<1, 2, 3>>, <<1, 3>>}
Roots == {<<1, 2>>, <<1, 3>>}

Alike == {<<1, 2, 1>>, <<1, 20>>}
AlikeRoot == {<<1, 2>>}

(* The text of an object tells its subtree in the first set of objects and *)
(* not in the second.                                                      *)
ASSUME TextsOfObjects ==
  /\ TextTells(Roots, Few)
  /\ ~TextTells(AlikeRoot, Alike)
=============================================================================
