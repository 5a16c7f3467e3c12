---------------------------- MODULE MCNamespace -----------------------------
(* Small instances of Namespace: the names usr and bin, the paths of at    *)
(* most two components and a malformed one; of three where one name will do.*)
EXTENDS Namespace

CONSTANTS usr, bin, etc, bad

TwoNames == {usr, bin}
TwoNamePaths == {<<bad>>, <<usr>>, <<bin>>, <<usr, bin>>}
ThreeNames == {usr, bin, etc}
ThreeNamePaths == {<<usr>>, <<bin>>, <<etc>>, <<usr, usr>>, <<usr, bin>>, <<usr, etc>>}
OneName == {usr}
OneNamePaths == {<<bad>>, <<usr>>, <<usr, usr>>, <<usr, usr, usr>>}

EveryCall == {"mkfs", "mkdir", "rmdir", "remove", "rename", "open", "creat",
              "close"}
DirCalls == {"mkdir", "rmdir", "rename"}
MkdirOnly == {"mkdir"}
OneSession == EveryCall \ {"mkfs"}

Junk == {NilEntry}
=============================================================================
