------------------------- MODULE MCPackageTransaction -------------------------
(* Instances of PackageTransaction for TLC.                                *)
EXTENDS PackageTransaction, TLC

ThreeEntries == <<"acoustic", "README.txt", "pstrain-package.json">>
TwoForeigners == {<<"foreign", "f1">>, <<"foreign", "f2">>}
=============================================================================
