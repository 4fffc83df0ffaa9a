-------------------------- MODULE MCSubscribeList --------------------------
(* The instance of SubscribeList that TLC checks.                          *)
EXTENDS SubscribeList, TLC

\* Descriptors and mods differ by name only.
MCSymmetry == Permutations(Fd) \cup Permutations(Mod)

=============================================================================
