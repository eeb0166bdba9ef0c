----------------------------- MODULE MCLauncher -----------------------------
EXTENDS Launcher, TLC
Sym == Permutations(Dirs)
=============================================================================
