------------------------------ MODULE MCVerify ------------------------------
(***************************************************************************)
(* A boot partition with a hash, a system partition of one to five blocks  *)
(* with a hash tree of up to three levels, and a partition other that      *)
(* holds another system.  A system image may be cut short, or emptied.     *)
(***************************************************************************)
EXTENDS AvbVerify

MCZero == << "zero" >>
MCNoHash == << "none" >>

Data(n, v) == [i \in 1..n |-> << "data", IF i = n THEN v ELSE "a" >>]

Boot(key, persistent) == HashFooterImage("boot", Data(2, "b"), key, persistent)
System(n, key, keepTree, setup) ==
  HashtreeFooterImage("system", Data(n, "s"), key, keepTree, setup, 0)
Other == HashtreeFooterImage("system", Data(2, "o"), "k1", TRUE, FALSE, 1)

Files(boot, system) == [boot |-> boot, system |-> system, other |-> Other]
MCStartFiles ==
  {Files(Boot("k1", FALSE), System(1, "k2", TRUE, FALSE)),
   Files(Boot(NoKey, TRUE), System(5, "k1", TRUE, FALSE)),
   Files(Boot("k1", TRUE), System(3, NoKey, FALSE, TRUE))}

MCNewFiles ==
  [boot |-> {Boot("k1", FALSE), HashFooterImage("boot", Data(3, "c"), "k2", FALSE)},
   system |-> {System(5, "k1", TRUE, TRUE), Data(3, "s"), << >>},
   other |-> {}]

Chain(name, location, key) == [name |-> name, location |-> location, key |-> key]
Make(key, location, chain, setup, include) ==
  [key |-> key, location |-> location, chain |-> chain, setup |-> setup, include |-> include]

MCMakeCommand ==
  {Make("k1", 0, << >>, << "system" >>, << "other", "system", "boot" >>),
   Make(NoKey, 1, << Chain("boot", 2, "k1") >>, << >>, << "system", "other" >>),
   Make("k2", 0, << Chain("boot", 1, "k1"), Chain("system", 1, "k2") >>, << >>, << >>),
   Make("k1", 0, << Chain("boot", 1, "k1"), Chain("system", 2, "k2") >>, << >>, << >>),
   Make("k1", 0, << Chain("vbmeta", 3, "k1") >>, << >>, << "boot" >>)}

Command(image, key, follow, expected, accept) ==
  [image |-> image, key |-> key, follow |-> follow, expected |-> expected,
   accept_zeroed |-> accept]

MCVerifyCommand ==
  {Command("vbmeta", "k1", TRUE, {}, FALSE),
   Command("vbmeta", NoKey, FALSE, {}, TRUE),
   Command("vbmeta", NoKey, FALSE, {Chain("boot", 2, "k1")}, FALSE),
   Command("vbmeta", NoKey, TRUE, {Chain("boot", 1, "k1")}, TRUE),
   Command("system", "k1", FALSE, {}, FALSE)}
=============================================================================
