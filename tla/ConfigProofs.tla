---------------------------- MODULE ConfigProofs ----------------------------
(***************************************************************************)
(* What no source can set, for every set of settings, every set of values  *)
(* and every default.                                                      *)
(***************************************************************************)
EXTENDS Config, TLAPS

NoZeroWithDefault == \A s \in Setting : Default[s] # 0 => cfg[s] # 0

ConfigInv == pc = "read" => NoZeroWithDefault

(* Every stage of Read keeps the invariant: the last one replaces zeros.   *)
LEMMA StepKeeps == ConfigInv /\ [Next]_vars => ConfigInv'
<1> SUFFICES ASSUME ConfigInv, [Next]_vars PROVE ConfigInv'
  OBVIOUS
<1>1. CASE ParseFlags \/ ParseEnv \/ MergeFile
  BY <1>1 DEF ParseFlags, ParseEnv, MergeFile, ConfigInv
<1>2. CASE MergeDefaults
  <2>1. \A s \in Setting : cfg'[s] = IF cfg[s] = 0 THEN Default[s] ELSE cfg[s]
    BY <1>2 DEF MergeDefaults, Merge
  <2> QED
    BY <2>1 DEF ConfigInv, NoZeroWithDefault
<1>3. CASE UNCHANGED vars
  BY <1>3 DEF vars, ConfigInv, NoZeroWithDefault
<1> QED
  BY <1>1, <1>2, <1>3 DEF Next, Done

(* A setting with a default other than zero is not zero once read, whatever *)
(* flags, environment and file give (servercfg and agentcfg, Read): no user *)
(* can ask for the synchronous store, and no ticker and no first retry      *)
(* delay, which must not be zero, ever are.                                 *)
THEOREM DefaultedIsNotZero == Spec => [](pc = "read" => NoZeroWithDefault)
<1>1. Init => ConfigInv
  BY DEF Init, ConfigInv
<1>2. ConfigInv <=> (pc = "read" => NoZeroWithDefault)
  BY DEF ConfigInv
<1> QED
  BY <1>1, <1>2, StepKeeps, PTL DEF Spec
=============================================================================
