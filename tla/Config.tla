------------------------------- MODULE Config -------------------------------
(***************************************************************************)
(* How agent and server put their configuration together                   *)
(* (internal/config/{agentcfg,servercfg}/config.go, Read): flags, then     *)
(* environment variables, then the JSON file, then the defaults.           *)
(*                                                                         *)
(* Settings are numbers; 0 stands for the zero value of any type.  A field *)
(* of Config cannot tell a zero that was given from a setting that was not *)
(* given.                                                                  *)
(***************************************************************************)
EXTENDS Integers

CONSTANTS
  Setting,     \* fields of Config
  Value,       \* what may be given for one: any int, 0 included
  Default,     \* NewDefaultConfig, 0 for a setting without a default
  NotGiven

VARIABLES
  flags, env, file,  \* what the user gives in each source
  cfg,               \* the Config being built
  pc                 \* "flags", "env", "file", "defaults", "read"

vars == <<flags, env, file, cfg, pc>>

Source == [Setting -> Value \cup {NotGiven}]

Zero == [s \in Setting |-> 0]

Init ==
  /\ flags \in Source /\ env \in Source /\ file \in Source
  /\ cfg = Zero
  /\ pc = "flags"

(* flag.Parse and env.Parse assign the fields that are given.              *)
Assign(config, source) ==
  [s \in Setting |-> IF source[s] = NotGiven THEN config[s] ELSE source[s]]

(* mergo.Merge fills the fields of dst that have their zero value.         *)
Merge(dst, src) ==
  [s \in Setting |-> IF dst[s] = 0 THEN src[s] ELSE dst[s]]

ParseFlags ==
  /\ pc = "flags" /\ pc' = "env"
  /\ cfg' = Assign(cfg, flags)
  /\ UNCHANGED <<flags, env, file>>

ParseEnv ==
  /\ pc = "env" /\ pc' = "file"
  /\ cfg' = Assign(cfg, env)
  /\ UNCHANGED <<flags, env, file>>

(* A file that gives nothing stands for the absence of one, too.           *)
MergeFile ==
  /\ pc = "file" /\ pc' = "defaults"
  /\ cfg' = Merge(cfg, Assign(Zero, file))
  /\ UNCHANGED <<flags, env, file>>

MergeDefaults ==
  /\ pc = "defaults" /\ pc' = "read"
  /\ cfg' = Merge(cfg, Default)
  /\ UNCHANGED <<flags, env, file>>

Done == pc = "read" /\ UNCHANGED vars

Next == ParseFlags \/ ParseEnv \/ MergeFile \/ MergeDefaults \/ Done

Spec == Init /\ [][Next]_vars

-----------------------------------------------------------------------------
(* The help text of --store-interval: "0 for synchronous store".  Read     *)
(* should leave a zero the user gives for it a zero.                       *)
ZeroMeansSynchronous ==
  pc = "read" =>
    \A s \in Setting :
      flags[s] = 0 /\ env[s] = NotGiven /\ file[s] = NotGiven => cfg[s] = 0
=============================================================================
