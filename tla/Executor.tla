------------------------------ MODULE Executor ------------------------------
(***************************************************************************)
(* What reporting.Executor promises its caller: Execute ends with every    *)
(* metric it was given in exactly one of SuccessIDs and FailureIDs, and    *)
(* nothing else in either (reporting/executor.go).                         *)
(***************************************************************************)
CONSTANT ID

VARIABLES executing, unresolved, successIDs, failureIDs

execVars == <<executing, unresolved, successIDs, failureIDs>>

Init ==
  /\ executing = FALSE
  /\ unresolved = {} /\ successIDs = {} /\ failureIDs = {}

Execute(ms) ==
  /\ ~ executing /\ executing' = TRUE
  /\ unresolved' = ms /\ successIDs' = {} /\ failureIDs' = {}

Resolve(sent, ok) ==
  /\ executing
  /\ unresolved' = unresolved \ sent
  /\ successIDs' = IF ok THEN successIDs \cup sent ELSE successIDs
  /\ failureIDs' = IF ok THEN failureIDs ELSE failureIDs \cup sent
  /\ UNCHANGED executing

Return ==
  /\ executing /\ unresolved = {} /\ executing' = FALSE
  /\ UNCHANGED <<unresolved, successIDs, failureIDs>>

Next ==
  \/ \E ms \in SUBSET ID : Execute(ms)
  \/ \E sent \in SUBSET unresolved, ok \in BOOLEAN : Resolve(sent, ok)
  \/ Return

Spec == Init /\ [][Next]_execVars
=============================================================================
