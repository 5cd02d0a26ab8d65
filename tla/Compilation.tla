---------------------------- MODULE Compilation ----------------------------
(***************************************************************************)
(* What one invocation of the compiler promises to whoever started it: it  *)
(* does the stages its request needs, in their order and each once, and    *)
(* when the process ends its exit status is 0 exactly if the last stage of *)
(* the request was completed.                                              *)
(***************************************************************************)
VARIABLES request,   \* what this invocation was asked to do
          progress,  \* the last stage completed
          status     \* "running", or the exit status

vars == <<request, progress, status>>

Request == {"license", "ast", "code"}

(* The stages each kind of request goes through, as pairs of consecutive   *)
(* ones.                                                                   *)
Follows(r) ==
  CASE r = "license" -> {<<"none", "licensed">>}
    [] r = "ast"     -> {<<"none", "lexed">>, <<"lexed", "parsed">>,
                         <<"parsed", "emitted">>}
    [] r = "code"    -> {<<"none", "lexed">>, <<"lexed", "parsed">>,
                         <<"parsed", "generated">>, <<"generated", "emitted">>}

Served == progress = IF request = "license" THEN "licensed" ELSE "emitted"

Init ==
  /\ request \in Request
  /\ progress = "none"
  /\ status = "running"

Advance ==
  /\ status = "running"
  /\ <<progress, progress'>> \in Follows(request)
  /\ UNCHANGED <<request, status>>

(* Exit codes 0, 1 and -1.                                                 *)
End ==
  /\ status = "running"
  /\ status' \in {"ok", "failed", "abnormal"}
  /\ (status' = "ok") <=> Served
  /\ UNCHANGED <<request, progress>>

Next == Advance \/ End

Spec == Init /\ [][Next]_vars
=============================================================================
