---------------------------- MODULE MCTaskExecution ----------------------------
(* Small instances of TaskExecution: sizes 0 (nothing), 1 (within the limit  *)
(* on visible text), 2 (over it) and, clipped to 2, 3.                       *)
EXTENDS TaskExecution, TLC

CONSTANTS t1, t2

LiveAndEcho == (t1 :> "live") @@ (t2 :> "echo")

Says(size, safe) == [size |-> size, safe |-> safe]

SafeRequest == [text |-> Says(1, TRUE), ids_safe |-> TRUE]
SafeRequests == {SafeRequest}
AllRequests == {SafeRequest, [SafeRequest EXCEPT !.text.safe = FALSE],
                [SafeRequest EXCEPT !.ids_safe = FALSE]}

Ends(exit, out, err) == [exit |-> exit, stdout |-> out, stderr |-> err]
AllOutputs == {Ends("zero", Says(1, TRUE), Says(1, FALSE)),
               Ends("zero", Says(0, TRUE), Says(1, FALSE)),
               Ends("zero", Says(0, TRUE), Says(0, TRUE)),
               Ends("zero", Says(2, TRUE), Says(0, TRUE)),
               Ends("zero", Says(3, FALSE), Says(1, TRUE)),
               Ends("nonzero", Says(1, TRUE), Says(1, FALSE))}
TwoOutputs == {Ends("zero", Says(1, TRUE), Says(1, FALSE)),
               Ends("zero", Says(1, FALSE), Says(0, TRUE))}
===============================================================================
