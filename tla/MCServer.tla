------------------------------ MODULE MCServer ------------------------------
(***************************************************************************)
(* Small instances of Server for TLC.                                      *)
(***************************************************************************)
EXTENDS Server, TLC

\* One handler verdict and the rejection; a stored handler verdict is larger.
MCTerm == {"ok", "rejected"}
MCTermSize == [t \in MCTerm |-> IF t = "ok" THEN 2 ELSE 1]

\* The call with the highest sid of incarnation 3 names an unknown method.
MCUnknown == {<<3, MaxSid>>}

\* Incarnations are told apart only by equality.
MCEpochs == Permutations(Epoch)
=============================================================================
