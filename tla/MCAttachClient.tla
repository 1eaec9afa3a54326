---------------------------- MODULE MCAttachClient ----------------------------
(* The instances of AttachClient: a clean outcome, and one of two failures. *)
EXTENDS AttachClient

MCOutcomes ==
    {Outcome("exit 0", <<>>), Outcome("unknown", <<"conversation", "cleanup">>)}
=============================================================================
