----------------------------- MODULE MCWebhooks -----------------------------
(* Instances of Webhooks for TLC.                                           *)
EXTENDS Webhooks

CONSTANTS ping, result, desk, archive

\* The archive wants everything, the desk only results.
MCMatching == {<<ping, archive>>, <<result, archive>>, <<result, desk>>}
=============================================================================
